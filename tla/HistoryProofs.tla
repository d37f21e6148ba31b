---------------------------- MODULE HistoryProofs ----------------------------
(***************************************************************************)
(* Proofs about what the audit trail, the idempotency table and the clock  *)
(* say of an item: the history properties of RemindiProperties.            *)
(*                                                                         *)
(* The argument: a step is quiet, is one client request that files its key *)
(* and appends one event to one row (Request), or stores evaluations, each *)
(* computed from the row it replaces at a time already past (Stored).      *)
(* Every property follows from these three cases and a small invariant of  *)
(* its own.                                                                *)
(***************************************************************************)
EXTENDS RemindiProofs, SequenceTheorems

\* The states from which readiness may be announced, and the events that allow
\* it to be announced again.
Armed == {"scheduled", "snoozed"}
Rearming == {"snoozed", "occurrence_advanced", "updated"}

\* The events of one evaluation that is worth storing.
Announcing == {<<"became_due">>, <<"condition_evaluated", "became_due">>}
Unannounced == {<<"became_overdue">>, <<"condition_evaluated">>}

\* What NeverEarly asks of a row that becomes ready at a time.
Reached(i, at) ==
  IF i.state = "snoozed" THEN i.snooze_until <= at
  ELSE i.trigger.kind \in TimeKinds => i.next_fire_at <= at

\* What an evaluation of i at a time says of its result.
Announces(i, j, types, at) ==
  /\ types \in Announcing \cup Unannounced
  /\ types \in Announcing => i.state \in Armed /\ j.state = "due"
  /\ j.state \in Armed => i.state \in Armed
  /\ i.state \notin Ready /\ j.state \in Ready => Reached(i, at)
  /\ SameSchedule(i, j)

-----------------------------------------------------------------------------
(* Evaluations. *)

LEMMA SnoozeAnnounces ==
  ASSUME NEW i \in Item, ItemOK(i), i.state = "snoozed", NEW now \in Time,
         EvaluateSnooze(i, now).events # <<>>
  PROVE  Announces(i, EvaluateSnooze(i, now).item, EvaluateSnooze(i, now).events, now)
<1> DEFINE woken == IF GraceOver(i, now) THEN "overdue" ELSE "due"
           j == [ClearSnooze(i) EXCEPT !.state = woken]
           list == <<IF woken = "due" THEN "became_due" ELSE "became_overdue">>
           r == EvaluateSnooze(i, now)
<1>1. ~(now < i.snooze_until)
  BY EvaluatedFields DEF EvaluateSnooze
<1>2. r = Evaluated(Bump(j), woken, list)
  BY <1>1 DEF EvaluateSnooze
<1>3. r.item = Bump(j) /\ r.events = list
  BY <1>2, EvaluatedFields
<1>4. i.snooze_until \in Time
  BY DEF ItemOK, OccurrenceFields, Item, OptTime
<1>5. Reached(i, now)
  BY <1>1, <1>4 DEF Reached, Time
<1>6. ClearSnooze(i) \in Item
  BY ClearSnoozeItem
<1>7. woken \in States
  BY DEF States, Active, Ready
<1>8. j \in Item /\ j.state = woken
  BY <1>6, <1>7, MoveItem
<1>9. Bump(j).state = woken
  BY <1>8, BumpItem
<1>10. /\ list \in Announcing \cup Unannounced
       /\ list \in Announcing => woken = "due"
  BY DEF Announcing, Unannounced
<1>11. SameSchedule(i, r.item)
  BY EvaluateSnoozeOK DEF EvaluationOK
<1> HIDE DEF r, j, list
<1>12. Announces(i, r.item, r.events, now)
  BY <1>3, <1>5, <1>9, <1>10, <1>11 DEF Announces, Armed
<1>13. QED
  BY <1>12 DEF r

LEMMA DueAnnounces ==
  ASSUME NEW i \in Item, ItemOK(i), i.state = "due", NEW now \in Time,
         EvaluateDue(i, now).events # <<>>
  PROVE  Announces(i, EvaluateDue(i, now).item, EvaluateDue(i, now).events, now)
<1> DEFINE j == [i EXCEPT !.state = "overdue"]
           r == EvaluateDue(i, now)
<1>1. GraceOver(i, now)
  BY EvaluatedFields DEF EvaluateDue
<1>2. r = Evaluated(Bump(j), "overdue", <<"became_overdue">>)
  BY <1>1 DEF EvaluateDue
<1>3. r.item = Bump(j) /\ r.events = <<"became_overdue">>
  BY <1>2, EvaluatedFields
<1>4. j \in Item /\ j.state = "overdue"
  BY MoveItem DEF States, Active, Ready
<1>5. Bump(j).state = "overdue"
  BY <1>4, BumpItem
<1>6. /\ <<"became_overdue">> \in Unannounced
      /\ <<"became_overdue">> \notin Announcing
  BY DEF Announcing, Unannounced
<1>7. SameSchedule(i, r.item)
  BY EvaluateDueOK DEF EvaluationOK
<1> HIDE DEF r, j
<1>8. Announces(i, r.item, r.events, now)
  BY <1>3, <1>5, <1>6, <1>7 DEF Announces, Armed, Ready
<1>9. QED
  BY <1>8 DEF r

\* The event lists of a scheduled row that becomes due.
LEMMA AnnouncingLists ==
  /\ <<>> \o <<"became_due">> = <<"became_due">>
  /\ <<"condition_evaluated">> \o <<"became_due">> = <<"condition_evaluated", "became_due">>
<1> DEFINE one == <<"became_due">>
           first == <<"condition_evaluated">>
           two == first \o one
           pair == <<"condition_evaluated", "became_due">>
<1>1. /\ one \in Seq(EvaluationTypes) /\ Len(one) = 1 /\ one[1] = "became_due"
      /\ first \in Seq(EvaluationTypes) /\ Len(first) = 1 /\ first[1] = "condition_evaluated"
      /\ pair \in Seq(EvaluationTypes) /\ Len(pair) = 2
      /\ pair[1] = "condition_evaluated" /\ pair[2] = "became_due"
  BY DEF EvaluationTypes
<1> HIDE DEF one, first, pair
<1>2. <<>> \o one = one
  BY <1>1, ConcatEmptySeq
<1>3. /\ two \in Seq(EvaluationTypes) /\ Len(two) = 2
      /\ two[1] = "condition_evaluated" /\ two[2] = "became_due"
  BY <1>1, ConcatProperties
<1> HIDE DEF two
<1>4. \A k \in 1 .. Len(two) : two[k] = pair[k]
  <2>1. \A k \in 1 .. 2 : k = 1 \/ k = 2
    OBVIOUS
  <2>2. QED
    BY <1>1, <1>3, <2>1
<1>5. two = pair
  BY <1>1, <1>3, <1>4, SeqEqual
<1>6. QED
  BY <1>2, <1>5 DEF one, two, pair, first

LEMMA ScheduledAnnounces ==
  ASSUME NEW i \in Item, ItemOK(i), i.state = "scheduled", NEW now \in Time,
         NEW context, NEW condition \in Conditions \cup {NotEvaluated},
         EvaluateScheduled(i, now, context, condition).events # <<>>
  PROVE  Announces(i, EvaluateScheduled(i, now, context, condition).item,
                   EvaluateScheduled(i, now, context, condition).events, now)
<1> DEFINE j == RecordCondition(i, now, condition)
           polled == IF i.trigger.kind = "condition" /\ condition # NotEvaluated
                     THEN <<"condition_evaluated">> ELSE <<>>
           both == polled \o <<"became_due">>
           k == [j EXCEPT !.state = "due", !.due_since = now]
           readiness == IF ManualFallback(i, now, condition)
                        THEN "manual_verification" ELSE "due"
           r == EvaluateScheduled(i, now, context, condition)
<1>1. /\ j \in Item /\ j.state = i.state
  BY RecordConditionItem
<1>2. r = IF Satisfied(i, now, context, condition)
          THEN Evaluated(Bump(k), readiness, both)
          ELSE Evaluated(j, None, polled)
  BY DEF EvaluateScheduled
<1>3. polled = <<>> \/ polled = <<"condition_evaluated">>
  BY Zenon
<1>4. SameSchedule(i, r.item)
  BY EvaluateScheduledOK DEF EvaluationOK
<1>5. r.events # <<>>
  OBVIOUS
<1> HIDE DEF j, polled, readiness, r
<1>5a. both \in Announcing
  BY <1>3, AnnouncingLists DEF Announcing
<1> HIDE DEF both
<1>6. CASE Satisfied(i, now, context, condition)
  <2>1. r.item = Bump(k) /\ r.events = both
    BY <1>2, <1>6, EvaluatedFields
  <2>3. k \in Item /\ k.state = "due"
    BY <1>1 DEF Item, OptTime, Time, States, Active, Ready
  <2> HIDE DEF k
  <2>4. Bump(k).state = "due"
    BY <2>3, BumpItem
  <2>5. i.trigger.kind \in TimeKinds => i.next_fire_at <= now
    BY <1>6 DEF Satisfied, TimeKinds, AtOrBefore, ManualFallback
  <2>6. Reached(i, now)
    BY <2>5 DEF Reached
  <2>7. Announces(i, r.item, r.events, now)
    BY <1>4, <1>5a, <2>1, <2>4, <2>6 DEF Announces, Armed
  <2>8. QED
    BY <2>7 DEF r
<1>7. CASE ~Satisfied(i, now, context, condition)
  <2>1. r.item = j /\ r.events = polled
    BY <1>2, <1>7, EvaluatedFields
  <2>2. polled = <<"condition_evaluated">>
    BY <1>3, <1>5, <2>1
  <2>3. polled \in Unannounced /\ polled \notin Announcing
    BY <2>2 DEF Announcing, Unannounced
  <2>4. Announces(i, r.item, r.events, now)
    BY <1>1, <1>4, <2>1, <2>3 DEF Announces, Armed, Ready
  <2>5. QED
    BY <2>4 DEF r
<1>8. QED
  BY <1>6, <1>7

\* Whatever an evaluation finds, it announces readiness at most once, only of a
\* row that was waiting, and only once that row's time has come.
LEMMA EvaluateAnnounces ==
  ASSUME NEW i \in Item, ItemOK(i), i.state \in Active, NEW now \in Time,
         NEW context, NEW condition \in Conditions \cup {NotEvaluated},
         Evaluate(i, now, context, condition).events # <<>>
  PROVE  Announces(i, Evaluate(i, now, context, condition).item,
                   Evaluate(i, now, context, condition).events, now)
<1>1. CASE i.state = "snoozed"
  BY <1>1, SnoozeAnnounces DEF Evaluate
<1>2. CASE i.state = "overdue"
  BY <1>2, EvaluatedFields DEF Evaluate
<1>3. CASE i.state = "due"
  BY <1>3, DueAnnounces DEF Evaluate
<1>4. CASE i.state = "scheduled"
  BY <1>4, ScheduledAnnounces DEF Evaluate
<1>5. QED
  BY <1>1, <1>2, <1>3, <1>4 DEF Active, Ready

\* The scheduler's additions to a result leave what it announces alone.
LEMMA SchedulerAnnounces ==
  ASSUME NEW i \in Item, ItemOK(i), i.state \in Active, NEW now \in Time,
         NEW condition \in Conditions \cup {NotEvaluated},
         SchedulerResult(i, now, condition).events # <<>>
  PROVE  Announces(i, SchedulerResult(i, now, condition).item,
                   SchedulerResult(i, now, condition).events, now)
<1> DEFINE r == Evaluate(i, now, SchedulerContext, condition)
           j == IF condition = NotEvaluated THEN r.item
                ELSE [r.item EXCEPT !.last_condition_detail = condition]
           k == IF j.version = i.version THEN Bump(j) ELSE j
           s == SchedulerResult(i, now, condition)
<1>1. EvaluationOK(i, r)
  BY EvaluateOK
<1>2. s = [r EXCEPT !.item = k]
  BY DEF SchedulerResult
<1>3. \E row, readiness, list : r = Evaluated(row, readiness, list)
  BY DEF Evaluate, EvaluateSnooze, EvaluateDue, EvaluateScheduled, Active, Ready
<1>4. s.events # <<>> /\ SameSchedule(i, s.item)
  BY SchedulerResultOK
<1>5. r.events # <<>> => Announces(i, r.item, r.events, now)
  BY EvaluateAnnounces
<1> HIDE DEF r, s
<1>6. j \in Item /\ j.state = r.item.state
  <2>1. r.item \in Item
    BY <1>1 DEF EvaluationOK
  <2>2. QED
    BY <2>1 DEF Item, Opt
<1> HIDE DEF j
<1>7. k.state = r.item.state
  BY <1>6, BumpItem
<1> HIDE DEF k
<1>8. s.item = k /\ s.events = r.events
  BY <1>2, <1>3 DEF Evaluated
<1>9. Announces(i, s.item, s.events, now)
  BY <1>4, <1>5, <1>7, <1>8 DEF Announces
<1>10. QED
  BY <1>9 DEF s

-----------------------------------------------------------------------------
(* What a step adds to the history. *)

VersionOf(row) == IF row = None THEN 0 ELSE row.version

\* The row an update leaves, and the event that says which update it was.
Edit(i, j, type, args) ==
  \E now \in Readings :
    /\ CanUpdate(i, args, now)
    /\ j = Updated(i, args, now)
    /\ type = IF args.occurrence_disposition THEN "occurrence_advanced" ELSE "updated"

\* How a client request with these arguments may change a row.
Change(i, j, type, args) ==
  \/ type = "created" /\ i = None
  \/ /\ type \in {"completed", "cancelled", "snoozed"}
     /\ i # None
     /\ j.state = IF type = "snoozed" THEN "snoozed" ELSE type
     /\ SameSchedule(i, j)
  \/ i # None /\ args \in UpdateRequest /\ Edit(i, j, type, args)

\* One client request: its key was unused, is filed with it, and is the request
\* of the one event it adds.
Request(id, call, type) ==
  /\ RequestKey(call) \in RequestKeys
  /\ idempotency[RequestKey(call)] = None
  /\ idempotency'[RequestKey(call)] # None
  /\ idempotency'[RequestKey(call)].call = call
  /\ \A other \in RequestKeys \ {RequestKey(call)} : idempotency'[other] = idempotency[other]
  /\ \A other \in Ids \ {id} : items'[other] = items[other] /\ events'[other] = events[other]
  /\ items'[id] \in Item
  /\ items'[id].version = VersionOf(items[id]) + 1
  /\ events'[id] = Append(events[id], Event(type, VersionOf(items[id]), items'[id].version,
                                            RequestKey(call)))
  /\ Change(items[id], items'[id], type, call.args)

\* One stored evaluation of the row itself, made at a time already past.
Stored(id) ==
  \E types \in Announcing \cup Unannounced, at \in Time :
    /\ Live(id)
    /\ at <= clock
    /\ items'[id] \in Item
    /\ items'[id].version = items[id].version + 1
    /\ Announces(items[id], items'[id], types, at)
    /\ events'[id] = events[id] \o Evaluations(types, items[id].version, items'[id].version)

Kept(id) == items'[id] = items[id] /\ events'[id] = events[id]

HistoryStep ==
  \/ \E id \in Ids : \E call, type : Request(id, call, type)
  \/ UNCHANGED idempotency /\ \A id \in Ids : Kept(id) \/ Stored(id)

\* A check or poll in flight began in the past.
TimesOK ==
  /\ \A c \in Checkers : checks[c] # None => checks[c].at <= clock
  /\ \A s \in Schedulers : polls[s] # None => polls[s].at <= clock

\* A call that may proceed has an unused key and, past creation, names the
\* version its row has.
LEMMA MutationCurrent ==
  ASSUME NEW actor, NEW tool \in Tools \ {"remindi_add"}, NEW key, NEW id, NEW version, NEW args,
         Mutation(Call(actor, tool, key, id, version, args))
  PROVE  /\ idempotency[RequestKey(Call(actor, tool, key, id, version, args))] = None
         /\ items[id] # None
         /\ items[id].version = version
<1> DEFINE call == Call(actor, tool, key, id, version, args)
<1>1. call.id = id /\ call.tool = tool /\ call.expected_version = version
  BY DEF Call
<1>2. Live(id)
  BY MutationTarget
<1> HIDE DEF call
<1>3. Answer(call).outcome = "proceed"
  BY DEF Mutation, call
<1>4. idempotency[RequestKey(call)] = None
  BY <1>3 DEF Answer, Replay
<1>5. Target(call).outcome = "proceed"
  BY <1>3, <1>4 DEF Answer
<1>6. items[id].version = version
  BY <1>1, <1>2, <1>5 DEF Target
<1>7. QED
  BY <1>2, <1>4, <1>6 DEF Live, call

LEMMA AddCurrent ==
  ASSUME NEW call, call.tool = "remindi_add", Answer(call).outcome = "proceed"
  PROVE  idempotency[RequestKey(call)] = None
BY DEF Answer, Replay

\* A stored request is not None.
LEMMA RecordPresent ==
  ASSUME NEW actor \in Actors, NEW tool \in Tools, NEW key \in Keys, NEW id \in Opt(Ids),
         NEW version \in Nat, NEW item \in Item,
         NEW args, args \in AddArgs \/ args \in UpdateArgs \/ args \in Opt(SnoozeUntils)
  PROVE  [call |-> Call(actor, tool, key, id, version, args), response |-> item] # None
<1> DEFINE record == [call |-> Call(actor, tool, key, id, version, args), response |-> item]
<1>1. CASE args \in AddArgs
  <2>1. record \in Records(AddArgs)
    BY <1>1 DEF Records, Call
  <2>2. QED
    BY <2>1, AbsentAssumption
<1>2. CASE args \in UpdateArgs
  <2>1. record \in Records(UpdateArgs)
    BY <1>2 DEF Records, Call
  <2>2. QED
    BY <2>1, AbsentAssumption
<1>3. CASE args \in Opt(SnoozeUntils)
  <2>1. record \in Records(Opt(SnoozeUntils))
    BY <1>3 DEF Records, Call
  <2>2. QED
    BY <2>1, AbsentAssumption
<1>4. QED
  BY <1>1, <1>2, <1>3

LEMMA CommitRequest ==
  ASSUME ShapeOK, DOMAIN idempotency = RequestKeys, NEW call, RequestKey(call) \in RequestKeys,
         idempotency[RequestKey(call)] = None, NEW id \in Ids, NEW item \in Item, NEW type,
         [call |-> call, response |-> item] # None,
         NEW prior, prior = VersionOf(items[id]), item.version = prior + 1,
         Commit(call, id, item, type, prior), Change(items[id], item, type, call.args)
  PROVE  Request(id, call, type)
<1> DEFINE record == [call |-> call, response |-> item]
           event == Event(type, prior, item.version, RequestKey(call))
<1>1. record # None /\ record.call = call
  OBVIOUS
<1> HIDE DEF record, event
<1>2. /\ items' = [items EXCEPT ![id] = item]
      /\ events' = [events EXCEPT ![id] = Append(@, event)]
      /\ idempotency' = [idempotency EXCEPT ![RequestKey(call)] = record]
  BY DEF Commit, record, event
<1>3. /\ items'[id] = item /\ events'[id] = Append(events[id], event)
      /\ \A other \in Ids \ {id} : items'[other] = items[other] /\ events'[other] = events[other]
  BY <1>2 DEF ShapeOK
<1>4. /\ idempotency'[RequestKey(call)] = record
      /\ \A other \in RequestKeys \ {RequestKey(call)} : idempotency'[other] = idempotency[other]
  BY <1>2
<1>5. event = Event(type, VersionOf(items[id]), items'[id].version, RequestKey(call))
  BY <1>3 DEF event
<1>6. QED
  BY <1>1, <1>3, <1>4, <1>5 DEF Request

\* Every client mutation is a request.
LEMMA AddRequests ==
  ASSUME RowsOK, DOMAIN idempotency = RequestKeys, NEW actor \in Actors, NEW key \in Keys,
         NEW id \in Ids, Add(actor, key, id)
  PROVE  HistoryStep
<1>1. PICK args \in AddArgs, now \in Readings :
        LET call == Call(actor, "remindi_add", key, None, 0, args)
        IN  /\ RecurrenceFits(args.recurrence, args.trigger)
            /\ Answer(call).outcome = "proceed"
            /\ ~Live(id)
            /\ Commit(call, id, NewItem(args, now), "created", 0)
  BY DEF Add
<1> DEFINE call == Call(actor, "remindi_add", key, None, 0, args)
           item == NewItem(args, now)
<1>2. now \in Time /\ ShapeOK
  BY DEF Readings, Time, RowsOK, ShapeOK
<1>3. item \in Item /\ item.version = 1
  BY <1>1, <1>2, NewItemOK
<1>4. RequestKey(call) \in RequestKeys /\ call.tool = "remindi_add"
  BY CallKey DEF Tools, Call
<1>5. [call |-> call, response |-> item] # None
  BY <1>3, RecordPresent DEF Opt, Tools
<1>6. Answer(call).outcome = "proceed" /\ Commit(call, id, item, "created", 0)
  BY <1>1
<1> HIDE DEF call, item
<1>7. idempotency[RequestKey(call)] = None
  BY <1>4, <1>6, AddCurrent
<1>8. VersionOf(items[id]) = 0 /\ Change(items[id], item, "created", call.args)
  BY <1>1 DEF VersionOf, Live, Change
<1>9. Request(id, call, "created")
  BY <1>2, <1>3, <1>4, <1>5, <1>6, <1>7, <1>8, CommitRequest
<1>10. QED
  BY <1>9 DEF HistoryStep

LEMMA EndRequests ==
  ASSUME RowsOK, DOMAIN idempotency = RequestKeys, NEW actor \in Actors, NEW key \in Keys,
         NEW id \in Ids, CompleteItem(actor, key, id) \/ CancelItem(actor, key, id)
  PROVE  HistoryStep
<1>1. PICK version \in 1 .. MaxVersion, tool \in {"remindi_complete", "remindi_cancel"},
           type \in {"completed", "cancelled"} :
        LET call == Call(actor, tool, key, id, version, None)
        IN  /\ Mutation(call)
            /\ Commit(call, id, Bump([ClearSnooze(items[id]) EXCEPT !.state = type]), type, version)
  BY DEF CompleteItem, CancelItem, Complete, Cancel
<1> DEFINE call == Call(actor, tool, key, id, version, None)
           item == Bump([ClearSnooze(items[id]) EXCEPT !.state = type])
<1>2. ShapeOK /\ version \in Nat /\ tool \in Tools \ {"remindi_add"} /\ type \in Terminal
  BY DEF RowsOK, ShapeOK, Tools, Terminal
<1>3. idempotency[RequestKey(call)] = None /\ items[id] # None /\ items[id].version = version
  BY <1>1, <1>2, MutationCurrent
<1>4. items[id] \in Item /\ ItemOK(items[id])
  BY <1>3, LiveRow DEF Live
<1>5. /\ item \in Item /\ item.version = items[id].version + 1 /\ item.state = type
      /\ SameSchedule(items[id], item)
  BY <1>2, <1>4, EndItemOK
<1>6. RequestKey(call) \in RequestKeys
  BY <1>2, CallKey
<1>7. [call |-> call, response |-> item] # None
  BY <1>2, <1>5, RecordPresent DEF Opt
<1>8. Commit(call, id, item, type, version)
  BY <1>1
<1> HIDE DEF call, item
<1>9. VersionOf(items[id]) = version /\ Change(items[id], item, type, call.args)
  BY <1>1, <1>3, <1>5 DEF VersionOf, Change
<1>10. Request(id, call, type)
  BY <1>2, <1>3, <1>5, <1>6, <1>7, <1>8, <1>9, CommitRequest
<1>11. QED
  BY <1>10 DEF HistoryStep

LEMMA SnoozeRequests ==
  ASSUME RowsOK, DOMAIN idempotency = RequestKeys, NEW actor \in Actors, NEW key \in Keys,
         NEW id \in Ids, SnoozeItem(actor, key, id)
  PROVE  HistoryStep
<1>1. PICK version \in 1 .. MaxVersion, until \in SnoozeUntils, now \in Readings :
        LET call == Call(actor, "remindi_snooze", key, id, version, until)
        IN  /\ Mutation(call)
            /\ CanSnooze(items[id], until, now)
            /\ Commit(call, id, Snooze(items[id], until), "snoozed", version)
  BY DEF SnoozeItem
<1> DEFINE call == Call(actor, "remindi_snooze", key, id, version, until)
           item == Snooze(items[id], until)
<1>2. /\ ShapeOK /\ version \in Nat /\ "remindi_snooze" \in Tools \ {"remindi_add"}
      /\ until \in Time /\ now \in Time
  BY RequestAssumption DEF RowsOK, ShapeOK, Tools, Readings, Time
<1>3. idempotency[RequestKey(call)] = None /\ items[id] # None /\ items[id].version = version
  BY <1>1, <1>2, MutationCurrent
<1>4. items[id] \in Item /\ ItemOK(items[id])
  BY <1>3, LiveRow DEF Live
<1>5. /\ item \in Item /\ item.version = items[id].version + 1 /\ item.state = "snoozed"
      /\ SameSchedule(items[id], item)
  BY <1>1, <1>2, <1>4, SnoozeItemOK
<1>6. RequestKey(call) \in RequestKeys
  BY <1>2, CallKey
<1>7. [call |-> call, response |-> item] # None
  BY <1>2, <1>5, RecordPresent DEF Opt
<1>8. Commit(call, id, item, "snoozed", version)
  BY <1>1
<1> HIDE DEF call, item
<1>9. VersionOf(items[id]) = version /\ Change(items[id], item, "snoozed", call.args)
  BY <1>3, <1>5 DEF VersionOf, Change
<1>10. Request(id, call, "snoozed")
  BY <1>2, <1>3, <1>5, <1>6, <1>7, <1>8, <1>9, CommitRequest
<1>11. QED
  BY <1>10 DEF HistoryStep

LEMMA UpdateRequests ==
  ASSUME RowsOK, DOMAIN idempotency = RequestKeys, NEW actor \in Actors, NEW key \in Keys,
         NEW id \in Ids, UpdateItem(actor, key, id)
  PROVE  HistoryStep
<1>1. PICK version \in 1 .. MaxVersion, args \in UpdateArgs, now \in Readings :
        LET call == Call(actor, "remindi_update", key, id, version, args)
        IN  /\ Mutation(call)
            /\ CanUpdate(items[id], args, now)
            /\ Commit(call, id, Updated(items[id], args, now),
                      IF args.occurrence_disposition THEN "occurrence_advanced"
                      ELSE "updated", version)
  BY DEF UpdateItem
<1> DEFINE call == Call(actor, "remindi_update", key, id, version, args)
           item == Updated(items[id], args, now)
           type == IF args.occurrence_disposition THEN "occurrence_advanced" ELSE "updated"
<1>2. /\ ShapeOK /\ version \in Nat /\ "remindi_update" \in Tools \ {"remindi_add"}
      /\ args \in UpdateRequest /\ now \in Time
  BY RequestAssumption DEF RowsOK, ShapeOK, Tools, Readings, Time
<1>3. idempotency[RequestKey(call)] = None /\ items[id] # None /\ items[id].version = version
  BY <1>1, <1>2, MutationCurrent
<1>4. items[id] \in Item /\ ItemOK(items[id])
  BY <1>3, LiveRow DEF Live
<1>5. item \in Item /\ item.version = items[id].version + 1
  BY <1>1, <1>2, <1>4, UpdatedItem
<1>6. RequestKey(call) \in RequestKeys
  BY <1>2, CallKey
<1>7. [call |-> call, response |-> item] # None
  BY <1>2, <1>5, RecordPresent DEF Opt
<1>8. Commit(call, id, item, type, version) /\ call.args = args
  BY <1>1 DEF Call
<1>9. Edit(items[id], item, type, args)
  BY <1>1 DEF Edit
<1> HIDE DEF call, item, type
<1>10. VersionOf(items[id]) = version /\ Change(items[id], item, type, call.args)
  BY <1>2, <1>3, <1>8, <1>9 DEF VersionOf, Change
<1>11. Request(id, call, type)
  BY <1>2, <1>3, <1>5, <1>6, <1>7, <1>8, <1>10, CommitRequest
<1>12. QED
  BY <1>11 DEF HistoryStep

\* Stored results of a check are evaluations of the rows they replace.
LEMMA FinishCheckStores ==
  ASSUME IInv, TimesOK, NEW c \in Checkers, FinishCheck(c)
  PROVE  HistoryStep
<1> DEFINE check == checks[c]
           ready == {id \in DOMAIN check.seen : Preview(check, id).readiness # None}
<1>1. PICK page \in SUBSET ready :
        LET stored == {id \in page : /\ Preview(check, id).events # <<>>
                                     /\ StillCurrent(id, check.seen[id])}
        IN  /\ items' = [id \in Ids |-> IF id \in stored THEN Preview(check, id).item
                                        ELSE items[id]]
            /\ events' = [id \in Ids |->
                 IF id \in stored
                 THEN events[id] \o Evaluations(Preview(check, id).events,
                                               check.seen[id].version,
                                               Preview(check, id).item.version)
                 ELSE events[id]]
  BY DEF FinishCheck
<1> DEFINE stored == {id \in page : /\ Preview(check, id).events # <<>>
                                    /\ StillCurrent(id, check.seen[id])}
<1>2. UNCHANGED idempotency /\ check # None
  BY DEF FinishCheck
<1>3. /\ check.at \in Time /\ check.at <= clock
      /\ DOMAIN check.seen \subseteq Ids
      /\ \A id \in DOMAIN check.seen : Snapshot(items[id], check.seen[id])
  BY <1>2 DEF IInv, ChecksOK, TimesOK
<1> HIDE DEF check
<1>4. ASSUME NEW id \in stored
      PROVE  Stored(id)
  <2> DEFINE r == Preview(check, id)
  <2>1. id \in Ids /\ id \in DOMAIN check.seen /\ r.events # <<>>
    BY <1>3
  <2>2. check.seen[id].version = items[id].version
    BY DEF StillCurrent
  <2>3. /\ check.seen[id] = items[id] /\ items[id] \in Item /\ ItemOK(items[id])
        /\ items[id].state \in Active /\ Live(id)
    BY <1>3, <2>1, <2>2 DEF Snapshot, Live
  <2>4. r = Evaluate(items[id], check.at, check.context, NotEvaluated)
    BY <2>3 DEF Preview
  <2>5. r.item \in Item /\ r.item.version = items[id].version + 1
    <3>1. EvaluationOK(items[id], r) /\ r.item.version = items[id].version + 1
      BY <1>3, <2>1, <2>3, <2>4, EvaluateOK
    <3>2. QED
      BY <3>1 DEF EvaluationOK
  <2>6. Announces(items[id], r.item, r.events, check.at)
    BY <1>3, <2>1, <2>3, <2>4, EvaluateAnnounces
  <2>7. /\ items'[id] = r.item
        /\ events'[id] = events[id] \o Evaluations(r.events, check.seen[id].version, r.item.version)
    BY <1>1, <2>1
  <2> HIDE DEF r
  <2>8. r.events \in Announcing \cup Unannounced
    BY <2>6 DEF Announces
  <2>9. QED
    BY <1>3, <2>2, <2>3, <2>5, <2>6, <2>7, <2>8 DEF Stored
<1>5. ASSUME NEW id \in Ids \ stored
      PROVE  Kept(id)
  BY <1>1 DEF Kept
<1>6. QED
  BY <1>2, <1>4, <1>5 DEF HistoryStep

\* So is the result a poll stores.
LEMMA ApplyResultStores ==
  ASSUME IInv, TimesOK, NEW s \in Schedulers, NEW id \in Ids, ApplyResult(s, id)
  PROVE  HistoryStep
<1> DEFINE seen == polls[s].seen[id]
           result(condition) == SchedulerResult(seen, polls[s].at, condition)
<1>1. polls[s] # None /\ id \in DOMAIN polls[s].seen /\ UNCHANGED idempotency
  BY DEF ApplyResult, NextUp
<1>2. PICK condition \in Answers(seen) :
        IF result(condition).events # <<>> /\ StillCurrent(id, seen)
        THEN /\ items' = [items EXCEPT ![id] = result(condition).item]
             /\ events' = [events EXCEPT ![id] =
                  @ \o Evaluations(result(condition).events, seen.version,
                                   result(condition).item.version)]
        ELSE UNCHANGED <<items, events>>
  BY DEF ApplyResult, NextUp
<1>3. polls[s].at \in Time /\ polls[s].at <= clock /\ Snapshot(items[id], seen)
  BY <1>1 DEF IInv, PollsOK, TimesOK
<1>4. condition \in Conditions \cup {NotEvaluated}
  BY <1>2 DEF Answers
<1> HIDE DEF seen
<1>5. CASE result(condition).events # <<>> /\ StillCurrent(id, seen)
  <2> DEFINE r == result(condition)
             list == Evaluations(r.events, seen.version, r.item.version)
  <2>1. /\ seen = items[id] /\ items[id] \in Item /\ ItemOK(items[id])
        /\ items[id].state \in Active /\ Live(id)
    BY <1>3, <1>5 DEF Snapshot, StillCurrent, Live
  <2>2. r.item \in Item /\ r.item.version = items[id].version + 1
    BY <1>3, <1>4, <2>1, SchedulerResultOK
  <2>3. Announces(items[id], r.item, r.events, polls[s].at)
    BY <1>3, <1>4, <1>5, <2>1, SchedulerAnnounces
  <2>4. items' = [items EXCEPT ![id] = r.item] /\ events' = [events EXCEPT ![id] = @ \o list]
    BY <1>2, <1>5
  <2> HIDE DEF result, r
  <2>5. r.events \in Announcing \cup Unannounced
    BY <2>3 DEF Announces
  <2>6. /\ items'[id] = r.item
        /\ events'[id] = events[id] \o Evaluations(r.events, items[id].version, r.item.version)
    BY <2>1, <2>4 DEF IInv, RowsOK
  <2>7. Stored(id)
    BY <1>3, <2>1, <2>2, <2>3, <2>5, <2>6 DEF Stored
  <2>8. \A other \in Ids \ {id} : Kept(other)
    BY <2>4 DEF IInv, RowsOK, Kept
  <2>9. QED
    BY <1>1, <2>7, <2>8 DEF HistoryStep
<1>6. CASE ~(result(condition).events # <<>> /\ StillCurrent(id, seen))
  BY <1>1, <1>2, <1>6 DEF HistoryStep, Kept
<1>7. QED
  BY <1>5, <1>6

\* Checks and polls keep the time they began at, and the clock never goes back.
LEMMA TimesStay ==
  ASSUME IInv, TimesOK, [Next]_vars
  PROVE  TimesOK'
<1> USE DEF TimesOK
<1>0. clock \in Nat /\ DOMAIN checks = Checkers /\ DOMAIN polls = Schedulers
  BY DEF IInv, RowsOK, ChecksOK, PollsOK, Time
<1>1. CASE Tick
  <2>1. clock' = clock + 1 /\ UNCHANGED <<checks, polls>>
    BY <1>1 DEF Tick
  <2>2. /\ \A c \in Checkers : checks[c] # None => checks[c].at \in Nat
        /\ \A s \in Schedulers : polls[s] # None => polls[s].at \in Nat
    BY DEF IInv, ChecksOK, PollsOK, Time
  <2>3. QED
    BY <1>0, <2>1, <2>2
<1>2. CASE ClientMutation
  <2>1. MutationOK
    BY <1>2, AddStep, CompleteStep, CancelStep, SnoozeStep, UpdateStep DEF ClientMutation, IInv
  <2>2. clock' = clock
    BY <1>2 DEF ClientMutation, Add, CompleteItem, CancelItem, SnoozeItem, UpdateItem, Commit
  <2>3. QED
    BY <2>1, <2>2 DEF MutationOK
<1>3. ASSUME NEW c \in Checkers, BeginCheck(c)
      PROVE  TimesOK'
  <2>1. PICK context, seen : checks' = [checks EXCEPT ![c] =
                               [at |-> clock, context |-> context, seen |-> seen]]
    BY <1>3 DEF BeginCheck
  <2>2. UNCHANGED <<clock, polls>>
    BY <1>3 DEF BeginCheck
  <2>3. QED
    BY <1>0, <2>1, <2>2
<1>4. ASSUME NEW c \in Checkers, FinishCheck(c) \/ AbandonCheck(c)
      PROVE  TimesOK'
  <2>1. checks' = [checks EXCEPT ![c] = None] /\ UNCHANGED <<clock, polls>>
    BY <1>4 DEF FinishCheck, AbandonCheck
  <2>2. QED
    BY <1>0, <2>1
<1>5. ASSUME NEW s \in Schedulers, BeginPoll(s)
      PROVE  TimesOK'
  <2>1. PICK seen : polls' = [polls EXCEPT ![s] = [at |-> clock, seen |-> seen]]
    BY <1>5 DEF BeginPoll
  <2>2. UNCHANGED <<clock, checks>>
    BY <1>5 DEF BeginPoll
  <2>3. QED
    BY <1>0, <2>1, <2>2
<1>6. ASSUME NEW s \in Schedulers, AbandonPoll(s)
      PROVE  TimesOK'
  <2>1. polls' = [polls EXCEPT ![s] = None] /\ UNCHANGED <<clock, checks>>
    BY <1>6 DEF AbandonPoll
  <2>2. QED
    BY <1>0, <2>1
<1>7. ASSUME NEW s \in Schedulers, NEW id \in Ids, ApplyResult(s, id) \/ FailResult(s, id)
      PROVE  TimesOK'
  <2>1. /\ polls' = [polls EXCEPT ![s] = Remaining(@, id)] /\ UNCHANGED <<clock, checks>>
        /\ polls[s] # None
    BY <1>7 DEF ApplyResult, FailResult
  <2>2. polls'[s] # None => polls'[s].at = polls[s].at
    <3>1. polls'[s] = Remaining(polls[s], id)
      BY <1>0, <2>1
    <3>2. polls[s] = [at |-> polls[s].at, seen |-> polls[s].seen]
      BY <2>1 DEF IInv, PollsOK
    <3>3. ASSUME Remaining(polls[s], id) # None
          PROVE  Remaining(polls[s], id).at = polls[s].at
      <4> DEFINE rest == [other \in DOMAIN polls[s].seen \ {id} |-> polls[s].seen[other]]
      <4>1. Remaining(polls[s], id) = [polls[s] EXCEPT !.seen = rest]
        BY <3>3 DEF Remaining
      <4> HIDE DEF rest
      <4>2. QED
        BY <3>2, <4>1
    <3>4. QED
      BY <3>1, <3>3
  <2>3. QED
    BY <1>0, <2>1, <2>2
<1>8. CASE UNCHANGED vars
  BY <1>8 DEF vars
<1>9. QED
  BY <1>1, <1>2, <1>3, <1>4, <1>5, <1>6, <1>7, <1>8 DEF Next

\* Every step is one of the three cases.
LEMMA StepHistory ==
  ASSUME IInv, RecordsOK, TimesOK, [Next]_vars
  PROVE  HistoryStep
<1>1. CASE ClientMutation
  <2>1. RowsOK /\ DOMAIN idempotency = RequestKeys
    BY DEF IInv, RecordsOK
  <2>2. QED
    BY <1>1, <2>1, AddRequests, EndRequests, SnoozeRequests, UpdateRequests DEF ClientMutation
<1>2. ASSUME NEW c \in Checkers, FinishCheck(c)
      PROVE  HistoryStep
  BY <1>2, FinishCheckStores
<1>3. ASSUME NEW s \in Schedulers, NEW id \in Ids, ApplyResult(s, id)
      PROVE  HistoryStep
  BY <1>3, ApplyResultStores
<1>4. CASE /\ ~ClientMutation
           /\ ~\E c \in Checkers : FinishCheck(c)
           /\ ~\E s \in Schedulers, id \in Ids : ApplyResult(s, id)
  <2>1. UNCHANGED <<items, events, idempotency>>
    BY <1>4 DEF Next, Tick, BeginCheck, AbandonCheck, BeginPoll, AbandonPoll, FailResult,
       tables, vars
  <2>2. QED
    BY <2>1 DEF HistoryStep, Kept
<1>5. QED
  BY <1>1, <1>2, <1>3, <1>4

\* The inductive invariant with the times, from which the history follows.
TInv == IInv /\ RecordsOK /\ TimesOK

THEOREM TimesSound == Spec => []TInv
<1>1. Init => TimesOK
  BY DEF Init, TimesOK
<1>2. IInv /\ TimesOK /\ [Next]_vars => TimesOK'
  BY TimesStay
<1>3. QED
  BY <1>1, <1>2, Soundness, RecordsSound, PTL DEF Spec, TInv

-----------------------------------------------------------------------------
(* The audit trail of one row after a step. *)

LEMMA RequestTrail ==
  ASSUME RowsOK, NEW id \in Ids, NEW call, NEW type, Request(id, call, type)
  PROVE  /\ Len(events[id]) \in Nat
         /\ DOMAIN events[id] = 1 .. Len(events[id])
         /\ DOMAIN events'[id] = 1 .. Len(events[id]) + 1
         /\ Len(events'[id]) = Len(events[id]) + 1
         /\ \A k \in DOMAIN events[id] : events'[id][k] = events[id][k]
         /\ events'[id][Len(events[id]) + 1]
              = Event(type, VersionOf(items[id]), items'[id].version, RequestKey(call))
<1> DEFINE event == Event(type, VersionOf(items[id]), items'[id].version, RequestKey(call))
           S == EventRow \cup {event}
<1>1. events[id] \in Seq(S) /\ event \in S
  BY DEF RowsOK
<1>2. events'[id] = Append(events[id], event)
  BY DEF Request
<1> HIDE DEF event, S
<1>3. QED
  BY <1>1, <1>2, AppendProperties DEF event

\* The lists an evaluation stores: one or two events, at most the last of them
\* announcing.
LEMMA ListShape ==
  ASSUME NEW types \in Announcing \cup Unannounced
  PROVE  /\ types \in Seq(EvaluationTypes)
         /\ Len(types) \in {1, 2}
         /\ DOMAIN types = 1 .. Len(types)
         /\ \A k \in DOMAIN types :
              types[k] = "became_due" => types \in Announcing /\ k = Len(types)
<1> DEFINE Shaped == /\ types \in Seq(EvaluationTypes)
                     /\ Len(types) \in {1, 2}
                     /\ DOMAIN types = 1 .. Len(types)
                     /\ \A k \in DOMAIN types :
                          types[k] = "became_due" => types \in Announcing /\ k = Len(types)
<1>1. CASE types = <<"became_due">>
  <2>1. types \in Announcing
    BY <1>1 DEF Announcing
  <2>2. /\ types \in Seq(EvaluationTypes) /\ Len(types) = 1 /\ DOMAIN types = 1 .. 1
    BY <1>1 DEF EvaluationTypes
  <2>3. QED
    BY <2>1, <2>2
<1>2. CASE types = <<"became_overdue">>
  <2>1. /\ types \in Seq(EvaluationTypes) /\ Len(types) = 1 /\ DOMAIN types = 1 .. 1
        /\ types[1] = "became_overdue"
    BY <1>2 DEF EvaluationTypes
  <2>2. QED
    BY <2>1
<1>3. CASE types = <<"condition_evaluated">>
  <2>1. /\ types \in Seq(EvaluationTypes) /\ Len(types) = 1 /\ DOMAIN types = 1 .. 1
        /\ types[1] = "condition_evaluated"
    BY <1>3 DEF EvaluationTypes
  <2>2. QED
    BY <2>1
<1>4. CASE types = <<"condition_evaluated", "became_due">>
  <2>1. types \in Announcing
    BY <1>4 DEF Announcing
  <2>2. /\ types \in Seq(EvaluationTypes) /\ Len(types) = 2 /\ DOMAIN types = 1 .. 2
        /\ types[1] = "condition_evaluated"
    BY <1>4 DEF EvaluationTypes
  <2>3. QED
    BY <2>1, <2>2
<1>5. Shaped
  BY <1>1, <1>2, <1>3, <1>4 DEF Announcing, Unannounced
<1>6. QED
  BY <1>5

\* The trail grew by the events of one evaluation.
Grew(before, after, types, prior, new) ==
  /\ Len(before) \in Nat
  /\ DOMAIN before = 1 .. Len(before)
  /\ DOMAIN after = 1 .. Len(before) + Len(types)
  /\ Len(after) = Len(before) + Len(types)
  /\ \A k \in DOMAIN before : after[k] = before[k]
  /\ \A k \in 1 .. Len(types) :
       /\ after[Len(before) + k].type = types[k]
       /\ after[Len(before) + k].prior_version = prior
       /\ after[Len(before) + k].new_version = new
       /\ after[Len(before) + k].request = None

LEMMA EvaluationsGrow ==
  ASSUME NEW before \in Seq(EventRow), NEW types \in Announcing \cup Unannounced,
         NEW prior \in Nat, NEW new \in Nat
  PROVE  Grew(before, before \o Evaluations(types, prior, new), types, prior, new)
<1> DEFINE list == Evaluations(types, prior, new)
           after == before \o list
<1>1. types \in Seq(EvaluationTypes) /\ DOMAIN types = 1 .. Len(types) /\ Len(types) \in Nat
  BY ListShape
<1>2. list \in Seq(EventRow)
  BY <1>1, EvaluationsType
<1>3. /\ DOMAIN list = DOMAIN types
      /\ \A k \in 1 .. Len(types) : list[k] = Event(types[k], prior, new, None)
  BY <1>1 DEF Evaluations
<1>4. after = before \o list
  OBVIOUS
<1> HIDE DEF list
<1>5. Len(list) = Len(types)
  BY <1>1, <1>2, <1>3, LenProperties
<1> DEFINE n == Len(before)
           m == Len(types)
<1> HIDE DEF after
<1>6. n \in Nat /\ m \in Nat /\ DOMAIN before = 1 .. n
  BY <1>1, <1>4, LenProperties
<1>7. /\ after \in Seq(EventRow) /\ Len(after) = n + m
      /\ \A k \in 1 .. n + m : after[k] = IF k <= n THEN before[k] ELSE list[k - n]
  <2>1. /\ before \o list \in Seq(EventRow)
        /\ Len(before \o list) = Len(before) + Len(list)
        /\ \A k \in 1 .. Len(before) + Len(list) :
             (before \o list)[k] = IF k <= Len(before) THEN before[k]
                                       ELSE list[k - Len(before)]
    BY <1>2, <1>4, ConcatProperties
  <2>2. QED
    BY <1>5, <2>1 DEF after
<1>8. DOMAIN after = 1 .. n + m
  BY <1>7, LenProperties
<1> HIDE DEF n, m
<1>9. \A k \in 1 .. n : after[k] = before[k]
  BY <1>6, <1>7
<1>10. ASSUME NEW k \in 1 .. m
       PROVE  after[n + k] = list[k]
  <2> DEFINE p == n + k
  <2>1. p \in 1 .. n + m /\ ~(p <= n) /\ p - n = k
    BY <1>6
  <2> HIDE DEF p
  <2>2. after[p] = list[k]
    BY <1>7, <2>1
  <2>3. QED
    BY <2>2 DEF p
<1>11. ASSUME NEW k \in 1 .. m
       PROVE  /\ after[n + k].type = types[k]
              /\ after[n + k].prior_version = prior
              /\ after[n + k].new_version = new
              /\ after[n + k].request = None
  <2>1. list[k] = Event(types[k], prior, new, None)
    BY <1>3 DEF m
  <2> DEFINE event == after[n + k]
  <2>2. event = list[k]
    BY <1>10
  <2> HIDE DEF event
  <2>3. /\ event.type = types[k] /\ event.prior_version = prior
        /\ event.new_version = new /\ event.request = None
    BY <2>1, <2>2 DEF Event
  <2>4. QED
    BY <2>3 DEF event
<1>12. Grew(before, after, types, prior, new)
  BY <1>6, <1>7, <1>8, <1>9, <1>11 DEF Grew, n, m
<1>13. QED
  BY <1>12 DEF after, list

\* The versions an evaluation and a request write are numbers.
LEMMA StoredVersions ==
  ASSUME RowsOK, NEW id \in Ids, Live(id), items'[id] \in Item
  PROVE  /\ items[id].version \in Nat /\ items'[id].version \in Nat
         /\ VersionOf(items[id]) = items[id].version
BY LiveRow DEF Live, VersionOf, Item

\* What a stored evaluation adds to its row.
StoredEvents(id, types) ==
  \E at \in Time :
    /\ Live(id)
    /\ at <= clock
    /\ items[id] \in Item /\ items'[id] \in Item
    /\ items'[id].version = items[id].version + 1
    /\ Announces(items[id], items'[id], types, at)
    /\ Grew(events[id], events'[id], types, items[id].version, items'[id].version)

LEMMA StoredRow ==
  ASSUME RowsOK, NEW id \in Ids, Stored(id)
  PROVE  \E types \in Announcing \cup Unannounced : StoredEvents(id, types)
<1>1. PICK types \in Announcing \cup Unannounced, at \in Time :
        /\ Live(id)
        /\ at <= clock
        /\ items'[id] \in Item
        /\ items'[id].version = items[id].version + 1
        /\ Announces(items[id], items'[id], types, at)
        /\ events'[id] = events[id] \o Evaluations(types, items[id].version, items'[id].version)
  BY DEF Stored
<1>2. items[id].version \in Nat /\ items'[id].version \in Nat /\ items[id] \in Item
  BY <1>1, StoredVersions, LiveRow
<1>3. events[id] \in Seq(EventRow)
  BY DEF RowsOK
<1>4. Grew(events[id], events[id] \o Evaluations(types, items[id].version, items'[id].version),
           types, items[id].version, items'[id].version)
  BY <1>2, <1>3, EvaluationsGrow
<1>5. Grew(events[id], events'[id], types, items[id].version, items'[id].version)
  BY <1>1, <1>4
<1>6. StoredEvents(id, types)
  BY <1>1, <1>2, <1>5 DEF StoredEvents
<1>7. QED
  BY <1>6

-----------------------------------------------------------------------------
(* One idempotency key, one effect. *)

\* Every event a client caused has its request on file, so the key of a request
\* that is not on file has no event yet.
Filed ==
  \A id \in Ids : \A k \in DOMAIN events[id] :
    events[id][k].request # None =>
      /\ events[id][k].request \in RequestKeys
      /\ idempotency[events[id][k].request] # None

OnceInv == Filed /\ AtMostOnce

LEMMA RequestOnce ==
  ASSUME RowsOK, OnceInv, NEW id \in Ids, NEW call, NEW type, Request(id, call, type)
  PROVE  OnceInv'
<1> DEFINE n == Len(events[id]) + 1
           key == RequestKey(call)
<1>1. /\ DOMAIN events[id] = 1 .. Len(events[id]) /\ Len(events[id]) \in Nat
      /\ DOMAIN events'[id] = 1 .. n
      /\ \A k \in DOMAIN events[id] : events'[id][k] = events[id][k]
      /\ events'[id][n].request = key
  <2>1. /\ DOMAIN events[id] = 1 .. Len(events[id]) /\ Len(events[id]) \in Nat
        /\ DOMAIN events'[id] = 1 .. n
        /\ \A k \in DOMAIN events[id] : events'[id][k] = events[id][k]
        /\ events'[id][n] = Event(type, VersionOf(items[id]), items'[id].version, key)
    BY RequestTrail
  <2> HIDE DEF n, key
  <2>2. QED
    BY <2>1 DEF Event
<1>2. /\ key \in RequestKeys /\ idempotency[key] = None /\ idempotency'[key] # None
      /\ \A other \in RequestKeys \ {key} : idempotency'[other] = idempotency[other]
      /\ \A other \in Ids \ {id} : events'[other] = events[other]
  BY DEF Request
<1> HIDE DEF key, n
<1>3. ASSUME NEW a \in Ids, NEW j \in DOMAIN events'[a]
      PROVE  \/ a = id /\ j = n
             \/ j \in DOMAIN events[a] /\ events'[a][j] = events[a][j]
  BY <1>1, <1>2 DEF n
<1>4. ASSUME NEW a \in Ids, NEW j \in DOMAIN events[a], events[a][j].request # None
      PROVE  /\ events[a][j].request \in RequestKeys \ {key}
             /\ idempotency[events[a][j].request] # None
  BY <1>2, <1>4 DEF OnceInv, Filed
<1>5. Filed'
  <2> SUFFICES ASSUME NEW a \in Ids, NEW j \in DOMAIN events'[a], events'[a][j].request # None
               PROVE  /\ events'[a][j].request \in RequestKeys
                      /\ idempotency'[events'[a][j].request] # None
    BY DEF Filed
  <2>1. CASE a = id /\ j = n
    BY <1>1, <1>2, <2>1
  <2>2. CASE j \in DOMAIN events[a] /\ events'[a][j] = events[a][j]
    BY <1>2, <1>4, <2>2
  <2>3. QED
    BY <1>3, <2>1, <2>2
<1>6. AtMostOnce'
  <2> SUFFICES ASSUME NEW a \in Ids, NEW b \in Ids, NEW j \in DOMAIN events'[a],
                      NEW k \in DOMAIN events'[b], events'[a][j].request # None,
                      events'[a][j].request = events'[b][k].request
               PROVE  a = b /\ j = k
    BY DEF AtMostOnce
  <2>1. CASE a = id /\ j = n /\ b = id /\ k = n
    BY <2>1
  <2>2. CASE /\ a = id /\ j = n
             /\ k \in DOMAIN events[b] /\ events'[b][k] = events[b][k]
    BY <1>1, <1>4, <2>2
  <2>3. CASE /\ b = id /\ k = n
             /\ j \in DOMAIN events[a] /\ events'[a][j] = events[a][j]
    BY <1>1, <1>4, <2>3
  <2>4. CASE /\ j \in DOMAIN events[a] /\ events'[a][j] = events[a][j]
             /\ k \in DOMAIN events[b] /\ events'[b][k] = events[b][k]
    BY <2>4 DEF OnceInv, AtMostOnce
  <2>5. QED
    BY <1>3, <2>1, <2>2, <2>3, <2>4
<1>7. QED
  BY <1>5, <1>6 DEF OnceInv

LEMMA StoredOnce ==
  ASSUME RowsOK, OnceInv, UNCHANGED idempotency, \A id \in Ids : Kept(id) \/ Stored(id)
  PROVE  OnceInv'
<1>1. ASSUME NEW id \in Ids, NEW k \in DOMAIN events'[id], events'[id][k].request # None
      PROVE  k \in DOMAIN events[id] /\ events'[id][k] = events[id][k]
  <2>1. CASE Kept(id)
    BY <1>1, <2>1 DEF Kept
  <2>2. CASE Stored(id)
    <3>1. PICK types \in Announcing \cup Unannounced : StoredEvents(id, types)
      BY <2>2, StoredRow
    <3> DEFINE n == Len(events[id])
               m == Len(types)
    <3>2. /\ n \in Nat /\ DOMAIN events[id] = 1 .. n
          /\ DOMAIN events'[id] = 1 .. n + m
          /\ \A j \in DOMAIN events[id] : events'[id][j] = events[id][j]
          /\ \A j \in 1 .. m : events'[id][n + j].request = None
      BY <3>1 DEF StoredEvents, Grew
    <3>3. m \in Nat
      BY ListShape
    <3> HIDE DEF n, m
    <3>4. CASE k > n
      <4>1. k - n \in 1 .. m /\ k = n + (k - n)
        BY <3>2, <3>3, <3>4
      <4>2. QED
        BY <1>1, <3>2, <4>1
    <3>5. CASE ~(k > n)
      BY <3>2, <3>3, <3>5
    <3>6. QED
      BY <3>4, <3>5
  <2>3. QED
    BY <2>1, <2>2
<1>2. Filed'
  BY <1>1 DEF OnceInv, Filed
<1>3. AtMostOnce'
  <2> SUFFICES ASSUME NEW a \in Ids, NEW b \in Ids, NEW j \in DOMAIN events'[a],
                      NEW k \in DOMAIN events'[b], events'[a][j].request # None,
                      events'[a][j].request = events'[b][k].request
               PROVE  a = b /\ j = k
    BY DEF AtMostOnce
  <2>1. /\ j \in DOMAIN events[a] /\ events'[a][j] = events[a][j]
        /\ k \in DOMAIN events[b] /\ events'[b][k] = events[b][k]
    BY <1>1
  <2>2. QED
    BY <2>1 DEF OnceInv, AtMostOnce
<1>4. QED
  BY <1>2, <1>3 DEF OnceInv

\* A key is used for one effect, however often its request is sent.
THEOREM RequestsAtMostOnce == Spec => []AtMostOnce
<1>1. Init => OnceInv
  BY DEF Init, OnceInv, Filed, AtMostOnce
<1>2. ASSUME TInv, OnceInv, [Next]_vars
      PROVE  OnceInv'
  <2>1. HistoryStep /\ RowsOK
    BY <1>2, StepHistory DEF TInv, IInv
  <2>2. QED
    BY <1>2, <2>1, RequestOnce, StoredOnce DEF HistoryStep
<1>3. OnceInv => AtMostOnce
  BY DEF OnceInv
<1>4. QED
  BY <1>1, <1>2, <1>3, TimesSound, PTL DEF Spec

-----------------------------------------------------------------------------
(* The audit trail tells the whole story. *)

\* AuditChain of one row.
Chained(trail, row) ==
  /\ row # None <=> trail # <<>>
  /\ trail # <<>> => /\ trail[1].prior_version = 0
                     /\ trail[Len(trail)].new_version = row.version
  /\ \A k \in DOMAIN trail :
       /\ trail[k].new_version = trail[k].prior_version + 1
       /\ k > 1 => trail[k].prior_version \in
                     {trail[k - 1].new_version, trail[k - 1].prior_version}

LEMMA ChainsOfRows ==
  AuditChain <=> \A id \in Ids : Chained(events[id], items[id])
BY DEF AuditChain, Chained, Live

\* A sequence is empty exactly when it has no first element.
LEMMA EmptyTrail ==
  ASSUME NEW trail \in Seq(EventRow)
  PROVE  trail = <<>> <=> Len(trail) = 0
OBVIOUS

LEMMA RequestChain ==
  ASSUME RowsOK, RowsOK', NEW id \in Ids, NEW call, NEW type, Request(id, call, type),
         Chained(events[id], items[id])
  PROVE  Chained(events'[id], items'[id])
<1> DEFINE trail == events[id]
           after == events'[id]
           n == Len(trail)
           v == VersionOf(items[id])
<1>1. /\ n \in Nat /\ DOMAIN trail = 1 .. n /\ DOMAIN after = 1 .. n + 1 /\ Len(after) = n + 1
      /\ \A k \in 1 .. n : after[k] = trail[k]
      /\ after[n + 1].prior_version = v /\ after[n + 1].new_version = items'[id].version
  <2>1. /\ n \in Nat /\ DOMAIN trail = 1 .. n /\ DOMAIN after = 1 .. n + 1 /\ Len(after) = n + 1
        /\ \A k \in 1 .. n : after[k] = trail[k]
        /\ after[n + 1] = Event(type, v, items'[id].version, RequestKey(call))
    BY RequestTrail
  <2> HIDE DEF n, v, after
  <2>2. QED
    BY <2>1 DEF Event
<1>2. items'[id].version = v + 1 /\ items'[id] # None
  BY NoneAssumption DEF Request
<1>3. trail \in Seq(EventRow) /\ after \in Seq(EventRow)
  BY DEF RowsOK
<1>4. trail = <<>> <=> n = 0
  BY <1>3, EmptyTrail
<1>5. after # <<>>
  BY <1>1, <1>3, EmptyTrail
<1>6. v = IF n = 0 THEN 0 ELSE trail[n].new_version
  BY <1>4 DEF Chained, VersionOf
<1>7. /\ n # 0 => trail[1].prior_version = 0
      /\ \A k \in 1 .. n :
           /\ trail[k].new_version = trail[k].prior_version + 1
           /\ k > 1 => trail[k].prior_version \in
                         {trail[k - 1].new_version, trail[k - 1].prior_version}
  BY <1>1, <1>4 DEF Chained
<1> HIDE DEF trail, after, n, v
<1>8. after[1].prior_version = 0
  BY <1>1, <1>6, <1>7
<1>9. ASSUME NEW k \in 1 .. n + 1
      PROVE  /\ after[k].new_version = after[k].prior_version + 1
             /\ k > 1 => after[k].prior_version \in
                           {after[k - 1].new_version, after[k - 1].prior_version}
  <2>1. CASE k = n + 1
    <3>1. k > 1 => n \in 1 .. n /\ n # 0 /\ k - 1 = n
      BY <1>1, <2>1
    <3>2. QED
      BY <1>1, <1>2, <1>6, <2>1, <3>1
  <2>2. CASE k # n + 1
    <3>1. k \in 1 .. n /\ (k > 1 => k - 1 \in 1 .. n)
      BY <1>1, <2>2
    <3>2. QED
      BY <1>1, <1>7, <3>1
  <2>3. QED
    BY <2>1, <2>2
<1>10. Chained(after, items'[id])
  BY <1>1, <1>2, <1>5, <1>8, <1>9 DEF Chained
<1>11. QED
  BY <1>10 DEF after

LEMMA StoredChain ==
  ASSUME RowsOK, RowsOK', NEW id \in Ids, Stored(id), Chained(events[id], items[id])
  PROVE  Chained(events'[id], items'[id])
<1> DEFINE trail == events[id]
           after == events'[id]
           n == Len(trail)
           v == items[id].version
<1>1. PICK types \in Announcing \cup Unannounced : StoredEvents(id, types)
  BY StoredRow
<1> DEFINE m == Len(types)
<1>2. /\ n \in Nat /\ DOMAIN trail = 1 .. n /\ DOMAIN after = 1 .. n + m /\ Len(after) = n + m
      /\ \A k \in 1 .. n : after[k] = trail[k]
      /\ \A k \in 1 .. m : /\ after[n + k].prior_version = v
                           /\ after[n + k].new_version = items'[id].version
  BY <1>1 DEF StoredEvents, Grew
<1>3. m \in {1, 2}
  BY ListShape
<1>4. items[id] # None /\ items'[id].version = v + 1 /\ items'[id] # None
  BY <1>1, NoneAssumption DEF StoredEvents, Live
<1>5. trail \in Seq(EventRow) /\ after \in Seq(EventRow)
  BY DEF RowsOK
<1>6. n > 0 /\ after # <<>>
  BY <1>2, <1>3, <1>4, <1>5, EmptyTrail DEF Chained
<1>7. /\ trail[1].prior_version = 0 /\ trail[n].new_version = v
      /\ \A k \in 1 .. n :
           /\ trail[k].new_version = trail[k].prior_version + 1
           /\ k > 1 => trail[k].prior_version \in
                         {trail[k - 1].new_version, trail[k - 1].prior_version}
  BY <1>2, <1>4 DEF Chained
<1> HIDE DEF trail, after, n, v, m
<1>8. after[1].prior_version = 0 /\ after[n + m].new_version = items'[id].version
  BY <1>2, <1>3, <1>6, <1>7
<1>9. ASSUME NEW k \in 1 .. n + m
      PROVE  /\ after[k].new_version = after[k].prior_version + 1
             /\ k > 1 => after[k].prior_version \in
                           {after[k - 1].new_version, after[k - 1].prior_version}
  <2>1. CASE k = n + 1
    <3>1. 1 \in 1 .. m /\ n \in 1 .. n /\ k - 1 = n
      BY <1>2, <1>3, <1>6, <2>1
    <3>2. after[k].prior_version = v /\ after[k].new_version = v + 1 /\ after[n].new_version = v
      BY <1>2, <1>4, <1>7, <2>1, <3>1
    <3>3. QED
      BY <3>1, <3>2
  <2>2. CASE k = n + 2
    <3>1. 1 \in 1 .. m /\ 2 \in 1 .. m /\ k - 1 = n + 1
      BY <1>2, <1>3, <2>2
    <3>2. /\ after[n + 2].prior_version = v /\ after[n + 2].new_version = v + 1
          /\ after[n + 1].prior_version = v
      BY <1>2, <1>4, <3>1
    <3>3. QED
      BY <2>2, <3>1, <3>2
  <2>3. CASE k # n + 1 /\ k # n + 2
    <3>1. k \in 1 .. n /\ (k > 1 => k - 1 \in 1 .. n)
      BY <1>2, <1>3, <2>3
    <3>2. QED
      BY <1>2, <1>7, <3>1
  <2>4. QED
    BY <2>1, <2>2, <2>3
<1>10. Chained(after, items'[id])
  BY <1>2, <1>4, <1>6, <1>8, <1>9 DEF Chained
<1>11. QED
  BY <1>10 DEF after

LEMMA HistoryChain ==
  ASSUME RowsOK, RowsOK', HistoryStep, AuditChain
  PROVE  AuditChain'
<1>1. \A id \in Ids : Chained(events[id], items[id])
  BY ChainsOfRows
<1>2. \A id \in Ids : Chained(events'[id], items'[id])
  <2>1. ASSUME NEW id \in Ids, NEW call, NEW type, Request(id, call, type), NEW other \in Ids
        PROVE  Chained(events'[other], items'[other])
    <3>1. CASE other = id
      BY <1>1, <2>1, <3>1, RequestChain
    <3>2. CASE other # id
      BY <1>1, <2>1, <3>2 DEF Request
    <3>3. QED
      BY <3>1, <3>2
  <2>2. ASSUME NEW id \in Ids, Kept(id) \/ Stored(id)
        PROVE  Chained(events'[id], items'[id])
    BY <1>1, <2>2, StoredChain DEF Kept
  <2>3. QED
    BY <2>1, <2>2 DEF HistoryStep
<1>3. QED
  BY <1>2 DEF AuditChain, Chained, Live

\* The trail of every row is unbroken from creation to its present version.
THEOREM AuditTrailUnbroken == Spec => []AuditChain
<1>1. Init => AuditChain
  BY DEF Init, AuditChain, Live
<1>2. ASSUME TInv, TInv', AuditChain, [Next]_vars
      PROVE  AuditChain'
  BY <1>2, StepHistory, HistoryChain DEF TInv, IInv
<1>3. QED
  BY <1>1, <1>2, TimesSound, PTL DEF Spec

-----------------------------------------------------------------------------
(* Readiness is announced once. *)

\* A row that waits again after it was announced has had a snooze, a disposition
\* or an edit since: the part of DueOncePerOccurrence that is inductive.
Rearmed(trail, row) ==
  row # None /\ row.state \in Armed =>
    \A j \in DOMAIN trail : trail[j].type = "became_due" =>
      \E m \in DOMAIN trail : m > j /\ trail[m].type \in Rearming

\* DueOncePerOccurrence of one row.
Separated(trail) ==
  \A j, k \in DOMAIN trail :
    (j < k /\ trail[j].type = "became_due" /\ trail[k].type = "became_due") =>
      \E m \in j .. k : trail[m].type \in Rearming

LEMMA SeparatedRows ==
  DueOncePerOccurrence <=> \A id \in Ids : Separated(events[id])
BY DEF DueOncePerOccurrence, Announced, Separated, Rearming

AnnouncedOnce ==
  \A id \in Ids : Rearmed(events[id], items[id]) /\ Separated(events[id])

\* What a request says of the announcements: it makes none, and leaves a row
\* that waits only with a rearming event or with no history.
LEMMA RequestRearms ==
  ASSUME NEW id, NEW call, NEW type, Request(id, call, type)
  PROVE  /\ type # "became_due"
         /\ \/ items'[id].state \notin Armed
            \/ type \in Rearming
            \/ items[id] = None
<1>1. Change(items[id], items'[id], type, call.args)
  BY DEF Request
<1>2. CASE type = "created" /\ items[id] = None
  BY <1>2
<1>3. CASE /\ type \in {"completed", "cancelled", "snoozed"}
           /\ items'[id].state = IF type = "snoozed" THEN "snoozed" ELSE type
  BY <1>3 DEF Armed, Rearming
<1>4. CASE Edit(items[id], items'[id], type, call.args)
  BY <1>4 DEF Edit, Rearming
<1>5. QED
  BY <1>1, <1>2, <1>3, <1>4 DEF Change

LEMMA RequestSeparates ==
  ASSUME RowsOK, RowsOK', NEW id \in Ids, NEW call, NEW type, Request(id, call, type),
         Chained(events[id], items[id]), Rearmed(events[id], items[id]), Separated(events[id])
  PROVE  Rearmed(events'[id], items'[id]) /\ Separated(events'[id])
<1> DEFINE trail == events[id]
           after == events'[id]
           n == Len(trail)
<1>1. /\ n \in Nat /\ DOMAIN trail = 1 .. n /\ DOMAIN after = 1 .. n + 1
      /\ \A k \in 1 .. n : after[k] = trail[k]
      /\ after[n + 1].type = type
  <2>1. /\ n \in Nat /\ DOMAIN trail = 1 .. n /\ DOMAIN after = 1 .. n + 1
        /\ \A k \in 1 .. n : after[k] = trail[k]
        /\ after[n + 1] = Event(type, VersionOf(items[id]), items'[id].version, RequestKey(call))
    BY RequestTrail
  <2> HIDE DEF n, after
  <2>2. QED
    BY <2>1 DEF Event
<1>2. /\ type # "became_due"
      /\ items'[id].state \notin Armed \/ type \in Rearming \/ items[id] = None
  BY RequestRearms
<1>3. items[id] = None => n = 0
  BY DEF Chained
<1>4. Separated(trail)
  OBVIOUS
<1> HIDE DEF trail, after, n
<1>5. ASSUME NEW j \in DOMAIN after, after[j].type = "became_due"
      PROVE  j \in 1 .. n /\ trail[j].type = "became_due"
  BY <1>1, <1>2, <1>5
<1>6. Rearmed(after, items'[id])
  <2> SUFFICES ASSUME items'[id] # None, items'[id].state \in Armed, NEW j \in DOMAIN after,
                      after[j].type = "became_due"
               PROVE  \E m \in DOMAIN after : m > j /\ after[m].type \in Rearming
    BY DEF Rearmed
  <2>1. j \in 1 .. n
    BY <1>5
  <2>2. type \in Rearming
    BY <1>1, <1>2, <1>3, <2>1
  <2>3. n + 1 \in DOMAIN after /\ n + 1 > j
    BY <1>1, <2>1
  <2>4. QED
    BY <1>1, <2>2, <2>3
<1>7. Separated(after)
  <2> SUFFICES ASSUME NEW j \in DOMAIN after, NEW k \in DOMAIN after, j < k,
                      after[j].type = "became_due", after[k].type = "became_due"
               PROVE  \E m \in j .. k : after[m].type \in Rearming
    BY DEF Separated
  <2>1. /\ j \in 1 .. n /\ trail[j].type = "became_due"
        /\ k \in 1 .. n /\ trail[k].type = "became_due"
    BY <1>5
  <2>2. PICK m \in j .. k : trail[m].type \in Rearming
    BY <1>1, <1>4, <2>1 DEF Separated
  <2>3. m \in 1 .. n
    BY <1>1, <2>1, <2>2
  <2>4. QED
    BY <1>1, <2>2, <2>3
<1>8. QED
  BY <1>6, <1>7 DEF after

LEMMA StoredSeparates ==
  ASSUME RowsOK, NEW id \in Ids, Stored(id),
         Rearmed(events[id], items[id]), Separated(events[id])
  PROVE  Rearmed(events'[id], items'[id]) /\ Separated(events'[id])
<1> DEFINE trail == events[id]
           after == events'[id]
           n == Len(trail)
<1>1. PICK types \in Announcing \cup Unannounced : StoredEvents(id, types)
  BY StoredRow
<1> DEFINE m == Len(types)
<1>2. /\ n \in Nat /\ DOMAIN trail = 1 .. n /\ DOMAIN after = 1 .. n + m
      /\ \A k \in 1 .. n : after[k] = trail[k]
      /\ \A k \in 1 .. m : after[n + k].type = types[k]
  BY <1>1 DEF StoredEvents, Grew
<1>3. /\ m \in {1, 2}
      /\ \A k \in 1 .. m : types[k] = "became_due" => types \in Announcing /\ k = m
  BY ListShape
<1>4. /\ items[id] # None
      /\ types \in Announcing => items[id].state \in Armed /\ items'[id].state = "due"
      /\ items'[id].state \in Armed => items[id].state \in Armed
  BY <1>1 DEF StoredEvents, Announces, Live
<1>5. Separated(trail) /\ Rearmed(trail, items[id])
  OBVIOUS
<1> HIDE DEF trail, after, n, m
<1>6. ASSUME NEW j \in DOMAIN after, after[j].type = "became_due"
      PROVE  \/ j \in 1 .. n /\ trail[j].type = "became_due"
             \/ j = n + m /\ types \in Announcing
  <2>1. CASE j \in 1 .. n
    BY <1>2, <1>6, <2>1
  <2>2. CASE j \notin 1 .. n
    <3>1. PICK k \in 1 .. m : j = n + k
      <4>1. j - n \in 1 .. m /\ j = n + (j - n)
        BY <1>2, <1>3, <2>2
      <4>2. QED
        BY <4>1
    <3>2. types[k] = "became_due"
      BY <1>2, <1>6, <3>1
    <3>3. QED
      BY <1>3, <3>1, <3>2
  <2>3. QED
    BY <2>1, <2>2
<1>7. Rearmed(after, items'[id])
  <2> SUFFICES ASSUME items'[id] # None, items'[id].state \in Armed, NEW j \in DOMAIN after,
                      after[j].type = "became_due"
               PROVE  \E k \in DOMAIN after : k > j /\ after[k].type \in Rearming
    BY DEF Rearmed
  <2>1. types \notin Announcing
    BY <1>4 DEF Armed
  <2>2. j \in 1 .. n /\ trail[j].type = "became_due"
    BY <1>6, <2>1
  <2>3. PICK k \in DOMAIN trail : k > j /\ trail[k].type \in Rearming
    BY <1>2, <1>4, <1>5, <2>2 DEF Rearmed
  <2>4. k \in DOMAIN after /\ after[k] = trail[k]
    BY <1>2, <1>3, <2>3
  <2>5. QED
    BY <2>3, <2>4
<1>8. Separated(after)
  <2> SUFFICES ASSUME NEW j \in DOMAIN after, NEW k \in DOMAIN after, j < k,
                      after[j].type = "became_due", after[k].type = "became_due"
               PROVE  \E l \in j .. k : after[l].type \in Rearming
    BY DEF Separated
  <2>1. j \in 1 .. n /\ trail[j].type = "became_due"
    BY <1>2, <1>3, <1>6
  <2>2. CASE k \in 1 .. n /\ trail[k].type = "became_due"
    <3>1. PICK l \in j .. k : trail[l].type \in Rearming
      BY <1>2, <1>5, <2>1, <2>2 DEF Separated
    <3>2. l \in 1 .. n
      BY <1>2, <2>1, <2>2, <3>1
    <3>3. QED
      BY <1>2, <3>1, <3>2
  <2>3. CASE k = n + m /\ types \in Announcing
    <3>1. PICK l \in DOMAIN trail : l > j /\ trail[l].type \in Rearming
      BY <1>2, <1>4, <1>5, <2>1, <2>3 DEF Rearmed
    <3>2. l \in j .. k /\ after[l] = trail[l]
      BY <1>2, <1>3, <2>1, <2>3, <3>1
    <3>3. QED
      BY <3>1, <3>2
  <2>4. QED
    BY <1>6, <2>2, <2>3
<1>9. QED
  BY <1>7, <1>8 DEF after

LEMMA HistorySeparates ==
  ASSUME RowsOK, RowsOK', HistoryStep, AuditChain, AnnouncedOnce
  PROVE  AnnouncedOnce'
<1>1. \A id \in Ids : Chained(events[id], items[id])
  BY ChainsOfRows
<1>2. \A id \in Ids : Rearmed(events[id], items[id]) /\ Separated(events[id])
  BY DEF AnnouncedOnce
<1>3. \A id \in Ids : Rearmed(events'[id], items'[id]) /\ Separated(events'[id])
  <2>1. ASSUME NEW id \in Ids, NEW call, NEW type, Request(id, call, type), NEW other \in Ids
        PROVE  Rearmed(events'[other], items'[other]) /\ Separated(events'[other])
    <3>1. CASE other = id
      BY <1>1, <1>2, <2>1, <3>1, RequestSeparates
    <3>2. CASE other # id
      BY <1>2, <2>1, <3>2 DEF Request
    <3>3. QED
      BY <3>1, <3>2
  <2>2. ASSUME NEW id \in Ids, Kept(id) \/ Stored(id)
        PROVE  Rearmed(events'[id], items'[id]) /\ Separated(events'[id])
    BY <1>2, <2>2, StoredSeparates DEF Kept
  <2>3. QED
    BY <2>1, <2>2 DEF HistoryStep
<1>4. QED
  BY <1>3 DEF AnnouncedOnce, Rearmed, Separated

\* Between two announcements of an item there is a snooze, a disposition or an
\* edit.
THEOREM ReadinessAnnouncedOnce == Spec => []DueOncePerOccurrence
<1>1. Init => AnnouncedOnce
  BY DEF Init, AnnouncedOnce, Rearmed, Separated
<1>2. ASSUME TInv, TInv', AuditChain, AnnouncedOnce, [Next]_vars
      PROVE  AnnouncedOnce'
  BY <1>2, StepHistory, HistorySeparates DEF TInv, IInv
<1>3. AnnouncedOnce => DueOncePerOccurrence
  BY SeparatedRows DEF AnnouncedOnce
<1>4. QED
  BY <1>1, <1>2, <1>3, TimesSound, AuditTrailUnbroken, PTL DEF Spec

-----------------------------------------------------------------------------
(* Updates and the schedule. *)

\* Rounding up: the next multiple lies past the value.
LEMMA NextMultiple ==
  ASSUME NEW a \in Nat, NEW e \in Nat \ {0}
  PROVE  a \div e \in Nat /\ (a \div e + 1) * e > a
OBVIOUS

\* Under coalesce and skip the next anchor lies past the time of disposition.
LEMMA AnchorPassesNow ==
  ASSUME NEW recurrence \in Recurrence, NEW anchor \in Time, NEW now \in Time,
         recurrence.missed_policy # "catch_up"
  PROVE  NextAnchor(recurrence, anchor, now) > now
<1> DEFINE e == recurrence.every_seconds
           steps == StepsToAdvance(recurrence, anchor, now)
<1>1. e \in Nat \ {0} /\ anchor \in Nat /\ now \in Nat
  BY DEF Recurrence, Time
<1>2. NextAnchor(recurrence, anchor, now) = anchor + steps * e
  BY DEF NextAnchor
<1>3. CASE anchor + e > now
  <2>1. steps = 1
    BY <1>3 DEF StepsToAdvance
  <2> HIDE DEF steps, e
  <2>2. QED
    BY <1>1, <1>2, <1>3, <2>1
<1>4. CASE ~(anchor + e > now)
  <2>1. steps = (now - anchor) \div e + 1
    BY <1>4 DEF StepsToAdvance
  <2>2. now - anchor \in Nat
    BY <1>1, <1>4
  <2> HIDE DEF steps, e
  <2>3. steps * e > now - anchor
    BY <1>1, <2>1, <2>2, NextMultiple
  <2>4. steps * e \in Nat
    <3>1. steps \in Nat
      BY <1>1, <2>1, <2>2, NextMultiple
    <3>2. QED
      BY <1>1, <3>1, ProductType
  <2> DEFINE far == steps * e
  <2> HIDE DEF far
  <2>5. anchor + far > now
    BY <1>1, <2>3, <2>4 DEF far
  <2>6. QED
    BY <1>2, <2>5 DEF far
<1>5. QED
  BY <1>3, <1>4

\* The schedule an update leaves.
LEMMA UpdatedSchedule ==
  ASSUME NEW i \in Item, ItemOK(i), NEW args \in UpdateRequest, NEW now \in Time,
         CanUpdate(i, args, now)
  PROVE  LET u == Updated(i, args, now)
             e == Edited(i, args, now)
         IN  /\ u.state \in {i.state, "scheduled"}
             /\ args.trigger = None => e.next_fire_at = i.next_fire_at
             /\ ~args.occurrence_disposition =>
                  u.occurrence_no = i.occurrence_no /\ u.next_fire_at = e.next_fire_at
             /\ args.occurrence_disposition =>
                  /\ i.state \in Ready
                  /\ u.state = "scheduled"
                  /\ e.recurrence \in Recurrence
                  /\ e.next_fire_at \in Time
                  /\ u.recurrence = e.recurrence
                  /\ u.next_fire_at = NextAnchor(e.recurrence, e.next_fire_at, now)
                  /\ u.occurrence_no =
                       i.occurrence_no + StepsToAdvance(e.recurrence, e.next_fire_at, now)
<1> DEFINE u == Updated(i, args, now)
           e == Edited(i, args, now)
           a == Advance(e, now)
<1>1. i.state \in Active /\ (args.occurrence_disposition => i.state \in Ready)
  BY DEF CanUpdate
<1>2. /\ e \in Item /\ OccurrenceFields(e) /\ Findable(e)
      /\ e.occurrence_no = i.occurrence_no
      /\ e.state = i.state \/ (i.state = "snoozed" /\ e.state = "scheduled")
  BY <1>1, EditedItem
<1>3. args.trigger = None => e.next_fire_at = i.next_fire_at
  BY DEF Edited, Item
<1>4. /\ RecurrenceFits(e.recurrence, e.trigger)
      /\ args.occurrence_disposition => CanAdvance(e, now)
  BY DEF CanUpdate
<1>5. u = IF args.occurrence_disposition THEN Bump(a) ELSE Bump(e)
  BY DEF Updated
<1> HIDE DEF e, u
<1>6. CASE args.occurrence_disposition
  <2>1. /\ e.recurrence \in Recurrence /\ e.next_fire_at \in Time
    BY <1>2, <1>4, <1>6 DEF CanAdvance, Item, Opt, OptTime
  <2>2. a \in Item /\ a.state = "scheduled"
    BY <1>2, <1>4, <1>6, AdvanceItem
  <2>3. /\ a.recurrence = e.recurrence
        /\ a.next_fire_at = NextAnchor(e.recurrence, e.next_fire_at, now)
        /\ a.occurrence_no =
             i.occurrence_no + StepsToAdvance(e.recurrence, e.next_fire_at, now)
    BY <1>2 DEF Advance, Item
  <2> HIDE DEF a
  <2>4. /\ u.state = a.state /\ u.recurrence = a.recurrence
        /\ u.next_fire_at = a.next_fire_at /\ u.occurrence_no = a.occurrence_no
    BY <1>5, <1>6, <2>2, BumpItem DEF SameSchedule
  <2>5. QED
    BY <1>1, <1>3, <1>6, <2>1, <2>2, <2>3, <2>4 DEF u, e
<1>7. CASE ~args.occurrence_disposition
  <2>1. /\ u.state = e.state /\ u.next_fire_at = e.next_fire_at
        /\ u.occurrence_no = e.occurrence_no
    BY <1>2, <1>5, <1>7, BumpItem DEF SameSchedule
  <2>2. u.state \in {i.state, "scheduled"}
    BY <1>2, <2>1
  <2>3. QED
    BY <1>2, <1>3, <1>7, <2>1, <2>2 DEF u, e
<1>8. QED
  BY <1>6, <1>7

\* What a step did to a row that was there before it.
LEMMA RowHistory ==
  ASSUME TInv, [Next]_vars, NEW id \in Ids, Live(id)
  PROVE  \/ Kept(id)
         \/ Stored(id)
         \/ \E call, type : Request(id, call, type) /\ type # "created"
<1>1. HistoryStep
  BY StepHistory DEF TInv
<1>2. ASSUME NEW other \in Ids, NEW call, NEW type, Request(other, call, type), other # id
      PROVE  Kept(id)
  BY <1>2 DEF Request, Kept
<1>3. ASSUME NEW call, NEW type, Request(id, call, type)
      PROVE  type # "created"
  BY <1>3 DEF Request, Change, Edit, Live
<1>4. QED
  BY <1>1, <1>2, <1>3 DEF HistoryStep

\* A request that names the row moves its schedule only as an edit.
LEMMA RequestSchedule ==
  ASSUME NEW id, Live(id), NEW call, NEW type, Request(id, call, type)
  PROVE  \/ /\ SameSchedule(items[id], items'[id])
            /\ items'[id].state \notin Ready
         \/ /\ call.args \in UpdateRequest
            /\ Edit(items[id], items'[id], type, call.args)
BY DEF Request, Change, Live, Ready

\* An announcement is never early, whatever the evaluation had read.
THEOREM NeverAnnouncedEarly == Spec => NeverEarly
<1>1. ASSUME TInv, [Next]_vars, NEW id \in Ids, Live(id), items[id].state \notin Ready,
             items'[id].state \in Ready
      PROVE  Reached(items[id], clock)
  <2>1. /\ items[id] \in Item /\ ItemOK(items[id]) /\ clock \in Nat
    BY <1>1, LiveRow DEF TInv, IInv, RowsOK, Time
  <2>2. CASE Kept(id)
    BY <1>1, <2>2 DEF Kept
  <2>3. CASE Stored(id)
    <3>1. PICK at \in Time : at <= clock /\ Reached(items[id], at)
      BY <1>1, <2>3 DEF Stored, Announces
    <3>2. CASE items[id].state = "snoozed"
      <4>1. items[id].snooze_until \in Nat
        BY <2>1, <3>2 DEF ItemOK, OccurrenceFields, Item, OptTime, Time
      <4>2. QED
        BY <2>1, <3>1, <3>2, <4>1 DEF Reached, Time
    <3>3. CASE items[id].state # "snoozed"
      <4>1. items[id].trigger.kind \in TimeKinds => items[id].next_fire_at \in Nat
        BY <2>1 DEF ItemOK, Findable, Item, OptTime, Time
      <4>2. QED
        BY <2>1, <3>1, <3>3, <4>1 DEF Reached, Time
    <3>4. QED
      BY <3>2, <3>3
  <2>4. ASSUME NEW call, NEW type, Request(id, call, type)
        PROVE  FALSE
    <3>1. PICK now \in Readings : /\ call.args \in UpdateRequest
                                  /\ CanUpdate(items[id], call.args, now)
                                  /\ items'[id] = Updated(items[id], call.args, now)
      BY <1>1, <2>4, RequestSchedule DEF Edit
    <3>2. now \in Time
      BY <2>1 DEF Readings, Time
    <3>3. items'[id].state \in {items[id].state, "scheduled"}
      BY <2>1, <3>1, <3>2, UpdatedSchedule
    <3>4. QED
      BY <1>1, <3>3 DEF Ready
  <2>5. QED
    BY <1>1, <2>2, <2>3, <2>4, RowHistory
<1>2. TInv /\ [Next]_vars =>
        [\A id \in Ids :
           Live(id) /\ items[id].state \notin Ready /\ items'[id].state \in Ready =>
             IF items[id].state = "snoozed" THEN items[id].snooze_until <= clock
             ELSE items[id].trigger.kind \in TimeKinds => items[id].next_fire_at <= clock]_vars
  BY <1>1 DEF Reached
<1>3. QED
  BY <1>2, TimesSound, PTL DEF Spec, NeverEarly

\* A schedule that moved was moved by an edit that the trail's last event names.
LEMMA ScheduleMoved ==
  ASSUME TInv, [Next]_vars, NEW id \in Ids, Live(id), ~SameSchedule(items[id], items'[id])
  PROVE  \E call, type : \E now \in Readings :
           /\ Request(id, call, type)
           /\ call.args \in UpdateRequest
           /\ CanUpdate(items[id], call.args, now)
           /\ items'[id] = Updated(items[id], call.args, now)
           /\ type = IF call.args.occurrence_disposition THEN "occurrence_advanced" ELSE "updated"
<1>1. ~Kept(id)
  BY DEF Kept, SameSchedule
<1>2. ~Stored(id)
  BY DEF Stored, Announces
<1>3. PICK call, type : Request(id, call, type)
  BY <1>1, <1>2, RowHistory
<1>4. call.args \in UpdateRequest /\ Edit(items[id], items'[id], type, call.args)
  BY <1>3, RequestSchedule
<1>5. QED
  BY <1>3, <1>4 DEF Edit

\* Only an audited update moves an anchor, and a disposition moves it by whole
\* intervals, one per occurrence.
THEOREM AnchorsDisciplined == Spec => AnchorDiscipline
<1>1. ASSUME TInv, TInv', [Next]_vars, NEW id \in Ids, Live(id),
             items'[id].next_fire_at # items[id].next_fire_at
      PROVE  LET last == events'[id][Len(events'[id])]
                 args == idempotency'[last.request].call.args
             IN  /\ Len(events'[id]) > Len(events[id])
                 /\ last.type \in {"updated", "occurrence_advanced"}
                 /\ args.trigger = None =>
                      /\ last.type = "occurrence_advanced"
                      /\ items[id].state \in Ready
                      /\ items'[id].state = "scheduled"
                      /\ items'[id].next_fire_at - items[id].next_fire_at
                           = (items'[id].occurrence_no - items[id].occurrence_no)
                               * items'[id].recurrence.every_seconds
  <2> DEFINE i == items[id]
             j == items'[id]
             last == events'[id][Len(events'[id])]
  <2>1. /\ i \in Item /\ ItemOK(i) /\ clock \in Nat /\ RowsOK
    BY <1>1, LiveRow DEF TInv, IInv, RowsOK, Time
  <2>2. ~SameSchedule(i, j)
    BY <1>1 DEF SameSchedule
  <2>3. PICK call, type :
           \E now \in Readings :
             /\ Request(id, call, type)
             /\ call.args \in UpdateRequest
             /\ CanUpdate(i, call.args, now)
             /\ j = Updated(i, call.args, now)
             /\ type = IF call.args.occurrence_disposition THEN "occurrence_advanced" ELSE "updated"
    BY <1>1, <2>2, ScheduleMoved
  <2>4. PICK now \in Readings :
             /\ Request(id, call, type)
             /\ call.args \in UpdateRequest
             /\ CanUpdate(i, call.args, now)
             /\ j = Updated(i, call.args, now)
             /\ type = IF call.args.occurrence_disposition THEN "occurrence_advanced" ELSE "updated"
    BY <2>3
  <2>5. /\ Len(events'[id]) > Len(events[id])
        /\ last.type = type /\ last.request = RequestKey(call)
    <3>1. /\ Len(events[id]) \in Nat /\ Len(events'[id]) = Len(events[id]) + 1
          /\ last = Event(type, VersionOf(items[id]), items'[id].version, RequestKey(call))
      BY <2>1, <2>4, RequestTrail
    <3> HIDE DEF last
    <3>2. last.type = type /\ last.request = RequestKey(call)
      BY <3>1 DEF Event
    <3>3. QED
      BY <3>1, <3>2
  <2>6. idempotency'[last.request].call.args = call.args
    BY <2>4, <2>5 DEF Request
  <2> DEFINE e == Edited(i, call.args, now)
  <2>7. now \in Time
    BY <2>1 DEF Readings, Time
  <2>8. /\ call.args.trigger = None => e.next_fire_at = i.next_fire_at
        /\ ~call.args.occurrence_disposition => j.next_fire_at = e.next_fire_at
        /\ call.args.occurrence_disposition =>
             /\ i.state \in Ready /\ j.state = "scheduled"
             /\ e.recurrence \in Recurrence /\ e.next_fire_at \in Time
             /\ j.recurrence = e.recurrence
             /\ j.next_fire_at = NextAnchor(e.recurrence, e.next_fire_at, now)
             /\ j.occurrence_no =
                  i.occurrence_no + StepsToAdvance(e.recurrence, e.next_fire_at, now)
    BY <2>1, <2>4, <2>7, UpdatedSchedule
  <2>9. i.occurrence_no \in Nat /\ i.next_fire_at # j.next_fire_at
    BY <1>1, <2>1 DEF Item
  <2> HIDE DEF i, j, last, e
  <2>10. ASSUME call.args.trigger = None
         PROVE  /\ type = "occurrence_advanced" /\ i.state \in Ready /\ j.state = "scheduled"
                /\ j.next_fire_at - i.next_fire_at
                     = (j.occurrence_no - i.occurrence_no) * j.recurrence.every_seconds
    <3> DEFINE steps == StepsToAdvance(e.recurrence, e.next_fire_at, now)
               every == e.recurrence.every_seconds
               far == steps * every
    <3>1. call.args.occurrence_disposition
      BY <2>8, <2>9, <2>10
    <3>2. /\ steps \in Nat /\ every \in Nat
      BY <2>7, <2>8, <3>1, StepsType DEF Recurrence
    <3>3. /\ j.next_fire_at = i.next_fire_at + far /\ i.next_fire_at \in Nat
          /\ j.occurrence_no = i.occurrence_no + steps /\ j.recurrence.every_seconds = every
      BY <2>8, <2>10, <3>1 DEF NextAnchor, Time
    <3> HIDE DEF steps, every
    <3>4. far \in Nat
      BY <3>2, ProductType
    <3>5. j.occurrence_no - i.occurrence_no = steps
      BY <2>9, <3>2, <3>3
    <3> HIDE DEF far
    <3>6. j.next_fire_at - i.next_fire_at = far
      BY <3>3, <3>4
    <3>7. QED
      BY <2>4, <2>8, <3>1, <3>3, <3>5, <3>6 DEF far
  <2>11. QED
    BY <2>4, <2>5, <2>6, <2>10 DEF i, j, last
<1>2. TInv /\ TInv' /\ [Next]_vars =>
        [\A id \in Ids :
           Live(id) /\ items'[id].next_fire_at # items[id].next_fire_at =>
             LET last == events'[id][Len(events'[id])]
                 args == idempotency'[last.request].call.args
             IN  /\ Len(events'[id]) > Len(events[id])
                 /\ last.type \in {"updated", "occurrence_advanced"}
                 /\ args.trigger = None =>
                      /\ last.type = "occurrence_advanced"
                      /\ items[id].state \in Ready
                      /\ items'[id].state = "scheduled"
                      /\ items'[id].next_fire_at - items[id].next_fire_at
                           = (items'[id].occurrence_no - items[id].occurrence_no)
                               * items'[id].recurrence.every_seconds]_vars
  BY <1>1
<1>3. QED
  BY <1>2, TimesSound, PTL DEF Spec, AnchorDiscipline

\* Under coalesce and skip no past occurrence is left to fire at once.
THEOREM MissedAlwaysPassed == Spec => MissedOccurrencesPassed
<1>1. ASSUME TInv, [Next]_vars, NEW id \in Ids, Live(id),
             items'[id].occurrence_no > items[id].occurrence_no,
             items'[id].recurrence.missed_policy # "catch_up"
      PROVE  items'[id].next_fire_at + MaxLag > clock
  <2> DEFINE i == items[id]
             j == items'[id]
  <2>1. /\ i \in Item /\ ItemOK(i) /\ clock \in Nat /\ i.occurrence_no \in Nat
    BY <1>1, LiveRow DEF TInv, IInv, RowsOK, Time, Item
  <2>2. ~SameSchedule(i, j)
    BY <1>1, <2>1 DEF SameSchedule
  <2>3. PICK args \in UpdateRequest, now \in Readings : CanUpdate(i, args, now) /\ j = Updated(i, args, now)
    BY <1>1, <2>2, ScheduleMoved
  <2> DEFINE e == Edited(i, args, now)
  <2>4. now \in Time /\ now \in Nat /\ now + MaxLag >= clock
    BY <2>1 DEF Readings, Time
  <2>5. /\ ~args.occurrence_disposition => j.occurrence_no = i.occurrence_no
        /\ args.occurrence_disposition =>
             /\ e.recurrence \in Recurrence /\ e.next_fire_at \in Time
             /\ j.recurrence = e.recurrence
             /\ j.next_fire_at = NextAnchor(e.recurrence, e.next_fire_at, now)
    BY <2>1, <2>3, <2>4, UpdatedSchedule
  <2>6. args.occurrence_disposition
    BY <1>1, <2>1, <2>5
  <2> DEFINE anchor == NextAnchor(e.recurrence, e.next_fire_at, now)
  <2>7. j.next_fire_at = anchor /\ anchor > now /\ anchor \in Nat
    BY <1>1, <2>4, <2>5, <2>6, AnchorPassesNow, NextAnchorType DEF Time
  <2>8. MaxLag \in Nat
    BY BoundAssumption
  <2> HIDE DEF anchor, j
  <2>9. j.next_fire_at + MaxLag > clock
    BY <2>1, <2>4, <2>7, <2>8
  <2>10. QED
    BY <2>9 DEF j
<1>2. TInv /\ [Next]_vars =>
        [\A id \in Ids :
           /\ Live(id)
           /\ items'[id].occurrence_no > items[id].occurrence_no
           /\ items'[id].recurrence.missed_policy # "catch_up"
           => items'[id].next_fire_at + MaxLag > clock]_vars
  BY <1>1
<1>3. QED
  BY <1>2, TimesSound, PTL DEF Spec, MissedOccurrencesPassed
=============================================================================
