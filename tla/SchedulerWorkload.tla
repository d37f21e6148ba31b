-------------------------- MODULE SchedulerWorkload --------------------------
(***************************************************************************)
(* The scheduler task of each process and the lease row it runs under:     *)
(* scheduler/lease.rs, and run_acquired, start and stop of                 *)
(* scheduler/runner.rs.  What a poll does to the items is RemindiService's *)
(* subject; here a poll is the stages it passes through.                   *)
(*                                                                         *)
(* A process is one life of the program: it draws a fresh holder id when   *)
(* it starts and never returns after a crash.                              *)
(***************************************************************************)
EXTENDS Integers

CONSTANTS
  Processes,       \* holder ids
  None,            \* an absent row, guard or task
  LeaseDuration,   \* scheduler.lease_seconds
  PollInterval,    \* scheduler.poll_interval_seconds
  MaxApply,        \* bound: ticks from the second renewal to the last applied result
  MaxTime          \* bound on the clock

Row == [holder : Processes, version : Nat \ {0}, expires_at : Nat]
Guard == [version : Nat \ {0}, expires_at : Nat]

ASSUME ProcessAssumption == Processes # {}

\* "task" is the handle of a process's only task, seen from its controller.
ASSUME NoneAssumption ==
  None \notin Row /\ None \notin Guard /\ None \notin {"starting", "stopping", "ok", "task"}

ASSUME LeaseAssumption ==
  /\ PollInterval \in Nat \ {0}
  /\ LeaseDuration \in Nat
  /\ LeaseDuration > 2 * PollInterval
  /\ MaxTime \in Nat

\* The program sets no bound on its apply loop; a poll longer than its lease
\* is outside the claim of OneApplying.
ASSUME ApplyAssumption == MaxApply \in Nat /\ MaxApply < LeaseDuration

VARIABLES
  clock,
  lease,      \* the row of scheduler_leases
  desired,    \* service_runtime.desired_state of the scheduler
  stage,      \* where the process and its task are
  guard,      \* the LeaseGuard of the task
  reading,    \* the clock reading the current stage holds
  cancelled,  \* the task's cancellation token
  failed,     \* the finished task holds an error
  call        \* the start or stop in progress, or the answer of the last one

vars == <<clock, lease, desired, stage, guard, reading, cancelled, failed, call>>

Loop == {"deciding", "polling", "evaluating", "renewing", "applying", "waiting", "releasing"}
Task == Loop \cup {"returning", "finished"}
Stages == Task \cup {"absent", "idle", "acquiring", "dead"}
Up(p) == stage[p] \notin {"absent", "dead"}

\* The running flag: set when the task is spawned, cleared when its loop returns.
IsRunning(p) == stage[p] \in Loop

Free(p) == Up(p) /\ call[p] \notin {"starting", "stopping"}

-----------------------------------------------------------------------------
(* The lease operations. *)

\* Mutant: compares the version only.
OwnsByVersion(p) ==
  /\ lease # None
  /\ guard[p] # None
  /\ lease.version = guard[p].version

Owns(p) ==
  /\ lease # None
  /\ guard[p] # None
  /\ lease.holder = p
  /\ lease.version = guard[p].version

\* Mutant: takes over in the second half of the lease.
CanAcquireEarly(p) == lease # None => lease.expires_at - LeaseDuration \div 2 <= reading[p]

CanAcquire(p) == lease # None => lease.expires_at <= reading[p]
\* Mutant: versions counted from zero.
NextVersionFromZero == IF lease = None THEN 0 ELSE lease.version + 1

NextVersion == IF lease = None THEN 1 ELSE lease.version + 1
RenewalDue(p) == reading[p] + LeaseDuration \div 2 >= guard[p].expires_at
CanRenew(p) == Owns(p) /\ guard[p].expires_at > reading[p] /\ lease.expires_at > reading[p]

\* Row and guard after p wrote the lease with this version.
Write(p, version) ==
  LET expires_at == reading[p] + LeaseDuration
  IN  /\ lease' = [holder |-> p, version |-> version, expires_at |-> expires_at]
      /\ guard' = [guard EXCEPT ![p] = [version |-> version, expires_at |-> expires_at]]

Become(p, s) == stage' = [stage EXCEPT ![p] = s]
Read(p) == reading' = [reading EXCEPT ![p] = clock]
Reply(p, r)  == call' = [call EXCEPT ![p] = r]

-----------------------------------------------------------------------------
(* SchedulerWorkload::start and stop.  Only the workload controller calls    *)
(* them, and one at a time.                                                  *)

\* The task has not finished, so start answers Ok: also when its loop has
\* already decided to end.
StartAlready(p) ==
  /\ Free(p)
  /\ stage[p] \in Task \ {"finished"}
  /\ Reply(p, "ok")
  /\ UNCHANGED <<clock, lease, desired, stage, guard, reading, cancelled, failed>>

\* The previous task ended with an error: start reports that error, and no more.
StartReportsOldFailure(p) ==
  /\ Free(p)
  /\ stage[p] = "finished"
  /\ failed[p]
  /\ Become(p, "idle")
  /\ Reply(p, "error")
  /\ failed' = [failed EXCEPT ![p] = FALSE]
  /\ UNCHANGED <<clock, lease, desired, guard, reading, cancelled>>

Restartable(p) ==
  /\ Free(p)
  /\ stage[p] = "idle" \/ (stage[p] = "finished" /\ ~failed[p])

\* Desired stopped, or unreadable.
StartRefused(p) ==
  /\ Restartable(p)
  /\ Become(p, "idle")
  /\ Reply(p, "error")
  /\ UNCHANGED <<clock, lease, desired, guard, reading, cancelled, failed>>

StartAcquire(p) ==
  /\ Restartable(p)
  /\ desired = "running"
  /\ Become(p, "acquiring")
  /\ Read(p)
  /\ Reply(p, "starting")
  /\ UNCHANGED <<clock, lease, desired, guard, cancelled, failed>>

Acquired(p) ==
  /\ stage[p] = "acquiring"
  /\ CanAcquire(p)
  /\ Write(p, NextVersion)
  /\ Become(p, "deciding")
  /\ Reply(p, "ok")
  /\ UNCHANGED <<clock, desired, reading, cancelled, failed>>

\* AlreadyHeld, or a database error.
NotAcquired(p) ==
  /\ stage[p] = "acquiring"
  /\ Become(p, "idle")
  /\ Reply(p, "error")
  /\ UNCHANGED <<clock, lease, desired, guard, reading, cancelled, failed>>

StopNothing(p) ==
  /\ Free(p)
  /\ stage[p] = "idle"
  /\ Reply(p, "ok")
  /\ UNCHANGED <<clock, lease, desired, stage, guard, reading, cancelled, failed>>

\* Mutant: waits for the task without cancelling it.
StopTaskWaiting(p) ==
  /\ Free(p)
  /\ stage[p] \in Task
  /\ Reply(p, "stopping")
  /\ UNCHANGED <<clock, lease, desired, stage, guard, reading, cancelled, failed>>

StopTask(p) ==
  /\ Free(p)
  /\ stage[p] \in Task
  /\ cancelled' = [cancelled EXCEPT ![p] = TRUE]
  /\ Reply(p, "stopping")
  /\ UNCHANGED <<clock, lease, desired, stage, guard, reading, failed>>

Stopped(p) ==
  /\ call[p] = "stopping"
  /\ stage[p] = "finished"
  /\ Become(p, "idle")
  /\ Reply(p, IF failed[p] THEN "error" ELSE "ok")
  /\ cancelled' = [cancelled EXCEPT ![p] = FALSE]
  /\ failed' = [failed EXCEPT ![p] = FALSE]
  /\ UNCHANGED <<clock, lease, desired, guard, reading>>

-----------------------------------------------------------------------------
(* The loop. *)

MoveTo(p, from, to) ==
  /\ stage[p] = from
  /\ Become(p, to)
  /\ UNCHANGED <<clock, lease, desired, guard, cancelled, failed, call>>

\* Cancelled, or desired stopped.
DecideEnd(p) ==
  /\ cancelled[p] \/ desired = "stopped"
  /\ MoveTo(p, "deciding", "releasing")
  /\ UNCHANGED reading

\* The desired state cannot be read: the task ends and leaves its lease behind.
DecideError(p) ==
  /\ stage[p] = "deciding"
  /\ ~cancelled[p]
  /\ Become(p, "returning")
  /\ guard' = [guard EXCEPT ![p] = None]
  /\ failed' = [failed EXCEPT ![p] = TRUE]
  /\ UNCHANGED <<clock, lease, desired, reading, cancelled, call>>

DecidePoll(p) ==
  /\ ~cancelled[p]
  /\ desired = "running"
  /\ MoveTo(p, "deciding", "polling")
  /\ Read(p)

\* A renewal or the candidate query fails for want of the database.
IterationFailed(p) ==
  /\ stage[p] \in {"polling", "evaluating", "renewing"}
  /\ MoveTo(p, stage[p], "waiting")
  /\ Read(p)

\* Mutant: returns at once when the lease is lost.
RenewalLostReturning(p) ==
  /\ stage[p] = "renewing" \/ (stage[p] = "polling" /\ RenewalDue(p))
  /\ ~CanRenew(p)
  /\ Become(p, "returning")
  /\ guard' = [guard EXCEPT ![p] = None]
  /\ UNCHANGED <<clock, lease, desired, reading, cancelled, failed, call>>

RenewalLost(p) ==
  /\ stage[p] = "renewing" \/ (stage[p] = "polling" /\ RenewalDue(p))
  /\ ~CanRenew(p)
  /\ MoveTo(p, stage[p], "releasing")
  /\ UNCHANGED reading

Renew(p, from, to) ==
  /\ stage[p] = from
  /\ CanRenew(p)
  /\ Write(p, guard[p].version + 1)
  /\ Become(p, to)
  /\ UNCHANGED <<clock, desired, reading, cancelled, failed, call>>

\* poll_once up to the candidates.
PollRenewing(p) == stage[p] = "polling" /\ RenewalDue(p) /\ Renew(p, "polling", "evaluating")
PollFresh(p) ==
  /\ stage[p] = "polling"
  /\ ~RenewalDue(p)
  /\ MoveTo(p, "polling", "evaluating")
  /\ UNCHANGED reading

\* The adapters are done; a cancelled poll applies nothing.
EvaluationCancelled(p) == cancelled[p] /\ MoveTo(p, "evaluating", "waiting") /\ Read(p)
EvaluationDone(p) == ~cancelled[p] /\ MoveTo(p, "evaluating", "renewing") /\ Read(p)

\* Mutant: no renewal after the adapters.
ApplyUnchecked(p) == MoveTo(p, "renewing", "applying") /\ UNCHANGED reading
ApplyUnderLease(p) == Renew(p, "renewing", "applying")
Applied(p) == MoveTo(p, "applying", "waiting") /\ Read(p)

WaitCancelled(p) == cancelled[p] /\ MoveTo(p, "waiting", "releasing") /\ UNCHANGED reading
WaitOver(p) ==
  /\ ~cancelled[p]
  /\ clock >= reading[p] + PollInterval
  /\ MoveTo(p, "waiting", "deciding")
  /\ UNCHANGED reading

\* The row is deleted only by its exact holder and version; a lost lease is
\* no error.
Release(p) ==
  /\ stage[p] = "releasing"
  /\ lease' = IF Owns(p) THEN None ELSE lease
  /\ guard' = [guard EXCEPT ![p] = None]
  /\ Become(p, "returning")
  /\ UNCHANGED <<clock, desired, reading, cancelled, failed, call>>

ReleaseError(p) ==
  /\ stage[p] = "releasing"
  /\ guard' = [guard EXCEPT ![p] = None]
  /\ failed' = [failed EXCEPT ![p] = TRUE]
  /\ Become(p, "returning")
  /\ UNCHANGED <<clock, lease, desired, reading, cancelled, call>>

\* Between the cleared flag and the finished task, start still finds a live task.
Finish(p) == MoveTo(p, "returning", "finished") /\ UNCHANGED reading

-----------------------------------------------------------------------------
(* The surroundings. *)

Boot(p) == MoveTo(p, "absent", "idle") /\ UNCHANGED reading

Crash(p) ==
  /\ Up(p)
  /\ Become(p, "dead")
  /\ guard' = [guard EXCEPT ![p] = None]
  /\ cancelled' = [cancelled EXCEPT ![p] = FALSE]
  /\ failed' = [failed EXCEPT ![p] = FALSE]
  /\ Reply(p, None)
  /\ UNCHANGED <<clock, lease, desired, reading>>

PersistDesired ==
  /\ desired' \in {"running", "stopped"} \ {desired}
  /\ UNCHANGED <<clock, lease, stage, guard, reading, cancelled, failed, call>>

\* Assumed: from the second renewal on, a poll takes at most MaxApply ticks.
Prompt(p) == stage[p] \in {"renewing", "applying"} => clock < reading[p] + MaxApply

Tick ==
  /\ clock < MaxTime
  /\ \A p \in Processes : Prompt(p)
  /\ clock' = clock + 1
  /\ UNCHANGED <<lease, desired, stage, guard, reading, cancelled, failed, call>>

-----------------------------------------------------------------------------
Init ==
  /\ clock = 0
  /\ lease = None
  /\ desired = "running"
  /\ stage = [p \in Processes |-> "absent"]
  /\ guard = [p \in Processes |-> None]
  /\ reading = [p \in Processes |-> 0]
  /\ cancelled = [p \in Processes |-> FALSE]
  /\ failed = [p \in Processes |-> FALSE]
  /\ call = [p \in Processes |-> None]

Start(p) == \/ StartAlready(p) \/ StartReportsOldFailure(p) \/ StartRefused(p)
            \/ StartAcquire(p) \/ Acquired(p) \/ NotAcquired(p)
Stop(p) == StopNothing(p) \/ StopTask(p) \/ Stopped(p)

LoopStep(p) ==
  \/ DecideEnd(p) \/ DecideError(p) \/ DecidePoll(p)
  \/ PollRenewing(p) \/ PollFresh(p) \/ RenewalLost(p) \/ IterationFailed(p)
  \/ EvaluationCancelled(p) \/ EvaluationDone(p)
  \/ ApplyUnderLease(p) \/ Applied(p)
  \/ WaitCancelled(p) \/ WaitOver(p)
  \/ Release(p) \/ ReleaseError(p) \/ Finish(p)

Next ==
  \/ \E p \in Processes : Boot(p) \/ Start(p) \/ Stop(p) \/ LoopStep(p) \/ Crash(p)
  \/ PersistDesired
  \/ Tick

Spec == Init /\ [][Next]_vars

\* The runtime drives the task and completes a stop that has been called;
\* adapters return when they are cancelled.
FairSpec == Spec /\ \A p \in Processes : WF_vars(LoopStep(p)) /\ WF_vars(Stopped(p))

-----------------------------------------------------------------------------
(* Properties. *)

\* Every variable has the type of its row, struct or flag.
TypeOK ==
  /\ clock \in 0 .. MaxTime
  /\ lease = None \/ lease \in Row
  /\ desired \in {"running", "stopped"}
  /\ stage \in [Processes -> Stages]
  /\ guard \in [Processes -> Guard \cup {None}]
  /\ reading \in [Processes -> 0 .. MaxTime]
  /\ cancelled \in [Processes -> BOOLEAN]
  /\ failed \in [Processes -> BOOLEAN]
  /\ call \in [Processes -> {None, "starting", "stopping", "ok", "error"}]

Believes(p) == guard[p] # None /\ guard[p].expires_at > clock

\* Two tasks never hold an unexpired guard at once, however long a reading
\* waited for the write lock (acquire, renew).
OneBeliever == \A p, q \in Processes : Believes(p) /\ Believes(q) => p = q

\* Two polls never apply results at once, however long the adapters of one
\* took: the renewal after the adapters decides (poll_once).
OneApplying ==
  \A p, q \in Processes : stage[p] = "applying" /\ stage[q] = "applying" => p = q

\* An unexpired row is replaced only by its holder's renewal, and deleted only
\* by its holder's release: no start, stop or late release of another life of
\* the program touches it.
LiveLeaseUntouched ==
  [][lease # None /\ lease.expires_at > clock /\ lease' # lease =>
       LET p == lease.holder
       IN  /\ guard[p] # None
           /\ IF lease' = None
              THEN guard'[p] = None
              ELSE lease'.holder = p /\ lease'.version = guard'[p].version]_vars

\* A stop that answers Ok after ending a task leaves no lease of that process
\* behind, also when the task had lost its lease or its renewals had failed, so
\* the next start need not wait for an expiry (DESIGN 17.2).
CleanStopReleases ==
  [][\A p \in Processes :
       call[p] = "stopping" /\ call'[p] = "ok" => lease' = None \/ lease'.holder # p]_vars

\* A stop, once called, is answered, whatever the loop was doing.
StopCompletes == \A p \in Processes : call[p] = "stopping" ~> call[p] # "stopping"

Anyone == CHOOSE p \in Processes : TRUE   \* the processes are interchangeable

Runtime == INSTANCE SchedulerRuntime WITH
  Slots <- {"task"},
  loop <- [s \in {"task"} |-> IF stage[Anyone] \in Loop THEN "looping"
                             ELSE IF stage[Anyone] = "returning" THEN "ended"
                             ELSE IF stage[Anyone] = "finished" THEN "finished" ELSE "free"],
  cancelled <- [s \in {"task"} |-> cancelled[Anyone]],
  failed <- [s \in {"task"} |-> failed[Anyone]],
  handle <- IF stage[Anyone] \in Task THEN "task" ELSE None,
  running <- IsRunning(Anyone),
  call <- call[Anyone]

\* To its controller, a task with its lease, its stages and its failures is the
\* runtime of SchedulerRuntime: start and stop answer as it says, and a
\* cancelled loop unwinds (WorkloadRuntime for SchedulerWorkload).
ImplementsRuntime == Runtime!RuntimeSpec

\* SPEC 18.2: the lease is renewed before half its duration elapses.
RenewedBeforeHalf ==
  \A p \in Processes :
    IsRunning(p) => 2 * (clock - (guard[p].expires_at - LeaseDuration)) <= LeaseDuration
=============================================================================
