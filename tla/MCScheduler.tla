----------------------------- MODULE MCScheduler -----------------------------
(***************************************************************************)
(* Instances of SchedulerWorkload for TLC.                                 *)
(***************************************************************************)
EXTENDS SchedulerWorkload, TLC

CONSTANT MaxEvaluation   \* bound: ticks the adapters of one poll may take

\* The lives of the program are interchangeable in the safety runs.
Holders == Permutations(Processes)

\* Behaviours in which nothing disturbs the loop and the program itself is
\* instantaneous: time passes only in the sleep between polls, which ends on
\* time, and in the adapters, which take at most MaxEvaluation ticks.
OnTime(p) ==
  \/ stage[p] \in {"absent", "idle"}
  \/ stage[p] = "waiting" /\ clock < reading[p] + PollInterval
  \/ stage[p] = "evaluating" /\ clock < reading[p] + MaxEvaluation

Undisturbed(p) ==
  \/ Boot(p) \/ StartAcquire(p) \/ Acquired(p)
  \/ DecidePoll(p) \/ PollRenewing(p) \/ PollFresh(p) \/ RenewalLost(p)
  \/ EvaluationDone(p) \/ ApplyUnderLease(p) \/ Applied(p) \/ WaitOver(p)

PunctualNext ==
  \/ \E p \in Processes : Undisturbed(p)
  \/ Tick /\ \A p \in Processes : OnTime(p)

PunctualSpec == Init /\ [][PunctualNext]_vars
=============================================================================
