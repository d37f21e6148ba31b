--------------------------- MODULE SchedulerRuntime ---------------------------
(***************************************************************************)
(* What SchedulerWorkload (scheduler/runner.rs) promises the controller of *)
(* one process: start and stop calls over a task handle, a running flag,   *)
(* and loops that end when they are cancelled or of their own accord.      *)
(* SchedulerWorkload.tla implements it, with the lease and the stages of   *)
(* the loop; WorkloadController.tla is built on it.                        *)
(*                                                                         *)
(* A call whose caller is dropped goes no further: a start then has no     *)
(* task, and a stop has cancelled a loop that no handle holds any more.    *)
(***************************************************************************)
CONSTANTS
  Slots,   \* bound: loops alive at once
  None

ASSUME SlotAssumption == None \notin Slots

VARIABLES
  loop,       \* each loop: "free", "looping", "released", "ended" or "finished"
  cancelled,  \* its cancellation token
  failed,     \* its result is an error
  handle,     \* the JoinHandle of SchedulerWorkload.task
  running,    \* the flag is_running reads
  call        \* the start or stop in progress, or the answer of the last one

runtimeVars == <<loop, cancelled, failed, handle, running, call>>

\* A loop that may still poll.
Live(s) == loop[s] = "looping"
Busy == call \in {"starting", "stopping"}

Reply(r) == call' = r
Clear(s) ==
  /\ loop' = [loop EXCEPT ![s] = "free"]
  /\ cancelled' = [cancelled EXCEPT ![s] = FALSE]
  /\ failed' = [failed EXCEPT ![s] = FALSE]

\* The handle is taken, if there is one.
Taken == /\ handle' = None
         /\ IF handle = None THEN UNCHANGED <<loop, cancelled, failed>> ELSE Clear(handle)

Ended == handle # None => loop[handle] = "finished"
EndedWell == handle # None => loop[handle] = "finished" /\ ~failed[handle]

-----------------------------------------------------------------------------
\* A task that has not finished counts as started, whatever its loop decided.
StartAlready ==
  /\ ~Busy
  /\ ~Ended
  /\ Reply("ok")
  /\ UNCHANGED <<loop, cancelled, failed, handle, running>>

\* The error of a finished task is the answer of the next start; so is a
\* desired state that is stopped or unreadable.
StartRefused ==
  /\ ~Busy
  /\ Ended
  /\ Taken
  /\ Reply("error")
  /\ UNCHANGED running

StartBegun ==
  /\ ~Busy
  /\ EndedWell
  /\ Taken
  /\ Reply("starting")
  /\ UNCHANGED running

\* The lease is acquired and the loop spawned.
Started ==
  /\ call = "starting"
  /\ \E s \in Slots :
       /\ loop[s] = "free"
       /\ loop' = [loop EXCEPT ![s] = "looping"]
       /\ handle' = s
  /\ running' = TRUE
  /\ Reply("ok")
  /\ UNCHANGED <<cancelled, failed>>

NotStarted ==
  /\ call = "starting"
  /\ Reply("error")
  /\ UNCHANGED <<loop, cancelled, failed, handle, running>>

StopNothing ==
  /\ ~Busy
  /\ handle = None
  /\ running' = FALSE
  /\ Reply("ok")
  /\ UNCHANGED <<loop, cancelled, failed, handle>>

\* Mutant: the token is not cancelled.
StopUncancelled ==
  /\ ~Busy
  /\ handle # None
  /\ Reply("stopping")
  /\ UNCHANGED <<loop, cancelled, failed, handle, running>>

StopBegun ==
  /\ ~Busy
  /\ handle # None
  /\ cancelled' = [cancelled EXCEPT ![handle] = TRUE]
  /\ Reply("stopping")
  /\ UNCHANGED <<loop, failed, handle, running>>

\* The task has been joined.  A task that panicked is left out: its join error is
\* returned with the flag as it was.
Stopped ==
  /\ call = "stopping"
  /\ loop[handle] = "finished"
  /\ running' = FALSE
  /\ Reply(IF failed[handle] THEN "error" ELSE "ok")
  /\ Taken

-----------------------------------------------------------------------------
(* The loop. *)

\* run_acquired has released its lease, and not returned yet.
Released(s) ==
  /\ loop[s] = "looping"
  /\ loop' = [loop EXCEPT ![s] = "released"]
  /\ UNCHANGED <<cancelled, failed, handle, running, call>>

\* It returns, and the task clears the flag: also one that a later task has set.
Returned(s) ==
  /\ loop[s] \in {"looping", "released"}
  /\ loop' = [loop EXCEPT ![s] = "ended"]
  /\ failed' \in {failed, [failed EXCEPT ![s] = TRUE]}
  /\ running' = FALSE
  /\ UNCHANGED <<cancelled, handle, call>>

\* A detached task leaves nothing to join.
Finished(s) ==
  /\ loop[s] = "ended"
  /\ IF s = handle
     THEN loop' = [loop EXCEPT ![s] = "finished"] /\ UNCHANGED <<cancelled, failed>>
     ELSE Clear(s)
  /\ UNCHANGED <<handle, running, call>>

LoopStep(s) == Released(s) \/ Returned(s) \/ Finished(s)

\* A cancelled loop unwinds, and a returned one finishes.
Unwinds(s) == (cancelled[s] \/ ~Live(s)) /\ LoopStep(s)

-----------------------------------------------------------------------------
\* The caller of start or stop is dropped.
Abandoned ==
  /\ Busy
  /\ Reply(None)
  /\ IF call = "stopping" THEN handle' = None ELSE UNCHANGED handle
  /\ IF call = "stopping" /\ loop[handle] = "finished"
     THEN Clear(handle) ELSE UNCHANGED <<loop, cancelled, failed>>
  /\ UNCHANGED running

RuntimeInit ==
  /\ loop = [s \in Slots |-> "free"]
  /\ cancelled = [s \in Slots |-> FALSE]
  /\ failed = [s \in Slots |-> FALSE]
  /\ handle = None
  /\ running = FALSE
  /\ call = None

Lost ==
  /\ loop' = [s \in Slots |-> "free"]
  /\ cancelled' = [s \in Slots |-> FALSE]
  /\ failed' = [s \in Slots |-> FALSE]
  /\ handle' = None
  /\ running' = FALSE
  /\ call' = None

Start == StartAlready \/ StartRefused \/ StartBegun
Stop == StopNothing \/ StopBegun
Progress == Started \/ NotStarted \/ Stopped

RuntimeNext == Start \/ Stop \/ Progress \/ Abandoned \/ Lost \/ \E s \in Slots : LoopStep(s)

RuntimeFairness ==
  /\ WF_runtimeVars(Stopped)
  /\ \A s \in Slots : WF_runtimeVars(Unwinds(s))

RuntimeSpec == RuntimeInit /\ [][RuntimeNext]_runtimeVars /\ RuntimeFairness

RuntimeTypeOK ==
  /\ loop \in [Slots -> {"free", "looping", "released", "ended", "finished"}]
  /\ cancelled \in [Slots -> BOOLEAN]
  /\ failed \in [Slots -> BOOLEAN]
  /\ handle \in Slots \cup {None}
  /\ running \in BOOLEAN
  /\ call \in {None, "starting", "stopping", "ok", "error"}
=============================================================================
