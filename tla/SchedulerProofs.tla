--------------------------- MODULE SchedulerProofs ---------------------------
(***************************************************************************)
(* Proofs about SchedulerWorkload for any set of processes, lease duration *)
(* and poll interval.                                                      *)
(*                                                                         *)
(* The argument: a guard and the row agree on version and expiry for as    *)
(* long as the row names the guard's holder (GuardMatches), and an         *)
(* unexpired guard still has its row (BelieverOwns), because a reading of  *)
(* the clock, however old, is never ahead of it (ReadingPast).             *)
(***************************************************************************)
EXTENDS SchedulerWorkload, TLAPS

ReadingPast == \A p \in Processes : reading[p] <= clock

GuardMatches ==
  \A p \in Processes :
    guard[p] # None /\ lease # None /\ lease.holder = p =>
      lease.version = guard[p].version /\ lease.expires_at = guard[p].expires_at

BelieverOwns == \A p \in Processes : Believes(p) => lease # None /\ lease.holder = p

\* A guard exists exactly while the loop runs.
GuardOfLoop == \A p \in Processes : stage[p] \in Loop <=> guard[p] # None

\* What the second renewal guarantees while results are applied.
ApplyInTime ==
  \A p \in Processes :
    /\ stage[p] = "renewing" => clock <= reading[p] + MaxApply
    /\ stage[p] = "applying" =>
         clock <= reading[p] + MaxApply /\ guard[p].expires_at = reading[p] + LeaseDuration

\* A call in progress has the task or the attempt it waits for.
CallsMatch ==
  \A p \in Processes :
    /\ stage[p] = "acquiring" <=> call[p] = "starting"
    /\ call[p] = "stopping" => stage[p] \in Task

\* A loop that returned without error has given its row up.
Released ==
  \A p \in Processes :
    stage[p] \in {"returning", "finished"} /\ ~failed[p] => lease = None \/ lease.holder # p

\* The inductive invariant.
IInv ==
  /\ TypeOK /\ ReadingPast /\ GuardMatches /\ BelieverOwns
  /\ GuardOfLoop /\ ApplyInTime /\ CallsMatch /\ Released

-----------------------------------------------------------------------------
(* The steps by what they do to the row, the guards and the clock. *)

\* The lease is left alone; at most the clock moves on.
Kept == lease' = lease /\ guard' = guard /\ clock' \in {clock, clock + 1}

\* p writes the row, having found it absent or expired, or its own.
Wrote(p) ==
  /\ clock' = clock
  /\ CanAcquire(p) \/ CanRenew(p)
  /\ \E version \in Nat \ {0} : Write(p, version)

\* p gives its guard up, and deletes the row only if the row is its own.
Dropped(p) ==
  /\ clock' = clock
  /\ lease' \in {lease, IF Owns(p) THEN None ELSE lease}
  /\ guard' = [guard EXCEPT ![p] = None]

\* The steps that write the row.
LEMMA Writers ==
  ASSUME TypeOK, NEW p \in Processes,
         Acquired(p) \/ PollRenewing(p) \/ ApplyUnderLease(p)
  PROVE  Wrote(p)
<1>1. CASE Acquired(p)
  <2>1. NextVersion \in Nat \ {0}
    BY DEF TypeOK, NextVersion, Row
  <2> QED  BY <1>1, <2>1 DEF Acquired, Wrote
<1>2. ASSUME NEW from, NEW to, Renew(p, from, to) PROVE Wrote(p)
  <2>1. guard[p].version + 1 \in Nat \ {0}
    BY <1>2 DEF Renew, CanRenew, Owns, TypeOK, Guard
  <2> QED  BY <1>2, <2>1 DEF Renew, Wrote
<1> QED  BY <1>1, <1>2 DEF PollRenewing, ApplyUnderLease

\* Every step is of one of the three kinds, and one process takes it.
LEMMA StepKinds ==
  ASSUME TypeOK, Next
  PROVE  Kept \/ \E p \in Processes : Wrote(p) \/ Dropped(p)
<1>1. CASE Tick \/ PersistDesired
  BY <1>1 DEF Tick, PersistDesired, Kept
<1>2. ASSUME NEW p \in Processes, Start(p) PROVE Kept \/ Wrote(p)
  BY <1>2, Writers DEF Start, StartAlready, StartReportsOldFailure, StartRefused,
     StartAcquire, NotAcquired, Kept
<1>3. ASSUME NEW p \in Processes, Stop(p) PROVE Kept
  BY <1>3 DEF Stop, StopNothing, StopTask, Stopped, Kept
<1>4. ASSUME NEW p \in Processes, LoopStep(p) PROVE Kept \/ Wrote(p) \/ Dropped(p)
  <2>1. CASE DecideError(p) \/ Release(p) \/ ReleaseError(p)
    BY <2>1 DEF DecideError, Release, ReleaseError, Dropped
  <2> QED
    BY <1>4, <2>1, Writers DEF LoopStep, DecideEnd, DecidePoll, PollFresh, RenewalLost,
       IterationFailed, EvaluationCancelled, EvaluationDone, Applied, WaitCancelled,
       WaitOver, Finish, MoveTo, Kept
<1>5. ASSUME NEW p \in Processes, Boot(p) \/ Crash(p) PROVE Kept \/ Dropped(p)
  BY <1>5 DEF Boot, Crash, MoveTo, Kept, Dropped
<1> QED  BY <1>1, <1>2, <1>3, <1>4, <1>5 DEF Next

-----------------------------------------------------------------------------
(* Types. *)

LEMMA TypeInit == Init => TypeOK
  BY LeaseAssumption DEF Init, TypeOK, Stages

LEMMA WriteTyped ==
  ASSUME TypeOK, NEW p \in Processes, NEW version \in Nat \ {0}, Write(p, version)
  PROVE  lease' \in Row /\ guard' \in [Processes -> Guard \cup {None}]
<1>1. reading[p] + LeaseDuration \in Nat
  BY LeaseAssumption DEF TypeOK
<1> QED  BY <1>1 DEF TypeOK, Write, Row, Guard

LEMMA TypeStep ==
  ASSUME TypeOK, Next
  PROVE  TypeOK'
<1>1. clock' \in 0 .. MaxTime
  <2>1. CASE Tick
    BY <2>1, LeaseAssumption DEF TypeOK, Tick
  <2>2. CASE clock' = clock
    BY <2>2 DEF TypeOK
  <2> QED
    BY <2>1, <2>2 DEF Next, PersistDesired, Boot, Crash, MoveTo, Start, StartAlready,
       StartReportsOldFailure, StartRefused, StartAcquire, Acquired, NotAcquired, Stop,
       StopNothing, StopTask, Stopped, LoopStep, DecideEnd, DecideError, DecidePoll, PollRenewing, PollFresh, RenewalLost,
       IterationFailed, EvaluationCancelled, EvaluationDone, ApplyUnderLease, Renew,
       Applied, WaitCancelled, WaitOver, Release, ReleaseError, Finish
<1>2. (lease' = None \/ lease' \in Row) /\ guard' \in [Processes -> Guard \cup {None}]
  <2>1. CASE \E p \in Processes : Wrote(p)
    BY <2>1, WriteTyped DEF Wrote
  <2> QED
    BY <2>1, StepKinds DEF TypeOK, Kept, Dropped
<1>3. desired' \in {"running", "stopped"} /\ stage' \in [Processes -> Stages]
  BY DEF TypeOK, Become, Stages, Task, Loop,
       Next, Tick, PersistDesired, Boot, Crash, MoveTo, Start, StartAlready,
       StartReportsOldFailure, StartRefused, StartAcquire, Acquired, NotAcquired, Stop,
       StopNothing, StopTask, Stopped, LoopStep, DecideEnd, DecideError, DecidePoll, PollRenewing, PollFresh, RenewalLost,
       IterationFailed, EvaluationCancelled, EvaluationDone, ApplyUnderLease, Renew,
       Applied, WaitCancelled, WaitOver, Release, ReleaseError, Finish
<1>4. /\ reading' \in [Processes -> 0 .. MaxTime]
      /\ cancelled' \in [Processes -> BOOLEAN]
  BY DEF TypeOK, Read,
       Next, Tick, PersistDesired, Boot, Crash, MoveTo, Start, StartAlready,
       StartReportsOldFailure, StartRefused, StartAcquire, Acquired, NotAcquired, Stop,
       StopNothing, StopTask, Stopped, LoopStep, DecideEnd, DecideError, DecidePoll, PollRenewing, PollFresh, RenewalLost,
       IterationFailed, EvaluationCancelled, EvaluationDone, ApplyUnderLease, Renew,
       Applied, WaitCancelled, WaitOver, Release, ReleaseError, Finish
<1>5. /\ failed' \in [Processes -> BOOLEAN]
      /\ call' \in [Processes -> {None, "starting", "stopping", "ok", "error"}]
  BY DEF TypeOK, Reply,
       Next, Tick, PersistDesired, Boot, Crash, MoveTo, Start, StartAlready,
       StartReportsOldFailure, StartRefused, StartAcquire, Acquired, NotAcquired, Stop,
       StopNothing, StopTask, Stopped, LoopStep, DecideEnd, DecideError, DecidePoll, PollRenewing, PollFresh, RenewalLost,
       IterationFailed, EvaluationCancelled, EvaluationDone, ApplyUnderLease, Renew,
       Applied, WaitCancelled, WaitOver, Release, ReleaseError, Finish
<1> QED  BY <1>1, <1>2, <1>3, <1>4, <1>5 DEF TypeOK

-----------------------------------------------------------------------------
(* Row against guards. *)

LEMMA ReadingStep ==
  ASSUME TypeOK, ReadingPast, Next
  PROVE  ReadingPast'
<1>1. \A p \in Processes : clock' \in Nat /\ reading'[p] \in {reading[p], clock} /\ clock <= clock'
  <2>1. CASE Tick
    BY <2>1, LeaseAssumption DEF TypeOK, Tick
  <2>2. CASE clock' = clock /\ \A p \in Processes : reading'[p] \in {reading[p], clock}
    BY <2>2, LeaseAssumption DEF TypeOK
  <2> QED
    BY <2>1, <2>2 DEF TypeOK, Read,
       Next, PersistDesired, Boot, Crash, MoveTo, Start, StartAlready,
       StartReportsOldFailure, StartRefused, StartAcquire, Acquired, NotAcquired, Stop,
       StopNothing, StopTask, Stopped, LoopStep, DecideEnd, DecideError, DecidePoll,
       PollRenewing, PollFresh, RenewalLost, IterationFailed, EvaluationCancelled,
       EvaluationDone, ApplyUnderLease, Renew, Applied, WaitCancelled, WaitOver, Release,
       ReleaseError, Finish
<1> QED  BY <1>1, LeaseAssumption DEF TypeOK, ReadingPast

\* p's write makes row and guard agree, and leaves the other guards alone.
LEMMA Written ==
  ASSUME TypeOK, NEW p \in Processes, Wrote(p)
  PROVE  /\ lease' # None /\ guard'[p] # None
         /\ lease'.holder = p
         /\ lease'.version = guard'[p].version
         /\ lease'.expires_at = reading[p] + LeaseDuration
         /\ guard'[p].expires_at = reading[p] + LeaseDuration
         /\ \A q \in Processes \ {p} : guard'[q] = guard[q]
<1>1. PICK version \in Nat \ {0} : Write(p, version)
  BY DEF Wrote
<1>2. lease' \in Row /\ guard' \in [Processes -> Guard \cup {None}]
  BY <1>1, WriteTyped
<1>3. guard'[p] = [version |-> version, expires_at |-> reading[p] + LeaseDuration]
  BY <1>1 DEF Write, TypeOK
<1>4. reading[p] + LeaseDuration \in Nat
  BY LeaseAssumption DEF TypeOK
<1>5. guard'[p] \in Guard
  BY <1>3, <1>4 DEF Guard
<1>6. \A q \in Processes \ {p} : guard'[q] = guard[q]
  BY <1>1 DEF Write, TypeOK
<1> QED  BY <1>1, <1>2, <1>3, <1>5, <1>6, NoneAssumption DEF Write

\* Giving a guard up changes no other guard, and no row of another holder.
LEMMA Given ==
  ASSUME TypeOK, NEW p \in Processes, Dropped(p)
  PROVE  /\ guard'[p] = None
         /\ \A q \in Processes \ {p} : guard'[q] = guard[q]
         /\ lease' = lease \/ (lease' = None /\ lease # None /\ lease.holder = p)
  BY DEF TypeOK, Dropped, Owns

LEMMA MatchStep ==
  ASSUME TypeOK, GuardMatches, Next
  PROVE  GuardMatches'
<1>1. CASE Kept
  BY <1>1 DEF Kept, GuardMatches
<1>2. ASSUME NEW p \in Processes, Wrote(p) PROVE GuardMatches'
  BY <1>2, Written DEF GuardMatches
<1>3. ASSUME NEW p \in Processes, Dropped(p) PROVE GuardMatches'
  BY <1>3, Given DEF GuardMatches
<1> QED  BY <1>1, <1>2, <1>3, StepKinds

LEMMA BelieverStep ==
  ASSUME TypeOK, ReadingPast, GuardMatches, BelieverOwns, Next
  PROVE  BelieverOwns'
<1>1. CASE Kept
  BY <1>1 DEF Kept, BelieverOwns, Believes, TypeOK, Guard
<1>2. ASSUME NEW p \in Processes, Wrote(p) PROVE BelieverOwns'
  <2>1. ASSUME NEW q \in Processes \ {p} PROVE ~Believes(q)
    <3>1. SUFFICES ASSUME Believes(q) PROVE FALSE
      OBVIOUS
    <3>2. lease # None /\ lease.holder = q /\ lease.expires_at > clock
      BY <3>1 DEF BelieverOwns, GuardMatches, Believes
    <3>3. lease.expires_at <= reading[p]
      BY <1>2, <2>1, <3>2 DEF Wrote, CanAcquire, CanRenew, Owns
    <3> QED
      BY <3>2, <3>3 DEF ReadingPast, TypeOK, Row
  <2> QED
    BY <1>2, <2>1, Written DEF BelieverOwns, Believes, Wrote
<1>3. ASSUME NEW p \in Processes, Dropped(p) PROVE BelieverOwns'
  BY <1>3, Given DEF Dropped, BelieverOwns, Believes
<1> QED  BY <1>1, <1>2, <1>3, StepKinds

-----------------------------------------------------------------------------
(* The task of each process. *)

LEMMA GuardOfLoopStep ==
  ASSUME TypeOK, GuardOfLoop, Next
  PROVE  GuardOfLoop'
<1> USE DEF GuardOfLoop, TypeOK, Loop, Become
<1>1. CASE Tick \/ PersistDesired
  BY <1>1 DEF Tick, PersistDesired
<1>2. ASSUME NEW p \in Processes, Start(p) PROVE GuardOfLoop'
  <2>1. CASE Acquired(p)
    <3>1. guard'[p] # None /\ (\A q \in Processes \ {p} : guard'[q] = guard[q])
      BY <2>1, Writers, Written
    <3> QED  BY <2>1, <3>1 DEF Acquired
  <2> QED
    BY <1>2, <2>1 DEF Start, StartAlready, StartReportsOldFailure, StartRefused,
       StartAcquire, NotAcquired, Restartable
<1>3. ASSUME NEW p \in Processes, Stop(p) PROVE GuardOfLoop'
  BY <1>3 DEF Stop, StopNothing, StopTask, Stopped
<1>4. ASSUME NEW p \in Processes, LoopStep(p) PROVE GuardOfLoop'
  <2>1. CASE PollRenewing(p) \/ ApplyUnderLease(p)
    BY <2>1, Writers, Written DEF PollRenewing, ApplyUnderLease, Renew
  <2>2. CASE DecideError(p) \/ Release(p) \/ ReleaseError(p)
    BY <2>2 DEF DecideError, Release, ReleaseError
  <2> QED
    BY <1>4, <2>1, <2>2 DEF LoopStep, DecideEnd, DecidePoll, PollFresh, RenewalLost,
       IterationFailed, EvaluationCancelled, EvaluationDone, Applied, WaitCancelled,
       WaitOver, Finish, MoveTo
<1>5. ASSUME NEW p \in Processes, Boot(p) \/ Crash(p) PROVE GuardOfLoop'
  BY <1>5 DEF Boot, Crash, MoveTo
<1> QED  BY <1>1, <1>2, <1>3, <1>4, <1>5 DEF Next

LEMMA ApplyStep ==
  ASSUME TypeOK, GuardOfLoop, ApplyInTime, Next
  PROVE  ApplyInTime'
<1> USE DEF ApplyInTime, TypeOK, Become
<1>1. CASE Tick
  BY <1>1, LeaseAssumption, ApplyAssumption DEF Tick, Prompt
<1>2. CASE PersistDesired
  BY <1>2 DEF PersistDesired
<1>3. ASSUME NEW p \in Processes, Start(p) PROVE ApplyInTime'
  <2>1. CASE Acquired(p)
    BY <2>1, Writers, Written DEF Acquired
  <2> QED
    BY <1>3, <2>1 DEF Start, StartAlready, StartReportsOldFailure, StartRefused,
       StartAcquire, NotAcquired, Read
<1>4. ASSUME NEW p \in Processes, Stop(p) PROVE ApplyInTime'
  BY <1>4 DEF Stop, StopNothing, StopTask, Stopped
<1>5. ASSUME NEW p \in Processes, LoopStep(p) PROVE ApplyInTime'
  <2>1. CASE PollRenewing(p) \/ ApplyUnderLease(p)
    BY <2>1, Writers, Written DEF PollRenewing, ApplyUnderLease, Renew
  <2>2. CASE DecideError(p) \/ Release(p) \/ ReleaseError(p)
    BY <2>2 DEF DecideError, Release, ReleaseError
  <2>3. CASE EvaluationDone(p)
    BY <2>3, LeaseAssumption, ApplyAssumption DEF EvaluationDone, MoveTo, Read
  <2> QED
    BY <1>5, <2>1, <2>2, <2>3 DEF LoopStep, DecideEnd, DecidePoll, PollFresh, RenewalLost,
       IterationFailed, EvaluationCancelled, Applied, WaitCancelled,
       WaitOver, Finish, MoveTo, Read
<1>6. ASSUME NEW p \in Processes, Boot(p) \/ Crash(p) PROVE ApplyInTime'
  BY <1>6 DEF Boot, Crash, MoveTo
<1> QED  BY <1>1, <1>2, <1>3, <1>4, <1>5, <1>6 DEF Next

LEMMA CallsStep ==
  ASSUME TypeOK, CallsMatch, Next
  PROVE  CallsMatch'
<1> USE DEF CallsMatch, TypeOK, Become, Reply, Task, Loop
<1>1. CASE Tick \/ PersistDesired
  BY <1>1 DEF Tick, PersistDesired
<1>2. ASSUME NEW p \in Processes, Start(p) PROVE CallsMatch'
  BY <1>2 DEF Start, StartAlready, StartReportsOldFailure, StartRefused, StartAcquire,
     Acquired, NotAcquired, Restartable, Free
<1>3. ASSUME NEW p \in Processes, Stop(p) PROVE CallsMatch'
  BY <1>3 DEF Stop, StopNothing, StopTask, Stopped, Free
<1>4. ASSUME NEW p \in Processes, LoopStep(p) PROVE CallsMatch'
  BY <1>4 DEF LoopStep, DecideEnd, DecideError, DecidePoll, PollRenewing, PollFresh,
     RenewalLost, IterationFailed, EvaluationCancelled, EvaluationDone, ApplyUnderLease,
     Renew, Applied, WaitCancelled, WaitOver, Release, ReleaseError, Finish, MoveTo
<1>5. ASSUME NEW p \in Processes, Boot(p) \/ Crash(p) PROVE CallsMatch'
  BY <1>5, NoneAssumption DEF Boot, Crash, MoveTo
<1> QED  BY <1>1, <1>2, <1>3, <1>4, <1>5 DEF Next

\* A row is named after its writer, which is then in its loop.
LEMMA ReleasedStep ==
  ASSUME TypeOK, GuardMatches, GuardOfLoop, Released, Next
  PROVE  Released'
<1> USE DEF Released, TypeOK, Become
<1>1. CASE Tick \/ PersistDesired
  BY <1>1 DEF Tick, PersistDesired
<1>2. ASSUME NEW p \in Processes, Start(p) PROVE Released'
  <2>1. CASE Acquired(p)
    BY <2>1, Writers, Written DEF Acquired
  <2> QED
    BY <1>2, <2>1 DEF Start, StartAlready, StartReportsOldFailure, StartRefused,
       StartAcquire, NotAcquired
<1>3. ASSUME NEW p \in Processes, Stop(p) PROVE Released'
  BY <1>3 DEF Stop, StopNothing, StopTask, Stopped
<1>4. ASSUME NEW p \in Processes, LoopStep(p) PROVE Released'
  <2>1. CASE PollRenewing(p) \/ ApplyUnderLease(p)
    BY <2>1, Writers, Written DEF PollRenewing, ApplyUnderLease, Renew
  <2>2. CASE Release(p)
    BY <2>2 DEF Release, Owns, GuardMatches, GuardOfLoop, Loop
  <2>3. CASE DecideError(p) \/ ReleaseError(p)
    BY <2>3 DEF DecideError, ReleaseError
  <2> QED
    BY <1>4, <2>1, <2>2, <2>3 DEF LoopStep, DecideEnd, DecidePoll, PollFresh, RenewalLost,
       IterationFailed, EvaluationCancelled, EvaluationDone, Applied, WaitCancelled,
       WaitOver, Finish, MoveTo
<1>5. ASSUME NEW p \in Processes, Boot(p) \/ Crash(p) PROVE Released'
  BY <1>5 DEF Boot, Crash, MoveTo
<1> QED  BY <1>1, <1>2, <1>3, <1>4, <1>5 DEF Next

-----------------------------------------------------------------------------
(* The theorems. *)

LEMMA IInvInit == Init => IInv
<1>1. Init => TypeOK
  BY TypeInit
<1>2. Init => /\ ReadingPast /\ GuardMatches /\ BelieverOwns /\ GuardOfLoop
              /\ ApplyInTime /\ CallsMatch /\ Released
  BY NoneAssumption
     DEF Init, ReadingPast, GuardMatches, BelieverOwns, Believes, GuardOfLoop, Loop,
         ApplyInTime, CallsMatch, Released
<1> QED  BY <1>1, <1>2 DEF IInv

LEMMA IInvStep == IInv /\ [Next]_vars => IInv'
<1> SUFFICES ASSUME IInv, [Next]_vars PROVE IInv'
  OBVIOUS
<1>1. CASE Next
  BY <1>1, TypeStep, ReadingStep, MatchStep, BelieverStep, GuardOfLoopStep, ApplyStep,
     CallsStep, ReleasedStep DEF IInv
<1>2. CASE UNCHANGED vars
  BY <1>2 DEF vars, IInv, TypeOK, ReadingPast, GuardMatches, BelieverOwns, Believes,
     GuardOfLoop, ApplyInTime, CallsMatch, Released
<1> QED  BY <1>1, <1>2

\* The inductive invariant holds in every reachable state.
THEOREM LeaseSoundness == Spec => []IInv
  BY IInvInit, IInvStep, PTL DEF Spec

\* Row, guards and flags have their types.
THEOREM SchedulerTypeCorrect == Spec => []TypeOK
<1>1. IInv => TypeOK
  BY DEF IInv
<1> QED  BY <1>1, LeaseSoundness, PTL

\* At most one task holds an unexpired guard, whatever time passes between a
\* clock reading and the write that uses it.
THEOREM OneBelieverAlways == Spec => []OneBeliever
<1>1. IInv => OneBeliever
  BY DEF IInv, BelieverOwns, OneBeliever
<1> QED  BY <1>1, LeaseSoundness, PTL

\* At most one poll applies results, provided an apply loop is shorter than the
\* lease (ApplyAssumption).
THEOREM OneApplyingAlways == Spec => []OneApplying
<1>1. IInv => OneApplying
  <2> SUFFICES ASSUME IInv, NEW p \in Processes, stage[p] = "applying" PROVE Believes(p)
    BY DEF IInv, BelieverOwns, OneApplying
  <2>1. guard[p] # None /\ guard[p] \in Guard
    BY DEF IInv, TypeOK, GuardOfLoop, Loop
  <2>2. clock <= reading[p] + MaxApply /\ guard[p].expires_at = reading[p] + LeaseDuration
    BY DEF IInv, ApplyInTime
  <2>3. clock \in Nat /\ reading[p] \in Nat
    BY LeaseAssumption DEF IInv, TypeOK
  <2> QED  BY <2>1, <2>2, <2>3, LeaseAssumption, ApplyAssumption DEF Believes
<1> QED  BY <1>1, LeaseSoundness, PTL

\* Nobody but its holder writes or deletes an unexpired row.
THEOREM LiveLeaseAlwaysUntouched == Spec => LiveLeaseUntouched
<1> DEFINE Touched ==
      lease # None /\ lease.expires_at > clock /\ lease' # lease =>
        LET p == lease.holder
        IN  /\ guard[p] # None
            /\ IF lease' = None
               THEN guard'[p] = None
               ELSE lease'.holder = p /\ lease'.version = guard'[p].version
<1>1. IInv /\ [Next]_vars => [Touched]_vars
  <2> SUFFICES ASSUME IInv, Next, lease # None, lease.expires_at > clock, lease' # lease
               PROVE  Touched
    OBVIOUS
  <2>1. TypeOK
    BY DEF IInv
  <2>2. ASSUME NEW p \in Processes, Wrote(p) PROVE Touched
    <3>1. ~CanAcquire(p)
      BY <2>1 DEF CanAcquire, IInv, ReadingPast, TypeOK, Row
    <3>2. Owns(p)
      BY <2>2, <3>1 DEF Wrote, CanRenew
    <3> QED  BY <2>1, <2>2, <3>2, Written DEF Owns
  <2>3. ASSUME NEW p \in Processes, Dropped(p) PROVE Touched
    BY <2>1, <2>3, Given DEF Dropped, Owns
  <2> QED  BY <2>1, <2>2, <2>3, StepKinds DEF Kept
<1> QED  BY <1>1, LeaseSoundness, PTL DEF Spec, LiveLeaseUntouched

\* A task ended by a stop that answers Ok has no row left.
THEOREM CleanStopAlwaysReleases == Spec => CleanStopReleases
<1> DEFINE Clean ==
      \A p \in Processes :
        call[p] = "stopping" /\ call'[p] = "ok" => lease' = None \/ lease'.holder # p
<1>1. IInv /\ [Next]_vars => [Clean]_vars
  <2> SUFFICES ASSUME IInv, Next, NEW p \in Processes, call[p] = "stopping", call'[p] = "ok"
               PROVE  lease' = None \/ lease'.holder # p
    OBVIOUS
  <2>1. TypeOK /\ CallsMatch /\ Released
    BY DEF IInv
  <2>2. ASSUME NEW q \in Processes, Start(q) \/ Stop(q) PROVE Stopped(p)
    BY <2>1, <2>2 DEF Start, StartAlready, StartReportsOldFailure, StartRefused,
       StartAcquire, Acquired, NotAcquired, Restartable, Stop, StopNothing, StopTask,
       Stopped, Free, Reply, CallsMatch, TypeOK
  <2>3. ASSUME NEW q \in Processes, Boot(q) \/ LoopStep(q) PROVE FALSE
    BY <2>3 DEF Boot, LoopStep, DecideEnd, DecideError, DecidePoll, PollRenewing,
       PollFresh, RenewalLost, IterationFailed, EvaluationCancelled, EvaluationDone,
       ApplyUnderLease, Renew, Applied, WaitCancelled, WaitOver, Release, ReleaseError,
       Finish, MoveTo
  <2>4. ASSUME NEW q \in Processes, Crash(q) PROVE FALSE
    BY <2>1, <2>4, NoneAssumption DEF Crash, Reply, TypeOK
  <2>5. Stopped(p)
    BY <2>2, <2>3, <2>4 DEF Next, Tick, PersistDesired
  <2> QED  BY <2>1, <2>5 DEF Stopped, Reply, Released, TypeOK
<1> QED  BY <1>1, LeaseSoundness, PTL DEF Spec, CleanStopReleases

-----------------------------------------------------------------------------
(* SchedulerWorkload implements SchedulerRuntime: the safety half.  The      *)
(* fairness of RuntimeSpec is left to the model checker.                     *)

\* Only a stop that is still waiting has cancelled the task.
CancelledByStop == \A p \in Processes : cancelled[p] => call[p] = "stopping"

LEMMA CancelledStep ==
  ASSUME TypeOK, CallsMatch, CancelledByStop, [Next]_vars
  PROVE  CancelledByStop'
<1> USE DEF CancelledByStop, TypeOK, Reply
<1>1. CASE Tick \/ PersistDesired \/ UNCHANGED vars
  BY <1>1 DEF Tick, PersistDesired, vars
<1>2. ASSUME NEW p \in Processes, Start(p) PROVE CancelledByStop'
  BY <1>2 DEF Start, StartAlready, StartReportsOldFailure, StartRefused, StartAcquire,
     Acquired, NotAcquired, Restartable, Free, CallsMatch
<1>3. ASSUME NEW p \in Processes, Stop(p) PROVE CancelledByStop'
  BY <1>3 DEF Stop, StopNothing, StopTask, Stopped, Free
<1>4. ASSUME NEW p \in Processes, LoopStep(p) PROVE CancelledByStop'
  BY <1>4 DEF LoopStep, DecideEnd, DecideError, DecidePoll, PollRenewing, PollFresh,
     RenewalLost, IterationFailed, EvaluationCancelled, EvaluationDone, ApplyUnderLease,
     Renew, Applied, WaitCancelled, WaitOver, Release, ReleaseError, Finish, MoveTo
<1>5. ASSUME NEW p \in Processes, Boot(p) \/ Crash(p) PROVE CancelledByStop'
  BY <1>5 DEF Boot, Crash, MoveTo
<1> QED  BY <1>1, <1>2, <1>3, <1>4, <1>5 DEF Next

\* A step of another process is none of this runtime's.
SameTask(p) ==
  /\ stage'[p] = stage[p] /\ cancelled'[p] = cancelled[p]
  /\ failed'[p] = failed[p] /\ call'[p] = call[p]

LEMMA OthersRest ==
  ASSUME TypeOK, NEW p \in Processes, NEW q \in Processes \ {p},
         Boot(q) \/ Start(q) \/ Stop(q) \/ LoopStep(q) \/ Crash(q)
  PROVE  SameTask(p)
<1> USE DEF SameTask, TypeOK, Reply, Become
<1>1. CASE Start(q)
  BY <1>1 DEF Start, StartAlready, StartReportsOldFailure, StartRefused, StartAcquire,
     Acquired, NotAcquired
<1>2. CASE Stop(q)
  BY <1>2 DEF Stop, StopNothing, StopTask, Stopped
<1>3. CASE LoopStep(q)
  BY <1>3 DEF LoopStep, DecideEnd, DecideError, DecidePoll, PollRenewing, PollFresh,
     RenewalLost, IterationFailed, EvaluationCancelled, EvaluationDone, ApplyUnderLease,
     Renew, Applied, WaitCancelled, WaitOver, Release, ReleaseError, Finish, MoveTo
<1>4. CASE Boot(q) \/ Crash(q)
  BY <1>4 DEF Boot, Crash, MoveTo
<1> QED  BY <1>1, <1>2, <1>3, <1>4

LEMMA RestingRuntime ==
  ASSUME SameTask(Anyone)
  PROVE  UNCHANGED Runtime!runtimeVars
  BY DEF SameTask, Runtime!runtimeVars, IsRunning

\* What the mapping needs of the process the controller holds.
Mapped(p) ==
  /\ p \in Processes
  /\ stage[p] = "acquiring" <=> call[p] = "starting"
  /\ cancelled[p] => call[p] = "stopping"
  /\ call[p] = "stopping" => stage[p] \in Task
  /\ stage[p] \in Stages /\ cancelled[p] \in BOOLEAN /\ failed[p] \in BOOLEAN
  /\ None # "task" /\ None # "starting" /\ None # "stopping" /\ None # "ok"

LEMMA MappedProcess ==
  ASSUME TypeOK, CallsMatch, CancelledByStop
  PROVE  Mapped(Anyone)
<1>1. Anyone \in Processes
  BY ProcessAssumption DEF Anyone
<1> QED
  BY <1>1, NoneAssumption DEF CallsMatch, CancelledByStop, TypeOK, Mapped

\* The stages of start.
LEMMA StartImplements ==
  ASSUME TypeOK, Mapped(Anyone), Start(Anyone)
  PROVE  Runtime!RuntimeNext
<1> DEFINE p == Anyone
<1> USE DEF Mapped
<1>1. CASE StartAlready(p)
  <2>1. /\ stage'[p] = stage[p] /\ cancelled'[p] = cancelled[p] /\ failed'[p] = failed[p]
        /\ call'[p] = "ok" /\ stage[p] \in Task \ {"finished"}
        /\ call[p] \notin {"starting", "stopping"}
    BY <1>1 DEF StartAlready, Reply, TypeOK, Free
  <2>2. Runtime!StartAlready
    BY <2>1 DEF Runtime!StartAlready, Runtime!Busy, Runtime!Ended, Runtime!Reply, IsRunning, Task
  <2> QED
    BY <2>2 DEF Runtime!RuntimeNext, Runtime!Start
<1>2. CASE StartReportsOldFailure(p) \/ StartRefused(p)
  <2>1. /\ stage'[p] = "idle" /\ cancelled'[p] = cancelled[p] /\ ~cancelled[p]
        /\ call'[p] = "error" /\ call[p] \notin {"starting", "stopping"}
        /\ \/ stage[p] = "finished" /\ failed'[p] = FALSE
           \/ stage[p] = "idle" /\ failed'[p] = failed[p]
    BY <1>2 DEF StartReportsOldFailure, StartRefused, Restartable, Reply, Become, TypeOK, Free
  <2>2. Runtime!StartRefused
    <3>1. Runtime!Taken
      BY <2>1 DEF Runtime!Taken, Runtime!Clear, Task, Loop
    <3> QED
      BY <2>1, <3>1 DEF Runtime!StartRefused, Runtime!Busy, Runtime!Ended, Runtime!Reply,
                        IsRunning, Task, Loop
  <2> QED
    BY <2>2 DEF Runtime!RuntimeNext, Runtime!Start
<1>3. CASE StartAcquire(p)
  <2>1. /\ stage'[p] = "acquiring" /\ cancelled'[p] = cancelled[p] /\ ~cancelled[p]
        /\ call'[p] = "starting" /\ call[p] \notin {"starting", "stopping"}
        /\ failed'[p] = failed[p]
        /\ stage[p] = "idle" \/ (stage[p] = "finished" /\ ~failed[p])
    BY <1>3 DEF StartAcquire, Restartable, Reply, Become, TypeOK, Free
  <2>2. Runtime!StartBegun
    <3>1. Runtime!Taken
      BY <2>1 DEF Runtime!Taken, Runtime!Clear, Task, Loop
    <3> QED
      BY <2>1, <3>1 DEF Runtime!StartBegun, Runtime!Busy, Runtime!EndedWell, Runtime!Reply,
                        IsRunning, Task, Loop
  <2> QED
    BY <2>2 DEF Runtime!RuntimeNext, Runtime!Start
<1>4. CASE Acquired(p)
  <2>1. /\ stage'[p] = "deciding" /\ cancelled'[p] = cancelled[p] /\ failed'[p] = failed[p]
        /\ call'[p] = "ok" /\ call[p] = "starting" /\ stage[p] = "acquiring"
    BY <1>4 DEF Acquired, Reply, Become, TypeOK
  <2>2. Runtime!Started
    BY <2>1 DEF Runtime!Started, Runtime!Reply, IsRunning, Task, Loop
  <2> QED
    BY <2>2 DEF Runtime!RuntimeNext, Runtime!Progress
<1>5. CASE NotAcquired(p)
  <2>1. /\ stage'[p] = "idle" /\ cancelled'[p] = cancelled[p] /\ failed'[p] = failed[p]
        /\ call'[p] = "error" /\ call[p] = "starting" /\ stage[p] = "acquiring"
    BY <1>5 DEF NotAcquired, Reply, Become, TypeOK
  <2>2. Runtime!NotStarted
    BY <2>1 DEF Runtime!NotStarted, Runtime!Reply, IsRunning, Task, Loop
  <2> QED
    BY <2>2 DEF Runtime!RuntimeNext, Runtime!Progress
<1> QED
  BY <1>1, <1>2, <1>3, <1>4, <1>5 DEF Start

\* The stages of stop.
LEMMA StopImplements ==
  ASSUME TypeOK, Mapped(Anyone), Stop(Anyone)
  PROVE  Runtime!RuntimeNext
<1> DEFINE p == Anyone
<1> USE DEF Mapped
<1>1. CASE StopNothing(p)
  <2>1. /\ stage'[p] = "idle" /\ stage[p] = "idle" /\ cancelled'[p] = cancelled[p]
        /\ failed'[p] = failed[p]
        /\ call'[p] = "ok" /\ call[p] \notin {"starting", "stopping"}
    BY <1>1 DEF StopNothing, Reply, TypeOK, Free
  <2>2. Runtime!StopNothing
    BY <2>1 DEF Runtime!StopNothing, Runtime!Busy, Runtime!Reply, IsRunning, Task, Loop
  <2> QED
    BY <2>2 DEF Runtime!RuntimeNext, Runtime!Stop
<1>2. CASE StopTask(p)
  <2>1. /\ stage'[p] = stage[p] /\ stage[p] \in Task /\ cancelled'[p] = TRUE
        /\ failed'[p] = failed[p]
        /\ call'[p] = "stopping" /\ call[p] \notin {"starting", "stopping"}
    BY <1>2 DEF StopTask, Reply, TypeOK, Free
  <2>2. Runtime!StopBegun
    BY <2>1 DEF Runtime!StopBegun, Runtime!Busy, Runtime!Reply, IsRunning
  <2> QED
    BY <2>2 DEF Runtime!RuntimeNext, Runtime!Stop
<1>3. CASE Stopped(p)
  <2>1. /\ stage'[p] = "idle" /\ stage[p] = "finished" /\ cancelled'[p] = FALSE
        /\ failed'[p] = FALSE /\ call[p] = "stopping"
        /\ call'[p] = IF failed[p] THEN "error" ELSE "ok"
    BY <1>3 DEF Stopped, Reply, Become, TypeOK
  <2>2. Runtime!Stopped
    <3>1. Runtime!Taken
      BY <2>1 DEF Runtime!Taken, Runtime!Clear, Task, Loop
    <3> QED
      BY <2>1, <3>1 DEF Runtime!Stopped, Runtime!Reply, IsRunning, Task, Loop
  <2> QED
    BY <2>2 DEF Runtime!RuntimeNext, Runtime!Progress
<1> QED
  BY <1>1, <1>2, <1>3 DEF Stop

\* The loop: what it does between its spawn and its return is nobody's concern.
LEMMA LoopImplements ==
  ASSUME TypeOK, Mapped(Anyone), LoopStep(Anyone)
  PROVE  Runtime!RuntimeNext \/ UNCHANGED Runtime!runtimeVars
<1> DEFINE p == Anyone
<1> USE DEF Mapped
<1>1. CASE DecideError(p) \/ Release(p) \/ ReleaseError(p)
  <2>1. /\ stage'[p] = "returning" /\ stage[p] \in Loop /\ cancelled'[p] = cancelled[p]
        /\ failed'[p] = failed[p] \/ failed'[p] = TRUE
        /\ call'[p] = call[p]
    BY <1>1 DEF DecideError, Release, ReleaseError, Become, TypeOK, Loop
  <2>2. Runtime!Returned("task")
    <3>1. IsRunning(p)' = FALSE /\ stage[p] \in Task /\ stage'[p] \in Task /\ stage'[p] \notin Loop
      BY <2>1 DEF IsRunning, Task, Loop
    <3> QED
      BY <2>1, <3>1 DEF Runtime!Returned
  <2> QED
    BY <2>2 DEF Runtime!RuntimeNext, Runtime!LoopStep
<1>2. CASE Finish(p)
  <2>1. /\ stage'[p] = "finished" /\ stage[p] = "returning" /\ cancelled'[p] = cancelled[p]
        /\ failed'[p] = failed[p] /\ call'[p] = call[p]
    BY <1>2 DEF Finish, MoveTo, Become, TypeOK
  <2>2. Runtime!Finished("task")
    BY <2>1 DEF Runtime!Finished, IsRunning, Task, Loop
  <2> QED
    BY <2>2 DEF Runtime!RuntimeNext, Runtime!LoopStep
<1>3. CASE \/ DecideEnd(p) \/ DecidePoll(p) \/ PollRenewing(p) \/ PollFresh(p) \/ RenewalLost(p)
           \/ IterationFailed(p) \/ EvaluationCancelled(p) \/ EvaluationDone(p)
           \/ ApplyUnderLease(p) \/ Applied(p) \/ WaitCancelled(p) \/ WaitOver(p)
  <2>1. /\ stage'[p] \in Loop /\ stage[p] \in Loop /\ cancelled'[p] = cancelled[p]
        /\ failed'[p] = failed[p] /\ call'[p] = call[p]
    BY <1>3 DEF DecideEnd, DecidePoll, PollRenewing, PollFresh, RenewalLost, IterationFailed,
       EvaluationCancelled, EvaluationDone, ApplyUnderLease, Renew, Applied, WaitCancelled,
       WaitOver, MoveTo, Become, TypeOK, Loop
  <2>2. UNCHANGED Runtime!runtimeVars
    BY <2>1 DEF Runtime!runtimeVars, IsRunning, Task
  <2> QED
    BY <2>2
<1> QED
  BY <1>1, <1>2, <1>3 DEF LoopStep

\* A crash loses the runtime; the next life is another process.
LEMMA LifeImplements ==
  ASSUME TypeOK, Mapped(Anyone), Boot(Anyone) \/ Crash(Anyone)
  PROVE  Runtime!RuntimeNext \/ UNCHANGED Runtime!runtimeVars
<1> DEFINE p == Anyone
<1> USE DEF Mapped
<1>1. CASE Boot(p)
  <2>1. /\ stage'[p] = "idle" /\ stage[p] = "absent" /\ cancelled'[p] = cancelled[p]
        /\ failed'[p] = failed[p] /\ call'[p] = call[p]
    BY <1>1 DEF Boot, MoveTo, Become, TypeOK
  <2> QED
    BY <2>1 DEF Runtime!runtimeVars, IsRunning, Task, Loop
<1>2. CASE Crash(p)
  <2>1. /\ stage'[p] = "dead" /\ cancelled'[p] = FALSE /\ failed'[p] = FALSE /\ call'[p] = None
    BY <1>2 DEF Crash, Reply, Become, TypeOK
  <2>2. Runtime!Lost
    <3>1. IsRunning(p)' = FALSE /\ stage'[p] \notin Task /\ stage'[p] \notin Loop
          /\ stage'[p] \notin {"returning", "finished"}
      BY <2>1 DEF IsRunning, Task, Loop
    <3> QED
      BY <2>1, <3>1 DEF Runtime!Lost
  <2> QED
    BY <2>2 DEF Runtime!RuntimeNext
<1> QED
  BY <1>1, <1>2

\* To its controller the task of any process, with its lease, its stages and
\* its failures, is the runtime of SchedulerRuntime: every step of
\* SchedulerWorkload is one of its steps or none (ImplementsRuntime).
THEOREM WorkloadImplementsRuntime ==
  Spec => Runtime!RuntimeInit /\ [][Runtime!RuntimeNext]_Runtime!runtimeVars
<1>1. Init => Runtime!RuntimeInit /\ CancelledByStop
  <2> SUFFICES ASSUME Init PROVE Runtime!RuntimeInit /\ CancelledByStop
    OBVIOUS
  <2>1. CancelledByStop
    BY DEF Init, CancelledByStop
  <2>2. Anyone \in Processes
    BY ProcessAssumption DEF Anyone
  <2>3. /\ stage[Anyone] = "absent" /\ cancelled[Anyone] = FALSE /\ failed[Anyone] = FALSE
        /\ call[Anyone] = None
    BY <2>2 DEF Init
  <2>4. Runtime!RuntimeInit
    <3>1. IsRunning(Anyone) = FALSE /\ stage[Anyone] \notin Task /\ stage[Anyone] \notin Loop
          /\ stage[Anyone] \notin {"returning", "finished"}
      BY <2>3 DEF IsRunning, Task, Loop
    <3> QED
      BY <2>3, <3>1 DEF Runtime!RuntimeInit
  <2> QED
    BY <2>1, <2>4
<1>2. IInv /\ CancelledByStop /\ [Next]_vars => CancelledByStop'
  BY CancelledStep DEF IInv
<1>3. IInv /\ CancelledByStop /\ [Next]_vars => [Runtime!RuntimeNext]_Runtime!runtimeVars
  <2> SUFFICES ASSUME IInv, CancelledByStop, [Next]_vars
               PROVE  Runtime!RuntimeNext \/ UNCHANGED Runtime!runtimeVars
    OBVIOUS
  <2>1. TypeOK /\ Mapped(Anyone)
    BY MappedProcess DEF IInv
  <2>2. ASSUME NEW q \in Processes, Boot(q) \/ Start(q) \/ Stop(q) \/ LoopStep(q) \/ Crash(q)
        PROVE  Runtime!RuntimeNext \/ UNCHANGED Runtime!runtimeVars
    <3>1. CASE q = Anyone
      BY <2>1, <2>2, <3>1, StartImplements, StopImplements, LoopImplements, LifeImplements
    <3>2. CASE q # Anyone
      <4>1. Anyone \in Processes /\ q \in Processes \ {Anyone}
        BY <2>1, <2>2, <3>2 DEF Mapped
      <4>2. SameTask(Anyone)
        BY <2>1, <2>2, <4>1, OthersRest
      <4> QED
        BY <4>2, RestingRuntime
    <3> QED
      BY <3>1, <3>2
  <2>3. CASE PersistDesired \/ Tick \/ UNCHANGED vars
    <3>1. SameTask(Anyone)
      BY <2>3 DEF PersistDesired, Tick, vars, SameTask
    <3> QED
      BY <3>1, RestingRuntime
  <2> QED
    BY <2>2, <2>3 DEF Next
<1> QED
  BY <1>1, <1>2, <1>3, LeaseSoundness, PTL DEF Spec
=============================================================================
