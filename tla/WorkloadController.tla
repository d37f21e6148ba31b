-------------------------- MODULE WorkloadController --------------------------
(***************************************************************************)
(* WorkloadController (admin/workloads.rs): the persisted intent, the      *)
(* in-memory status and the transition lock over the MCP workload          *)
(* (mcp/server.rs) and the scheduler runtime, through one life of the      *)
(* program: start, administrative transitions, maintenance for a restore,  *)
(* and shutdown (main.rs).                                                 *)
(***************************************************************************)
EXTENDS SchedulerRuntime, Sequences, SequencesExt

Components == {"mcp", "scheduler"}
Both == <<"mcp", "scheduler">>
Intents == {"running", "stopped"}
Actions == {"start", "stop", "restart"}

ASSUME NoneIsNothing ==
  None \notin Actions \cup {"starting", "stopping", "ok", "error"}

\* selected_components
Selections == {<<"mcp">>, <<"scheduler">>, Both}

Kinds == {"none", "boot", "transition", "shutdown", "quiesce", "undo",
          "maintenance", "reconcile", "requiesce"}

VARIABLES
  process,   \* "starting", "up", "draining" or "exited"
  desired,   \* service_runtime.desired_state
  status,    \* MutableStatus of each component
  mcp,       \* McpWorkload.running is Some
  op,        \* the operation that holds the transition lock
  dropped    \* history: some transition or restore was dropped with its client

vars == <<runtimeVars, process, desired, status, mcp, op, dropped>>

\* at: where the operation is, and in maintenance, how its last restart went;
\* todo: the components still to be handled; undo: those quiesce has stopped;
\* tries: restarts from persisted intent so far.
Operation ==
  [kind : Kinds, action : Actions \cup {None}, at : {"persisted", "next", "called", "quiet", "restarted", "failed"},
   todo : Seq(Components), undo : Seq(Components), tries : 0 .. 2]

Op(kind, action, todo, undo, tries) ==
  [kind |-> kind, action |-> action, at |-> "next", todo |-> todo, undo |-> undo, tries |-> tries]
Free == Op("none", None, <<>>, <<>>, 0)
Holds(kind) == op.kind = kind
At(where) == op.at = where

IsRunning(c) == IF c = "mcp" THEN mcp ELSE running
Intent(action) == IF action = "stop" THEN "stopped" ELSE "running"
Wished(intent, sel) == [c \in Components |-> IF c \in Range(sel) THEN intent ELSE desired[c]]

Actual(c, a) == status' = [status EXCEPT ![c].actual = a]

-----------------------------------------------------------------------------
(* apply_action on the first component of op.todo. *)

Current == Head(op.todo)

\* Mutant: a start of the program only starts.
ActionOnStarting(c) ==
  CASE op.kind \in {"boot", "reconcile"} ->
         IF status[c].desired = "running" /\ ~IsRunning(c) THEN "start" ELSE None
    [] op.kind \in {"shutdown", "quiesce", "requiesce"} ->
         IF IsRunning(c) THEN "stop" ELSE None
    [] op.kind = "undo" -> "start"
    [] OTHER -> op.action

\* reconcile_component acts only where intent and runtime differ; shutdown,
\* quiesce and quiesce_again only on what runs; undo only starts.
ActionOn(c) ==
  CASE op.kind \in {"boot", "reconcile"} ->
         IF status[c].desired = "running" /\ ~IsRunning(c) THEN "start"
         ELSE IF status[c].desired = "stopped" /\ IsRunning(c) THEN "stop" ELSE None
    [] op.kind \in {"shutdown", "quiesce", "requiesce"} ->
         IF IsRunning(c) THEN "stop" ELSE None
    [] op.kind = "undo" -> "start"
    [] OTHER -> op.action

Applying == op.kind # "none" /\ At("next") /\ op.todo # <<>>

Advance(acted) ==
  op' = [op EXCEPT !.at = "next", !.todo = Tail(@),
                   !.undo = IF op.kind = "quiesce" /\ acted THEN Append(@, Current) ELSE @]

\* Nothing to do: reconciliation notes what runs.
Skipped ==
  /\ Applying
  /\ ActionOn(Current) = None
  /\ Advance(FALSE)
  /\ IF op.kind \in {"boot", "reconcile"}
     THEN Actual(Current, IF IsRunning(Current) THEN "running" ELSE "stopped")
     ELSE UNCHANGED status
  /\ UNCHANGED <<runtimeVars, process, desired, mcp, dropped>>

\* The MCP workload starts and stops at once.
McpApplied ==
  /\ Applying
  /\ Current = "mcp"
  /\ ActionOn("mcp") # None
  /\ mcp' = (ActionOn("mcp") # "stop")
  /\ Actual("mcp", IF mcp' THEN "running" ELSE "stopped")
  /\ Advance(TRUE)
  /\ UNCHANGED <<runtimeVars, process, desired, dropped>>

SchedulerCalled ==
  /\ Applying
  /\ Current = "scheduler"
  /\ ActionOn("scheduler") # None
  /\ IF ActionOn("scheduler") = "start"
     THEN Start /\ Actual("scheduler", "starting")
     ELSE Stop /\ Actual("scheduler", "stopping")
  /\ op' = [op EXCEPT !.at = "called", !.action = ActionOn("scheduler")]
  /\ UNCHANGED <<process, desired, mcp, dropped>>

Answered(r) ==
  /\ At("called")
  /\ call = r

\* The first half of a restart.
SchedulerStoppedToRestart ==
  /\ Answered("ok")
  /\ op.action = "restart"
  /\ status["scheduler"].actual = "stopping"
  /\ Start
  /\ Actual("scheduler", "starting")
  /\ UNCHANGED <<process, desired, mcp, op, dropped>>

\* Mutant: only a start is noted as running.
SchedulerAppliedMisnoted ==
  /\ Answered("ok")
  /\ ~(op.action = "restart" /\ status["scheduler"].actual = "stopping")
  /\ Actual("scheduler", IF op.action = "start" THEN "running" ELSE "stopped")
  /\ Advance(TRUE)
  /\ UNCHANGED <<runtimeVars, process, desired, mcp, dropped>>

SchedulerApplied ==
  /\ Answered("ok")
  /\ ~(op.action = "restart" /\ status["scheduler"].actual = "stopping")
  /\ Actual("scheduler", IF op.action = "stop" THEN "stopped" ELSE "running")
  /\ Advance(TRUE)
  /\ UNCHANGED <<runtimeVars, process, desired, mcp, dropped>>

Maintenance(at) == [Op("maintenance", None, <<>>, <<>>, op.tries) EXCEPT !.at = at]

\* Mutant: a failed restart passes for a maintenance that is still quiet.
AfterFailureQuiet ==
  CASE op.kind = "quiesce" -> Op("undo", None, Reverse(op.undo), <<>>, 0)
    [] op.kind \in {"reconcile", "requiesce"} -> Maintenance("quiet")
    [] OTHER -> Free

\* What an error leaves of its operation: quiesce starts again what it stopped,
\* last first; within maintenance the restore decides; elsewhere it is the end.
AfterFailure ==
  CASE op.kind = "quiesce" -> Op("undo", None, Reverse(op.undo), <<>>, 0)
    [] op.kind = "reconcile" -> Maintenance("failed")
    [] op.kind = "requiesce" -> Maintenance("quiet")
    [] OTHER -> Free

\* start and shutdown hand the error to main, which ends the program.
SchedulerFailed ==
  /\ Answered("error")
  /\ Actual("scheduler", "failed")
  /\ op' = AfterFailure
  /\ process' = IF op.kind \in {"boot", "shutdown"} THEN "exited" ELSE process
  /\ UNCHANGED <<runtimeVars, desired, mcp, dropped>>

-----------------------------------------------------------------------------
(* The operations: how each begins and ends. *)

\* refresh_runtime_state: a status read finds what has exited by itself.
Refreshed ==
  [c \in Components |->
     IF status[c].actual = "running" /\ ~IsRunning(c)
     THEN [status[c] EXCEPT !.actual = "failed"] ELSE status[c]]

StatusRead ==
  /\ process = "up"
  /\ status' = Refreshed
  /\ UNCHANGED <<runtimeVars, process, desired, mcp, op, dropped>>

Done(kind) == Holds(kind) /\ At("next") /\ op.todo = <<>>

BootDone ==
  /\ Done("boot")
  /\ process' = "up"
  /\ op' = Free
  /\ UNCHANGED <<runtimeVars, desired, status, mcp, dropped>>

\* try_lock, then one transaction over the selected rows.
TransitionPersisted(sel, action) ==
  /\ process = "up"
  /\ Holds("none")
  /\ desired' = Wished(Intent(action), sel)
  /\ op' = [Op("transition", action, sel, <<>>, 0) EXCEPT !.at = "persisted"]
  /\ UNCHANGED <<runtimeVars, process, status, mcp, dropped>>

TransitionNoted ==
  /\ At("persisted")
  /\ status' = [c \in Components |->
                  IF c \in Range(op.todo)
                  THEN [status[c] EXCEPT !.desired = Intent(op.action)] ELSE status[c]]
  /\ op' = [op EXCEPT !.at = "next"]
  /\ UNCHANGED <<runtimeVars, process, desired, mcp, dropped>>

TransitionDone ==
  /\ Done("transition")
  /\ status' = Refreshed
  /\ op' = Free
  /\ UNCHANGED <<runtimeVars, process, desired, mcp, dropped>>

\* The listener has drained its requests.
ShutdownBegun ==
  /\ process = "up"
  /\ Holds("none")
  /\ process' = "draining"
  /\ op' = Op("shutdown", None, Both, <<>>, 0)
  /\ UNCHANGED <<runtimeVars, desired, status, mcp, dropped>>

ShutdownDone ==
  /\ Done("shutdown")
  /\ process' = "exited"
  /\ op' = Free
  /\ UNCHANGED <<runtimeVars, desired, status, mcp, dropped>>

-----------------------------------------------------------------------------
(* Maintenance, as RestoreManager uses it. *)

QuiesceBegun ==
  /\ process = "up"
  /\ Holds("none")
  /\ op' = Op("quiesce", None, Both, <<>>, 0)
  /\ UNCHANGED <<runtimeVars, process, desired, status, mcp, dropped>>

QuiesceDone ==
  /\ Done("quiesce") \/ Done("requiesce")
  /\ op' = Maintenance("quiet")
  /\ UNCHANGED <<runtimeVars, process, desired, status, mcp, dropped>>

\* The failed quiescence has started again what it could.
UndoDone ==
  /\ Done("undo")
  /\ op' = Free
  /\ UNCHANGED <<runtimeVars, process, desired, status, mcp, dropped>>

\* Another database takes the place of the live one, with its own intent.
DatabaseReplaced ==
  /\ Holds("maintenance") /\ At("quiet")
  /\ desired' \in [Components -> Intents]
  /\ UNCHANGED <<runtimeVars, process, status, mcp, op, dropped>>

\* Mutant: reconciles from the intent in memory.
RestartFromMemory ==
  /\ Holds("maintenance") /\ At("quiet") /\ op.tries < 2
  /\ op' = Op("reconcile", None, Both, <<>>, op.tries + 1)
  /\ UNCHANGED <<runtimeVars, process, desired, status, mcp, dropped>>

\* restart_from_persisted: once for the candidate, once for the rollback.
RestartFromPersisted ==
  /\ Holds("maintenance") /\ At("quiet") /\ op.tries < 2
  /\ status' = [c \in Components |-> [status[c] EXCEPT !.desired = desired[c]]]
  /\ op' = Op("reconcile", None, Both, <<>>, op.tries + 1)
  /\ UNCHANGED <<runtimeVars, process, desired, mcp, dropped>>

\* Mutant: counts the attempt once more.
ReconcileDoneCounting ==
  /\ Done("reconcile")
  /\ status' = Refreshed
  /\ op' = [Maintenance("restarted") EXCEPT !.tries = @ + 1]
  /\ UNCHANGED <<runtimeVars, process, desired, mcp, dropped>>

ReconcileDone ==
  /\ Done("reconcile")
  /\ status' = Refreshed
  /\ op' = Maintenance("restarted")
  /\ UNCHANGED <<runtimeVars, process, desired, mcp, dropped>>

\* quiesce_again, before the rollback of a failed completion.
QuiesceAgain ==
  /\ Holds("maintenance") /\ At("failed") /\ op.tries = 1
  /\ op' = Op("requiesce", None, Both, <<>>, op.tries)
  /\ UNCHANGED <<runtimeVars, process, desired, status, mcp, dropped>>

\* The restore answers, and drops the maintenance with its lock.
MaintenanceDone ==
  /\ Holds("maintenance")
  /\ op' = Free
  /\ UNCHANGED <<runtimeVars, process, desired, status, mcp, dropped>>

\* The client of a transition or a restore has gone, and the server drops the
\* handler at the call it waits in.
Dropped ==
  /\ op.kind \notin {"none", "boot", "shutdown"}
  /\ op' = Free
  /\ dropped' = TRUE
  /\ IF Busy THEN Abandoned ELSE UNCHANGED runtimeVars
  /\ UNCHANGED <<process, desired, status, mcp>>

-----------------------------------------------------------------------------
\* McpWorkload::new has started it; the intent is whatever the last life left.
Init ==
  /\ RuntimeInit
  /\ process = "starting"
  /\ desired \in [Components -> Intents]
  /\ mcp = TRUE
  /\ status = [c \in Components |->
                 [desired |-> desired[c], actual |-> IF IsRunning(c) THEN "running" ELSE "stopped"]]
  /\ op = Op("boot", None, Both, <<>>, 0)
  /\ dropped = FALSE

Runtime == /\ process # "exited"
           /\ Progress \/ \E s \in Slots : LoopStep(s)
           /\ UNCHANGED <<process, desired, status, mcp, op, dropped>>

Apply == \/ Skipped \/ McpApplied \/ SchedulerCalled \/ SchedulerStoppedToRestart
         \/ SchedulerApplied \/ SchedulerFailed
Operate == \/ BootDone \/ TransitionNoted \/ TransitionDone \/ ShutdownDone
           \/ QuiesceDone \/ UndoDone \/ ReconcileDone \/ QuiesceAgain \/ MaintenanceDone

Next ==
  \/ \E sel \in Selections, action \in Actions : TransitionPersisted(sel, action)
  \/ ShutdownBegun \/ QuiesceBegun
  \/ Apply \/ Operate \/ RestartFromPersisted \/ DatabaseReplaced
  \/ Runtime \/ StatusRead \/ Dropped

Spec == Init /\ [][Next]_vars

\* The runtime drives the controller's calls and the loop of a cancelled task.
FairSpec ==
  /\ Spec
  /\ WF_vars(Apply \/ Operate)
  /\ WF_vars(Progress /\ Runtime)
  /\ \A s \in Slots : WF_vars(Unwinds(s) /\ Runtime)

-----------------------------------------------------------------------------
(* Properties. *)

\* Every variable has the type of its row, field or handle.
TypeOK ==
  /\ RuntimeTypeOK
  /\ process \in {"starting", "up", "draining", "exited"}
  /\ desired \in [Components -> Intents]
  /\ status \in [Components -> [desired : Intents,
                    actual : {"starting", "running", "stopping", "stopped", "failed"}]]
  /\ mcp \in BOOLEAN
  /\ op \in Operation
  /\ dropped \in BOOLEAN

Polling == \E s \in Slots : loop[s] \in {"looping", "released"}

\* While a restore holds the workloads quiesced, neither serves nor polls: also
\* when a stop failed, a loop ended by itself, or the restart of the first
\* attempt failed half-way (SPEC 404, quiesce_again).
MaintenanceQuiet ==
  Holds("maintenance") /\ At("quiet") /\ ~dropped => ~mcp /\ ~Polling

\* When no operation is in progress, what runs is reported as running, and
\* nothing is reported as on its way ("truthful in-memory lifecycle state").
SettledTrue ==
  Holds("none") /\ process = "up" /\ ~dropped =>
    \A c \in Components :
      /\ status[c].actual \in {"running", "stopped", "failed"}
      /\ IsRunning(c) => status[c].actual = "running"

\* When no operation is in progress, a workload whose persisted intent is
\* stopped does not run: through failed transitions, boots and restores that
\* bring an intent of their own.
StoppedMeansStopped ==
  Holds("none") /\ ~dropped =>
    /\ desired["mcp"] = "stopped" => ~mcp
    /\ desired["scheduler"] = "stopped" => ~Polling

\* A restore whose restart succeeded leaves the intent of the database it
\* installed in memory and in force (restart_from_persisted).
RestoreHonoursIntent ==
  [][Holds("maintenance") /\ At("restarted") /\ op' = Free =>
       \A c \in Components :
         /\ status'[c].desired = desired'[c]
         /\ desired'[c] = "stopped" => status'[c].actual = "stopped"]_vars

\* Every operation ends: none waits for a lock, a loop or a call for ever.
OperationsEnd == op.kind # "none" ~> op.kind = "none"
=============================================================================
