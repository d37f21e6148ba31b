----------------------- MODULE WorkloadControllerProofs -----------------------
(***************************************************************************)
(* Proofs about WorkloadController for any number of loops alive at once.  *)
(*                                                                         *)
(* The argument: an operation works its components off in order, and those *)
(* still to be handled are the only ones whose intent may be ahead of what *)
(* runs (IntentInv); while nothing was dropped, every loop has its handle, *)
(* and an answered stop, or an error, leaves none (OwnedInv, CalledInv).   *)
(***************************************************************************)
EXTENDS WorkloadController, SequenceTheorems, TLAPS

Todos == {<<>>, <<"mcp">>, <<"scheduler">>, Both}
Places == {"persisted", "next", "called", "quiet", "restarted", "failed"}
Actuals == {"starting", "running", "stopping", "stopped", "failed"}
Loops == {"free", "looping", "released", "ended", "finished"}

\* What is handled, and what is still to be handled, in each kind of operation.
OpShape ==
  /\ op \in [kind : Kinds, action : Actions \cup {None}, at : Places,
             todo : Todos, undo : Todos, tries : 0 .. 2]
  /\ Holds("none") => At("next") /\ op.todo = <<>>
  /\ Holds("maintenance") <=> op.at \in {"quiet", "restarted", "failed"}
  /\ Holds("maintenance") => op.todo = <<>>
  /\ Holds("transition") => op.action \in Actions
  /\ At("persisted") => Holds("transition") /\ op.todo # <<>>
  /\ Holds("undo") => At("next") /\ op.todo \in {<<>>, <<"mcp">>}
  /\ Holds("quiesce") =>
       /\ op.todo # <<"mcp">>
       /\ op.todo = Both => op.undo = <<>>
       /\ op.todo = <<"scheduler">> => op.undo \in {<<>>, <<"mcp">>}
  /\ At("called") =>
       /\ op.todo = <<"scheduler">>
       /\ op.action \in Actions
       /\ op.kind \in {"quiesce", "requiesce", "shutdown"} => op.action = "stop"
       /\ op.kind \in {"boot", "reconcile"} => op.action # "restart"

\* A stop in progress awaits the loop of its handle.
RuntimeTyped == RuntimeTypeOK /\ (call = "stopping" => handle # None)

Typed ==
  /\ RuntimeTyped
  /\ process \in {"starting", "up", "draining", "exited"}
  /\ desired \in [Components -> Intents]
  /\ status \in [Components -> [desired : Intents, actual : Actuals]]
  /\ mcp \in BOOLEAN
  /\ OpShape
  /\ dropped \in BOOLEAN

-----------------------------------------------------------------------------
(* The short sequences of components. *)

\* Their heads, tails, extensions and reversals.
LEMMA Short ==
  /\ Head(Both) = "mcp" /\ Tail(Both) = <<"scheduler">>
  /\ Head(<<"mcp">>) = "mcp" /\ Tail(<<"mcp">>) = <<>>
  /\ Head(<<"scheduler">>) = "scheduler" /\ Tail(<<"scheduler">>) = <<>>
  /\ Append(<<>>, "mcp") = <<"mcp">> /\ Append(<<>>, "scheduler") = <<"scheduler">>
  /\ Append(<<"mcp">>, "scheduler") = Both
  /\ Reverse(<<>>) = <<>> /\ Reverse(<<"mcp">>) = <<"mcp">>
<1>1. Head(Both) = "mcp"
  BY DEF Both
<1>2. Tail(Both) = <<"scheduler">>
  BY DEF Both
<1>3. Head(<<"mcp">>) = "mcp" /\ Head(<<"scheduler">>) = "scheduler"
  OBVIOUS
<1>4. Tail(<<"mcp">>) = <<>> /\ Tail(<<"scheduler">>) = <<>>
  OBVIOUS
<1>5. Append(<<>>, "mcp") = <<"mcp">> /\ Append(<<>>, "scheduler") = <<"scheduler">>
  OBVIOUS
<1>6. Append(<<"mcp">>, "scheduler") = Both
  <2> DEFINE s == Append(<<"mcp">>, "scheduler")
  <2>1. "mcp" \in Components /\ "scheduler" \in Components
    BY DEF Components
  <2>2. <<"mcp">> \in Seq(Components)
    BY <2>1
  <2>3. /\ s \in Seq(Components)
        /\ Len(s) = Len(<<"mcp">>) + 1
        /\ \A i \in 1 .. Len(<<"mcp">>) : s[i] = <<"mcp">>[i]
        /\ s[Len(<<"mcp">>) + 1] = "scheduler"
    BY <2>1, <2>2, AppendProperties
  <2>4. Len(<<"mcp">>) = 1 /\ <<"mcp">>[1] = "mcp"
    OBVIOUS
  <2>5. <<"mcp", "scheduler">> \in Seq(Components) /\ Len(<<"mcp", "scheduler">>) = 2
    BY <2>1
  <2>6. \A i \in 1 .. Len(s) : s[i] = <<"mcp", "scheduler">>[i]
    BY <2>3, <2>4
  <2>7. s \in Seq(Components) /\ Len(s) = Len(<<"mcp", "scheduler">>)
    BY <2>3, <2>4, <2>5
  <2>8. s = <<"mcp", "scheduler">>
    <3> HIDE DEF s
    <3> QED
      BY <2>5, <2>6, <2>7, SeqEqual, Zenon
  <2> QED
    BY <2>8 DEF Both
<1>7. Reverse(<<>>) = <<>> /\ Reverse(<<"mcp">>) = <<"mcp">>
  BY DEF Reverse
<1> QED
  BY <1>1, <1>2, <1>3, <1>4, <1>5, <1>6, <1>7

\* They differ.
LEMMA Distinct ==
  /\ <<"mcp">> # <<>> /\ <<"scheduler">> # <<>> /\ Both # <<>>
  /\ <<"mcp">> # <<"scheduler">> /\ <<"mcp">> # Both /\ <<"scheduler">> # Both
<1>1. <<"mcp">> # <<>> /\ <<"scheduler">> # <<>>
  OBVIOUS
<1>2. Both # <<>>
  BY DEF Both
<1>3. <<"mcp">> # <<"scheduler">>
  OBVIOUS
<1>4. <<"mcp">> # Both /\ <<"scheduler">> # Both
  BY DEF Both
<1> QED
  BY <1>1, <1>2, <1>3, <1>4

\* Who is left in each of them (Range).
LEMMA Members ==
  /\ Range(<<>>) = {} /\ Range(<<"mcp">>) = {"mcp"} /\ Range(<<"scheduler">>) = {"scheduler"}
  /\ Range(Both) = Components
<1>1. Range(<<>>) = {} /\ Range(<<"mcp">>) = {"mcp"} /\ Range(<<"scheduler">>) = {"scheduler"}
  BY DEF Range
<1>2. DOMAIN Both = {1, 2} /\ Both[1] = "mcp" /\ Both[2] = "scheduler"
  BY DEF Both
<1> QED
  BY <1>1, <1>2 DEF Range, Components

\* An Op is a record of its arguments.
LEMMA OpFields ==
  ASSUME NEW kind \in Kinds, NEW action \in Actions \cup {None}, NEW todo \in Todos,
         NEW undo \in Todos, NEW tries \in 0 .. 2
  PROVE  /\ Op(kind, action, todo, undo, tries)
              \in [kind : Kinds, action : Actions \cup {None}, at : Places,
                   todo : Todos, undo : Todos, tries : 0 .. 2]
         /\ Op(kind, action, todo, undo, tries).kind = kind
         /\ Op(kind, action, todo, undo, tries).action = action
         /\ Op(kind, action, todo, undo, tries).at = "next"
         /\ Op(kind, action, todo, undo, tries).todo = todo
         /\ Op(kind, action, todo, undo, tries).undo = undo
         /\ Op(kind, action, todo, undo, tries).tries = tries
  BY DEF Op, Places

-----------------------------------------------------------------------------
(* Types. *)

\* Freeing a loop keeps the types.
LEMMA ClearTyped ==
  ASSUME RuntimeTypeOK, NEW s \in Slots, Clear(s)
  PROVE  /\ loop' \in [Slots -> Loops] /\ cancelled' \in [Slots -> BOOLEAN]
         /\ failed' \in [Slots -> BOOLEAN]
  BY DEF RuntimeTypeOK, Clear, Loops

\* So does taking the handle.
LEMMA TakenTyped ==
  ASSUME RuntimeTypeOK, Taken
  PROVE  /\ loop' \in [Slots -> Loops] /\ cancelled' \in [Slots -> BOOLEAN]
         /\ failed' \in [Slots -> BOOLEAN] /\ handle' = None
<1>1. CASE handle = None
  BY <1>1 DEF Taken, RuntimeTypeOK, Loops
<1>2. CASE handle # None
  BY <1>2, ClearTyped DEF Taken, RuntimeTypeOK
<1> QED
  BY <1>1, <1>2

\* Every step of the runtime keeps its types.
LEMMA RuntimeStep ==
  ASSUME RuntimeTyped,
         Start \/ Stop \/ Progress \/ Abandoned \/ (\E s \in Slots : LoopStep(s)) \/ UNCHANGED runtimeVars
  PROVE  RuntimeTyped'
<1> USE DEF Loops, Reply
<1>1. CASE StartAlready \/ UNCHANGED runtimeVars
  BY <1>1 DEF StartAlready, runtimeVars, RuntimeTyped, RuntimeTypeOK
<1>2. CASE StartRefused \/ StartBegun
  <2>1. Taken /\ call' \in {"error", "starting"} /\ running' = running
    BY <1>2 DEF StartRefused, StartBegun
  <2> QED
    BY <2>1, TakenTyped, NoneIsNothing DEF RuntimeTyped, RuntimeTypeOK
<1>3. CASE Stop
  BY <1>3 DEF Stop, StopNothing, StopBegun, RuntimeTyped, RuntimeTypeOK
<1>4. CASE Started \/ NotStarted
  BY <1>4 DEF Started, NotStarted, RuntimeTyped, RuntimeTypeOK
<1>5. CASE Stopped
  <2>1. Taken /\ call' \in {"error", "ok"} /\ running' = FALSE
    BY <1>5 DEF Stopped
  <2> QED
    BY <2>1, TakenTyped, NoneIsNothing DEF RuntimeTyped, RuntimeTypeOK
<1>6. CASE Abandoned
  <2>1. /\ call' = None
        /\ handle' \in {None, handle}
        /\ running' = running
        /\ (handle \in Slots /\ Clear(handle)) \/ UNCHANGED <<loop, cancelled, failed>>
    BY <1>6 DEF Abandoned, RuntimeTyped, RuntimeTypeOK
  <2>2. CASE handle \in Slots /\ Clear(handle)
    BY <2>1, <2>2, ClearTyped, NoneIsNothing DEF RuntimeTyped, RuntimeTypeOK
  <2>3. CASE UNCHANGED <<loop, cancelled, failed>>
    BY <2>1, <2>3, NoneIsNothing DEF RuntimeTyped, RuntimeTypeOK
  <2> QED
    BY <2>1, <2>2, <2>3
<1>7. ASSUME NEW s \in Slots, LoopStep(s) PROVE RuntimeTyped'
  <2>1. CASE Released(s) \/ Returned(s)
    BY <2>1 DEF Released, Returned, RuntimeTyped, RuntimeTypeOK
  <2>2. CASE Finished(s)
    <3>1. CASE s = handle
      BY <2>2, <3>1 DEF Finished, RuntimeTyped, RuntimeTypeOK
    <3>2. CASE s # handle
      BY <2>2, <3>2, ClearTyped DEF Finished, RuntimeTyped, RuntimeTypeOK
    <3> QED
      BY <3>1, <3>2
  <2> QED
    BY <1>7, <2>1, <2>2 DEF LoopStep
<1> QED
  BY <1>1, <1>2, <1>3, <1>4, <1>5, <1>6, <1>7 DEF Start, Progress

\* Noting an actual state touches nothing else.
LEMMA ActualFields ==
  ASSUME Typed, NEW c \in Components, NEW a \in Actuals, Actual(c, a)
  PROVE  /\ status' \in [Components -> [desired : Intents, actual : Actuals]]
         /\ status'[c].actual = a
         /\ \A d \in Components : status'[d].desired = status[d].desired
         /\ \A d \in Components : d # c => status'[d].actual = status[d].actual
  BY DEF Typed, Actual

\* A status read only finds what has exited (Refreshed).
LEMMA RefreshedFields ==
  ASSUME Typed
  PROVE  /\ Refreshed \in [Components -> [desired : Intents, actual : Actuals]]
         /\ \A c \in Components :
              /\ Refreshed[c].desired = status[c].desired
              /\ status[c].actual = "running" /\ ~IsRunning(c) => Refreshed[c].actual = "failed"
              /\ ~(status[c].actual = "running" /\ ~IsRunning(c)) =>
                   Refreshed[c].actual = status[c].actual
  BY DEF Typed, Refreshed, Actuals

\* The fields of an operation.
LEMMA Fields ==
  ASSUME Typed
  PROVE  /\ op.kind \in Kinds /\ op.action \in Actions \cup {None} /\ op.at \in Places
         /\ op.todo \in Todos /\ op.undo \in Todos /\ op.tries \in 0 .. 2
  BY DEF Typed, OpShape

\* The first of the components still to be handled.
LEMMA First ==
  ASSUME Typed, op.todo # <<>>
  PROVE  /\ Current \in Components
         /\ op.todo \in {<<"mcp">>, Both} => Current = "mcp"
         /\ op.todo = <<"scheduler">> <=> Current = "scheduler"
         /\ Tail(op.todo) \in {<<>>, <<"scheduler">>}
         /\ op.todo = Both <=> Tail(op.todo) = <<"scheduler">>
         /\ Range(Tail(op.todo)) = Range(op.todo) \ {Current}
         /\ Current \in Range(op.todo)
<1>1. op.todo \in Todos
  BY Fields
<1>2. CASE op.todo = <<"mcp">>
  BY <1>2, Short, Distinct, Members DEF Current, Components
<1>3. CASE op.todo = <<"scheduler">>
  BY <1>3, Short, Distinct, Members DEF Current, Components
<1>4. CASE op.todo = Both
  BY <1>4, Short, Distinct, Members DEF Current, Components
<1> QED
  BY <1>1, <1>2, <1>3, <1>4 DEF Todos

\* What Advance leaves of the operation.
LEMMA AdvanceFields ==
  ASSUME Typed, op.todo # <<>>, NEW acted \in BOOLEAN, Advance(acted)
  PROVE  /\ op'.kind = op.kind /\ op'.action = op.action /\ op'.at = "next"
         /\ op'.tries = op.tries /\ op'.todo = Tail(op.todo)
         /\ op'.undo = IF op.kind = "quiesce" /\ acted THEN Append(op.undo, Current) ELSE op.undo
         /\ op' = [kind |-> op'.kind, action |-> op'.action, at |-> op'.at, todo |-> op'.todo,
                   undo |-> op'.undo, tries |-> op'.tries]
  BY DEF Typed, OpShape, Advance

\* Advance keeps the shape of every operation but maintenance, which has no todo.
LEMMA AdvanceShape ==
  ASSUME Typed, op.todo # <<>>, NEW acted \in BOOLEAN, Advance(acted)
  PROVE  OpShape'
<1>1. op.todo \in Todos /\ op.undo \in Todos /\ ~Holds("none") /\ ~Holds("maintenance")
  BY DEF Typed, OpShape
<1>2. op'.todo \in Todos /\ (op.todo = Both <=> op'.todo = <<"scheduler">>) /\ op'.todo \in {<<>>, <<"scheduler">>}
  BY First, AdvanceFields DEF Todos
<1>3. op'.undo \in Todos /\ (op.todo = Both /\ Holds("quiesce") => op'.undo \in {<<>>, <<"mcp">>})
  <2>1. CASE ~(op.kind = "quiesce" /\ acted)
    BY <1>1, <2>1, AdvanceFields DEF Typed, OpShape, Holds
  <2>2. CASE op.kind = "quiesce" /\ acted
    <3>1. op'.undo = Append(op.undo, Current)
      BY <2>2, AdvanceFields
    <3>2. CASE op.todo = Both
      <4>1. op.undo = <<>> /\ Current = "mcp"
        BY <2>2, <3>2, First DEF Typed, OpShape, Holds
      <4> QED
        BY <3>1, <4>1, Short DEF Todos
    <3>3. CASE op.todo = <<"scheduler">>
      <4>1. op.undo \in {<<>>, <<"mcp">>} /\ Current = "scheduler"
        BY <2>2, <3>3, First DEF Typed, OpShape, Holds
      <4> QED
        BY <3>1, <3>3, <4>1, Short, Distinct DEF Todos
    <3>4. op.todo = Both \/ op.todo = <<"scheduler">>
      BY <1>1, <2>2 DEF Typed, OpShape, Holds, Todos
    <3> QED
      BY <3>2, <3>3, <3>4
  <2> QED
    BY <2>1, <2>2
<1>4. op' \in [kind : Kinds, action : Actions \cup {None}, at : Places,
               todo : Todos, undo : Todos, tries : 0 .. 2]
  BY <1>2, <1>3, Fields, AdvanceFields DEF Places
<1>5. op'.kind = op.kind /\ op'.action = op.action /\ op'.at = "next"
  BY AdvanceFields
<1>6. Holds("undo") => op'.todo = <<>>
  BY <1>1, First, AdvanceFields, Distinct DEF Typed, OpShape, Holds
<1> QED
  BY <1>1, <1>2, <1>3, <1>4, <1>5, <1>6, Distinct DEF Typed, OpShape, Holds, At

\* So has a new operation.
LEMMA NewShape ==
  ASSUME NEW kind \in Kinds \ {"maintenance"}, NEW action \in Actions \cup {None},
         NEW todo \in Todos, NEW tries \in 0 .. 2, op' = Op(kind, action, todo, <<>>, tries),
         kind = "none" => todo = <<>>, kind = "transition" => action \in Actions,
         kind = "undo" => todo \in {<<>>, <<"mcp">>}, kind = "quiesce" => todo = Both
  PROVE  OpShape'
<1>1. <<>> \in Todos
  BY DEF Todos
<1>2. /\ op' \in [kind : Kinds, action : Actions \cup {None}, at : Places,
                  todo : Todos, undo : Todos, tries : 0 .. 2]
      /\ op'.kind = kind /\ op'.action = action /\ op'.at = "next" /\ op'.todo = todo
      /\ op'.undo = <<>>
  BY <1>1, OpFields
<1> QED
  BY <1>2, Distinct DEF OpShape, Holds, At

\* And maintenance.
LEMMA MaintenanceFields ==
  ASSUME Typed, NEW at \in {"quiet", "restarted", "failed"}, op' = Maintenance(at)
  PROVE  /\ OpShape'
         /\ op'.kind = "maintenance" /\ op'.at = at /\ op'.todo = <<>>
<1>1. op.tries \in 0 .. 2 /\ <<>> \in Todos /\ "maintenance" \in Kinds
  BY Fields DEF Todos, Kinds
<1>2. op' = [kind |-> "maintenance", action |-> None, at |-> at, todo |-> <<>>, undo |-> <<>>,
             tries |-> op.tries]
  BY DEF Maintenance, Op
<1> QED
  BY <1>1, <1>2 DEF OpShape, Holds, At, Places

\* A free lock.
LEMMA FreeShape ==
  ASSUME op' = Free
  PROVE  /\ OpShape'
         /\ op'.kind = "none" /\ op'.at = "next" /\ op'.todo = <<>>
<1>1. "none" \in Kinds \ {"maintenance"} /\ <<>> \in Todos /\ 0 \in 0 .. 2 /\ op' = Op("none", None, <<>>, <<>>, 0)
  BY DEF Kinds, Todos, Free
<1>2. op'.kind = "none" /\ op'.at = "next" /\ op'.todo = <<>>
  BY <1>1, OpFields
<1> QED
  BY <1>1, <1>2, NewShape

\* An action on a component is one of the three, or none (ActionOn).
LEMMA ActionKinds ==
  ASSUME Typed, NEW c \in Components
  PROVE  /\ ActionOn(c) \in Actions \cup {None}
         /\ op.kind \in {"boot", "reconcile"} => ActionOn(c) # "restart"
         /\ op.kind \in {"shutdown", "quiesce", "requiesce"} => ActionOn(c) \in {"stop", None}
         /\ op.kind \in {"undo"} => ActionOn(c) = "start"
  BY NoneIsNothing, Fields DEF ActionOn, Actions

\* Applying an action keeps the types.
LEMMA ApplyTyped ==
  ASSUME Typed, Apply
  PROVE  Typed'
<1>0. {"starting", "running", "stopping", "stopped", "failed"} \subseteq Actuals
  BY DEF Actuals
<1>1. CASE Skipped
  <2>1. /\ op.todo # <<>> /\ Advance(FALSE) /\ UNCHANGED <<runtimeVars, process, desired, mcp, dropped>>
        /\ UNCHANGED status \/ (\E a \in Actuals : Actual(Current, a))
    BY <1>0, <1>1, Zenon DEF Skipped, Applying
  <2>2. Current \in Components
    BY <2>1, First
  <2>3. OpShape'
    BY <2>1, AdvanceShape
  <2>4. status' \in [Components -> [desired : Intents, actual : Actuals]]
    BY <2>1, <2>2, ActualFields DEF Typed
  <2>5. RuntimeTyped'
    BY <2>1, RuntimeStep DEF Typed
  <2>6. UNCHANGED <<process, desired, mcp, dropped>>
    BY <2>1
  <2> QED
    BY <2>3, <2>4, <2>5, <2>6, Zenon DEF Typed
<1>2. CASE McpApplied
  <2>1. /\ op.todo # <<>> /\ Advance(TRUE) /\ UNCHANGED <<runtimeVars, process, desired, dropped>>
        /\ mcp' \in BOOLEAN /\ Current = "mcp"
        /\ \E a \in Actuals : Actual("mcp", a)
    BY <1>0, <1>2 DEF McpApplied, Applying
  <2>2. Current \in Components
    BY <2>1, First
  <2>3. OpShape'
    BY <2>1, AdvanceShape
  <2>4. status' \in [Components -> [desired : Intents, actual : Actuals]]
    BY <2>1, <2>2, ActualFields DEF Typed
  <2>5. RuntimeTyped'
    BY <2>1, RuntimeStep DEF Typed
  <2> QED
    BY <2>1, <2>3, <2>4, <2>5 DEF Typed
<1>3. CASE SchedulerCalled
  <2>1. /\ op.todo # <<>> /\ UNCHANGED <<process, desired, mcp, dropped>>
        /\ Start \/ Stop
        /\ op.kind # "none" /\ At("next")
        /\ Current = "scheduler" /\ ActionOn("scheduler") # None
        /\ \E a \in Actuals : Actual("scheduler", a)
        /\ op' = [op EXCEPT !.at = "called", !.action = ActionOn("scheduler")]
    BY <1>0, <1>3 DEF SchedulerCalled, Applying
  <2>2. Current \in Components /\ op.todo = <<"scheduler">>
    <3>1. op.todo # <<>> /\ Current = "scheduler"
      BY <2>1
    <3> QED
      BY <3>1, First
  <2>3. ActionOn("scheduler") \in Actions
    BY <2>1, <2>2, ActionKinds
  <2>4. OpShape'
    <3>1. /\ op'.kind = op.kind /\ op'.at = "called" /\ op'.action = ActionOn("scheduler")
          /\ op'.todo = op.todo /\ op'.undo = op.undo /\ op'.tries = op.tries
          /\ op' = [kind |-> op'.kind, action |-> op'.action, at |-> op'.at, todo |-> op'.todo,
                    undo |-> op'.undo, tries |-> op'.tries]
      BY <2>1 DEF Typed, OpShape
    <3>2. op' \in [kind : Kinds, action : Actions \cup {None}, at : Places,
                   todo : Todos, undo : Todos, tries : 0 .. 2]
      BY <2>3, <3>1, Fields DEF Places
    <3>3. ~Holds("none") /\ ~Holds("maintenance") /\ ~Holds("undo")
      BY <2>1, <2>2, Distinct DEF Typed, OpShape, Holds
    <3>4. /\ op.kind \in {"quiesce", "requiesce", "shutdown"} => ActionOn("scheduler") = "stop"
          /\ op.kind \in {"boot", "reconcile"} => ActionOn("scheduler") # "restart"
      BY <2>1, <2>2, ActionKinds
    <3> QED
      BY <2>2, <2>3, <3>1, <3>2, <3>3, <3>4, Distinct DEF Typed, OpShape, Holds, At
  <2>5. status' \in [Components -> [desired : Intents, actual : Actuals]]
    BY <2>1, <2>2, ActualFields DEF Typed
  <2>6. RuntimeTyped'
    BY <2>1, RuntimeStep DEF Typed
  <2> QED
    BY <2>1, <2>4, <2>5, <2>6 DEF Typed
<1>4. CASE SchedulerStoppedToRestart
  <2>1. /\ Start /\ UNCHANGED <<process, desired, mcp, op, dropped>>
        /\ "scheduler" \in Components
        /\ \E a \in Actuals : Actual("scheduler", a)
    BY <1>0, <1>4 DEF SchedulerStoppedToRestart, Components
  <2>2. status' \in [Components -> [desired : Intents, actual : Actuals]]
    BY <2>1, ActualFields DEF Typed
  <2>3. RuntimeTyped'
    BY <2>1, RuntimeStep DEF Typed
  <2> QED
    BY <2>1, <2>2, <2>3 DEF Typed, OpShape, Holds, At
<1>5. CASE SchedulerApplied
  <2>1. /\ At("called") /\ Advance(TRUE) /\ UNCHANGED <<runtimeVars, process, desired, mcp, dropped>>
        /\ "scheduler" \in Components
        /\ \E a \in Actuals : Actual("scheduler", a)
    BY <1>0, <1>5 DEF SchedulerApplied, Answered, Components
  <2>2. op.todo # <<>>
    BY <2>1, Distinct DEF Typed, OpShape
  <2>3. OpShape'
    BY <2>1, <2>2, AdvanceShape
  <2>4. status' \in [Components -> [desired : Intents, actual : Actuals]]
    BY <2>1, ActualFields DEF Typed
  <2>5. RuntimeTyped'
    BY <2>1, RuntimeStep DEF Typed
  <2> QED
    BY <2>1, <2>3, <2>4, <2>5 DEF Typed
<1>6. CASE SchedulerFailed
  <2>1. /\ At("called") /\ op' = AfterFailure /\ UNCHANGED <<runtimeVars, desired, mcp, dropped>>
        /\ "scheduler" \in Components
        /\ \E a \in Actuals : Actual("scheduler", a)
        /\ process' \in {"exited", process}
    BY <1>0, <1>6 DEF SchedulerFailed, Answered, Components
  <2>2. OpShape'
    <3>1. CASE op.kind = "quiesce"
      <4>1. op.undo \in {<<>>, <<"mcp">>} /\ <<>> \in Todos /\ <<"mcp">> \in Todos
        BY <2>1, <3>1 DEF Typed, OpShape, Holds, Todos
      <4>2. Reverse(op.undo) \in {<<>>, <<"mcp">>} /\ Reverse(op.undo) \in Todos
        BY <4>1, Short
      <4>3. "undo" \in Kinds \ {"maintenance"} /\ None \in Actions \cup {None} /\ 0 \in 0 .. 2
        BY DEF Kinds
      <4>4. op' = Op("undo", None, Reverse(op.undo), <<>>, 0)
        BY <2>1, <3>1 DEF AfterFailure
      <4> QED
        BY <4>2, <4>3, <4>4, NewShape
    <3>2. CASE op.kind \in {"reconcile", "requiesce"}
      <4>1. op' = Maintenance("failed") \/ op' = Maintenance("quiet")
        BY <2>1, <3>2 DEF AfterFailure
      <4> QED
        BY <4>1, MaintenanceFields
    <3>3. CASE op.kind \notin {"quiesce", "reconcile", "requiesce"}
      <4>1. op' = Free
        BY <2>1, <3>3 DEF AfterFailure
      <4> QED
        BY <4>1, FreeShape
    <3> QED
      BY <3>1, <3>2, <3>3
  <2>3. status' \in [Components -> [desired : Intents, actual : Actuals]]
    BY <2>1, ActualFields DEF Typed
  <2>4. RuntimeTyped'
    BY <2>1, RuntimeStep DEF Typed
  <2> QED
    BY <2>1, <2>2, <2>3, <2>4 DEF Typed
<1> QED
  BY <1>1, <1>2, <1>3, <1>4, <1>5, <1>6 DEF Apply

\* So does the beginning or the end of an operation.
LEMMA OperateTyped ==
  ASSUME Typed, Operate \/ ShutdownBegun \/ QuiesceBegun \/ RestartFromPersisted \/ DatabaseReplaced
  PROVE  Typed'
<1>0. /\ UNCHANGED runtimeVars => RuntimeTyped'
      /\ Both \in Todos /\ <<>> \in Todos /\ None \in Actions \cup {None} /\ 0 \in 0 .. 2
      /\ {"shutdown", "quiesce", "reconcile", "requiesce"} \subseteq Kinds \ {"maintenance", "none", "transition", "undo"}
  BY RuntimeStep DEF Typed, Todos, Kinds
<1>1. CASE BootDone \/ TransitionDone \/ ShutdownDone \/ UndoDone \/ MaintenanceDone
  <2>1. /\ op' = Free /\ UNCHANGED runtimeVars
        /\ UNCHANGED <<desired, mcp, dropped>>
        /\ status' \in {status, Refreshed}
        /\ process' \in {process, "up", "exited"}
    BY <1>1 DEF BootDone, TransitionDone, ShutdownDone, UndoDone, MaintenanceDone
  <2>2. OpShape'
    BY <2>1, FreeShape
  <2>3. status' \in [Components -> [desired : Intents, actual : Actuals]]
    BY <2>1, RefreshedFields DEF Typed
  <2> QED
    BY <1>0, <2>1, <2>2, <2>3 DEF Typed
<1>2. CASE QuiesceDone \/ ReconcileDone
  <2>1. /\ op' = Maintenance("quiet") \/ op' = Maintenance("restarted")
        /\ UNCHANGED runtimeVars
        /\ UNCHANGED <<process, desired, mcp, dropped>>
        /\ status' \in {status, Refreshed}
    BY <1>2 DEF QuiesceDone, ReconcileDone
  <2>2. OpShape'
    BY <2>1, MaintenanceFields
  <2>3. status' \in [Components -> [desired : Intents, actual : Actuals]]
    BY <2>1, RefreshedFields DEF Typed
  <2> QED
    BY <1>0, <2>1, <2>2, <2>3 DEF Typed
<1>3. CASE TransitionNoted
  <2>1. /\ At("persisted") /\ UNCHANGED runtimeVars
        /\ UNCHANGED <<process, desired, mcp, dropped>>
        /\ op' = [op EXCEPT !.at = "next"]
    BY <1>3 DEF TransitionNoted
  <2>2. /\ op'.kind = op.kind /\ op'.at = "next" /\ op'.action = op.action
        /\ op'.todo = op.todo /\ op'.undo = op.undo /\ op'.tries = op.tries
        /\ op' = [kind |-> op'.kind, action |-> op'.action, at |-> op'.at, todo |-> op'.todo,
                  undo |-> op'.undo, tries |-> op'.tries]
    BY <2>1 DEF Typed, OpShape
  <2>3. op' \in [kind : Kinds, action : Actions \cup {None}, at : Places,
                 todo : Todos, undo : Todos, tries : 0 .. 2]
    BY <2>2, Fields DEF Places
  <2>4. OpShape'
    BY <2>1, <2>2, <2>3 DEF Typed, OpShape, Holds, At
  <2>5. Intent(op.action) \in Intents
    BY DEF Intent, Intents
  <2>6. status' \in [Components -> [desired : Intents, actual : Actuals]]
    BY <1>3, <2>5 DEF TransitionNoted, Typed
  <2> QED
    BY <1>0, <2>1, <2>4, <2>6 DEF Typed
<1>4. CASE ShutdownBegun \/ QuiesceBegun \/ QuiesceAgain
  <2>1. /\ UNCHANGED runtimeVars /\ UNCHANGED <<desired, status, mcp, dropped>>
        /\ process' \in {process, "draining"}
        /\ \E kind \in {"shutdown", "quiesce", "requiesce"}, tries \in {0, op.tries} :
              op' = Op(kind, None, Both, <<>>, tries)
    BY <1>4 DEF ShutdownBegun, QuiesceBegun, QuiesceAgain
  <2>2. PICK kind \in {"shutdown", "quiesce", "requiesce"}, tries \in {0, op.tries} :
              op' = Op(kind, None, Both, <<>>, tries)
    BY <2>1
  <2>3. kind \in Kinds \ {"maintenance"} /\ tries \in 0 .. 2 /\ kind \notin {"none", "transition", "undo"}
    BY <1>0, Fields
  <2>4. OpShape'
    BY <1>0, <2>2, <2>3, NewShape
  <2> QED
    BY <1>0, <2>1, <2>4 DEF Typed
<1>5. CASE RestartFromPersisted
  <2>1. /\ UNCHANGED runtimeVars /\ UNCHANGED <<process, desired, mcp, dropped>>
        /\ op.tries + 1 \in 0 .. 2
        /\ op' = Op("reconcile", None, Both, <<>>, op.tries + 1)
    BY <1>5, Fields DEF RestartFromPersisted
  <2>2. OpShape'
    <3>1. "reconcile" \in Kinds \ {"maintenance"} /\ "reconcile" \notin {"none", "transition", "undo", "quiesce"}
      BY DEF Kinds
    <3> QED
      BY <1>0, <2>1, <3>1, NewShape
  <2>3. status' \in [Components -> [desired : Intents, actual : Actuals]]
    BY <1>5 DEF RestartFromPersisted, Typed
  <2> QED
    BY <1>0, <2>1, <2>2, <2>3 DEF Typed
<1>6. CASE DatabaseReplaced
  <2>1. /\ UNCHANGED runtimeVars /\ UNCHANGED <<process, status, mcp, op, dropped>>
        /\ desired' \in [Components -> Intents]
    BY <1>6 DEF DatabaseReplaced
  <2> QED
    BY <1>0, <2>1 DEF Typed, OpShape, Holds, At
<1> QED
  BY <1>1, <1>2, <1>3, <1>4, <1>5, <1>6 DEF Operate

\* The types are inductive (TypeOK).
LEMMA TypedStep == Typed /\ [Next]_vars => Typed'
<1> SUFFICES ASSUME Typed, [Next]_vars PROVE Typed'
  OBVIOUS
<1>0. UNCHANGED runtimeVars => RuntimeTyped'
  BY RuntimeStep DEF Typed
<1>1. ASSUME NEW sel \in Selections, NEW action \in Actions, TransitionPersisted(sel, action)
      PROVE Typed'
  <2>1. /\ UNCHANGED runtimeVars /\ UNCHANGED <<process, status, mcp, dropped>>
        /\ desired' = Wished(Intent(action), sel)
        /\ op' = [Op("transition", action, sel, <<>>, 0) EXCEPT !.at = "persisted"]
    BY <1>1 DEF TransitionPersisted
  <2>2. desired' \in [Components -> Intents]
    BY <2>1 DEF Wished, Intent, Intents, Typed
  <2>3. sel \in Todos /\ sel # <<>> /\ <<>> \in Todos
    BY Distinct DEF Selections, Todos
  <2>4. op' = [kind |-> "transition", action |-> action, at |-> "persisted", todo |-> sel,
               undo |-> <<>>, tries |-> 0]
    BY <2>1 DEF Op
  <2>5. OpShape'
    BY <2>3, <2>4 DEF OpShape, Holds, At, Kinds, Places
  <2> QED
    BY <1>0, <2>1, <2>2, <2>5 DEF Typed
<1>2. CASE Runtime
  <2>1. /\ Progress \/ \E s \in Slots : LoopStep(s)
        /\ UNCHANGED <<process, desired, status, mcp, op, dropped>>
    BY <1>2 DEF Runtime
  <2>2. RuntimeTyped'
    BY <2>1, RuntimeStep DEF Typed
  <2>3. OpShape'
    BY <2>1 DEF Typed, OpShape, Holds, At
  <2> QED
    BY <2>1, <2>2, <2>3 DEF Typed
<1>3. CASE StatusRead
  <2>1. /\ UNCHANGED runtimeVars /\ UNCHANGED <<process, desired, mcp, op, dropped>>
        /\ status' = Refreshed
    BY <1>3 DEF StatusRead
  <2>2. OpShape'
    BY <2>1 DEF Typed, OpShape, Holds, At
  <2> QED
    BY <1>0, <2>1, <2>2, RefreshedFields DEF Typed
<1>4. CASE Dropped
  <2>1. /\ op' = Free /\ dropped' = TRUE
        /\ UNCHANGED <<process, desired, status, mcp>>
        /\ Abandoned \/ UNCHANGED runtimeVars
    BY <1>4 DEF Dropped
  <2>2. RuntimeTyped'
    BY <2>1, RuntimeStep DEF Typed
  <2>3. OpShape'
    BY <2>1, FreeShape
  <2> QED
    BY <2>1, <2>2, <2>3 DEF Typed
<1>5. CASE UNCHANGED vars
  BY <1>0, <1>5 DEF vars, Typed, OpShape, Holds, At
<1> QED
  BY <1>1, <1>2, <1>3, <1>4, <1>5, ApplyTyped, OperateTyped DEF Next

\* The types hold in the initial states (Init).
LEMMA TypedInit == Init => Typed
<1> SUFFICES ASSUME Init PROVE Typed
  OBVIOUS
<1>1. RuntimeTyped
  BY NoneIsNothing DEF Init, RuntimeInit, RuntimeTyped, RuntimeTypeOK
<1>2. op \in [kind : Kinds, action : Actions \cup {None}, at : Places,
              todo : Todos, undo : Todos, tries : 0 .. 2] /\ op.kind = "boot" /\ op.at = "next" /\ op.todo = Both
  <2>1. "boot" \in Kinds /\ None \in Actions \cup {None} /\ Both \in Todos /\ <<>> \in Todos
    BY DEF Kinds, Todos
  <2>2. op = Op("boot", None, Both, <<>>, 0)
    BY DEF Init
  <2> QED
    BY <2>1, <2>2, OpFields
<1>3. OpShape
  BY <1>2 DEF OpShape, Holds, At
<1>4. status \in [Components -> [desired : Intents, actual : Actuals]] /\ desired \in [Components -> Intents]
  BY DEF Init, Actuals
<1> QED
  BY <1>1, <1>3, <1>4 DEF Init, Typed

\* Every variable keeps the type of its row, field or handle (TypeOK).
THEOREM WorkloadTypes == Spec => []TypeOK
<1>1. Typed => TypeOK
  <2> SUFFICES ASSUME Typed PROVE TypeOK
    OBVIOUS
  <2>1. Todos \subseteq Seq(Components)
    BY DEF Todos, Both, Components
  <2>2. op \in Operation
    BY <2>1 DEF Typed, OpShape, Operation, Places
  <2> QED
    BY <2>2 DEF Typed, RuntimeTyped, TypeOK, Actuals
<1> QED
  BY <1>1, TypedInit, TypedStep, PTL DEF Spec

-----------------------------------------------------------------------------
(* What reconciliation leaves. *)

Left == Range(op.todo)

\* The intent in memory, and that of a transition, is the persisted one; what
\* reconciliation has handled and its database wants stopped is noted as stopped.
NoteInv ==
  /\ op.kind \in {"boot", "reconcile"} => \A c \in Components : status[c].desired = desired[c]
  /\ Holds("transition") => \A c \in Left : desired[c] = Intent(op.action)
  /\ op.kind \in {"boot", "reconcile"} /\ At("called") /\ desired["scheduler"] = "stopped" =>
       op.action = "stop"
  /\ Holds("reconcile") =>
       \A c \in Components \ Left : desired[c] = "stopped" => status[c].actual = "stopped"
  /\ At("restarted") =>
       \A c \in Components :
         /\ status[c].desired = desired[c]
         /\ desired[c] = "stopped" => status[c].actual = "stopped"

\* What a component that has been handled leaves of its operation.
LEMMA Advanced ==
  ASSUME Typed, op.todo # <<>>, NEW acted \in BOOLEAN, Advance(acted)
  PROVE  /\ op'.kind = op.kind /\ op'.action = op.action /\ op'.at = "next"
         /\ Left' = Left \ {Current}
         /\ Current \in Components /\ Current \in Left
<1>1. Left' = Range(op'.todo)
  BY DEF Left
<1> QED
  BY <1>1, First, AdvanceFields DEF Left

\* A component at a time (Skipped, McpApplied, SchedulerApplied).
LEMMA NoteAdvances ==
  ASSUME Typed, NoteInv, op.todo # <<>>, NEW acted \in BOOLEAN, Advance(acted), UNCHANGED desired,
         \A c \in Components : status'[c].desired = status[c].desired,
         \A c \in Components \ {Current} : status'[c].actual = status[c].actual,
         Holds("reconcile") /\ desired[Current] = "stopped" => status'[Current].actual = "stopped"
  PROVE  NoteInv'
  BY Advanced DEF NoteInv, Holds, At

\* Skipping keeps it: nothing is skipped that runs against its intent.
LEMMA NoteSkipped ==
  ASSUME Typed, NoteInv, Skipped
  PROVE  NoteInv'
<1>1. op.todo # <<>> /\ Advance(FALSE) /\ desired' = desired /\ ActionOn(Current) = None
  BY DEF Skipped, Applying
<1>2. Current \in Components
  BY <1>1, First
<1>3. CASE op.kind \in {"boot", "reconcile"}
  <2>1. Actual(Current, IF IsRunning(Current) THEN "running" ELSE "stopped")
    BY <1>3 DEF Skipped
  <2>2. status'[Current].actual = IF IsRunning(Current) THEN "running" ELSE "stopped"
    BY <1>2, <2>1, ActualFields DEF Actuals
  <2>3. desired[Current] = "stopped" => ~IsRunning(Current)
    BY <1>1, <1>2, <1>3, NoneIsNothing DEF NoteInv, ActionOn, Actions
  <2>4. /\ \A c \in Components : status'[c].desired = status[c].desired
        /\ \A c \in Components \ {Current} : status'[c].actual = status[c].actual
    BY <1>2, <2>1, ActualFields DEF Actuals
  <2> QED
    BY <1>1, <2>2, <2>3, <2>4, NoteAdvances
<1>4. CASE op.kind \notin {"boot", "reconcile"}
  <2>1. status' = status
    BY <1>4 DEF Skipped
  <2> QED
    BY <1>1, <1>4, <2>1, NoteAdvances DEF Holds
<1> QED
  BY <1>3, <1>4

\* So does the MCP workload.
LEMMA NoteMcp ==
  ASSUME Typed, NoteInv, McpApplied
  PROVE  NoteInv'
<1>1. /\ op.todo # <<>> /\ Advance(TRUE) /\ desired' = desired
      /\ Current = "mcp" /\ ActionOn("mcp") # None
      /\ mcp' = (ActionOn("mcp") # "stop")
      /\ Actual("mcp", IF mcp' THEN "running" ELSE "stopped")
  BY DEF McpApplied, Applying
<1>2. "mcp" \in Components
  BY DEF Components
<1>3. status'["mcp"].actual = IF mcp' THEN "running" ELSE "stopped"
  BY <1>1, <1>2, ActualFields DEF Actuals
<1>4. Holds("reconcile") /\ desired["mcp"] = "stopped" => status'["mcp"].actual = "stopped"
  <2>1. Holds("reconcile") /\ desired["mcp"] = "stopped" => ActionOn("mcp") = "stop"
    BY <1>1, <1>2 DEF NoteInv, ActionOn, Holds
  <2> QED
    BY <1>1, <1>3, <2>1
<1>5. /\ \A c \in Components : status'[c].desired = status[c].desired
      /\ \A c \in Components \ {"mcp"} : status'[c].actual = status[c].actual
  BY <1>1, <1>2, ActualFields DEF Actuals
<1> QED
  BY <1>1, <1>4, <1>5, NoteAdvances

\* And the scheduler, by its calls.
LEMMA NoteScheduler ==
  ASSUME Typed, NoteInv,
         SchedulerCalled \/ SchedulerStoppedToRestart \/ SchedulerApplied \/ SchedulerFailed
  PROVE  NoteInv'
<1>0. "scheduler" \in Components
  BY DEF Components
<1>1. CASE SchedulerCalled
  <2>1. /\ op.todo # <<>> /\ desired' = desired
        /\ Current = "scheduler" /\ ActionOn("scheduler") # None
        /\ \E a \in Actuals : Actual("scheduler", a)
        /\ op' = [op EXCEPT !.at = "called", !.action = ActionOn("scheduler")]
    BY <1>1 DEF SchedulerCalled, Applying, Actuals
  <2>2. /\ op'.kind = op.kind /\ op'.action = ActionOn("scheduler") /\ op'.at = "called"
        /\ op'.todo = op.todo /\ Left' = Left
    BY <2>1 DEF Typed, OpShape, Left
  <2>3. /\ \A c \in Components : status'[c].desired = status[c].desired
        /\ \A c \in Components \ {"scheduler"} : status'[c].actual = status[c].actual
    BY <1>0, <2>1, ActualFields
  <2>4. op.kind \in {"boot", "reconcile"} /\ desired["scheduler"] = "stopped" =>
          ActionOn("scheduler") = "stop"
    BY <1>0, <2>1 DEF NoteInv, ActionOn
  <2>5. Holds("transition") => ActionOn("scheduler") = op.action
    BY DEF ActionOn, Holds
  <2>6. "scheduler" \in Left
    BY <2>1, First DEF Left
  <2> QED
    BY <2>1, <2>2, <2>3, <2>4, <2>5, <2>6 DEF NoteInv, Holds, At
<1>2. CASE SchedulerStoppedToRestart
  <2>1. /\ At("called") /\ desired' = desired /\ op' = op
        /\ Actual("scheduler", "starting")
    BY <1>2 DEF SchedulerStoppedToRestart, Answered
  <2>2. /\ \A c \in Components : status'[c].desired = status[c].desired
        /\ \A c \in Components \ {"scheduler"} : status'[c].actual = status[c].actual
    BY <1>0, <2>1, ActualFields DEF Actuals
  <2>3. "scheduler" \in Left /\ Left' = Left
    BY <2>1, Members DEF Typed, OpShape, Left
  <2> QED
    BY <2>1, <2>2, <2>3 DEF NoteInv, Holds, At
<1>3. CASE SchedulerApplied
  <2>1. /\ At("called") /\ desired' = desired /\ Advance(TRUE)
        /\ Actual("scheduler", IF op.action = "stop" THEN "stopped" ELSE "running")
    BY <1>3 DEF SchedulerApplied, Answered
  <2>2. op.todo = <<"scheduler">> /\ op.todo # <<>>
    BY <2>1, Distinct DEF Typed, OpShape
  <2>3. Current = "scheduler"
    BY <2>2, First
  <2>4. /\ \A c \in Components : status'[c].desired = status[c].desired
        /\ \A c \in Components \ {"scheduler"} : status'[c].actual = status[c].actual
        /\ status'["scheduler"].actual = IF op.action = "stop" THEN "stopped" ELSE "running"
    BY <1>0, <2>1, ActualFields DEF Actuals
  <2>5. Holds("reconcile") /\ desired["scheduler"] = "stopped" => op.action = "stop"
    BY <2>1 DEF NoteInv, Holds
  <2> QED
    BY <2>1, <2>2, <2>3, <2>4, <2>5, NoteAdvances
<1>4. CASE SchedulerFailed
  <2>1. op' = AfterFailure
    BY <1>4 DEF SchedulerFailed
  <2>2. CASE op.kind = "quiesce"
    <3>1. op' = [kind |-> "undo", action |-> None, at |-> "next", todo |-> Reverse(op.undo),
                 undo |-> <<>>, tries |-> 0]
      BY <2>1, <2>2 DEF AfterFailure, Op
    <3> QED
      BY <3>1 DEF NoteInv, Holds, At
  <2>3. CASE op.kind \in {"reconcile", "requiesce"}
    <3>1. op' = Maintenance("failed") \/ op' = Maintenance("quiet")
      BY <2>1, <2>3 DEF AfterFailure
    <3>2. op'.kind = "maintenance" /\ op'.at \in {"failed", "quiet"}
      BY <3>1, MaintenanceFields
    <3> QED
      BY <3>2 DEF NoteInv, Holds, At
  <2>4. CASE op.kind \notin {"quiesce", "reconcile", "requiesce"}
    <3>1. op' = Free
      BY <2>1, <2>4 DEF AfterFailure
    <3> QED
      BY <3>1, FreeShape DEF NoteInv, Holds, At
  <2> QED
    BY <2>2, <2>3, <2>4
<1> QED
  BY <1>1, <1>2, <1>3, <1>4

\* The beginning and the end of an operation keep it.
LEMMA NoteOperate ==
  ASSUME Typed, NoteInv,
         Operate \/ ShutdownBegun \/ QuiesceBegun \/ RestartFromPersisted \/ DatabaseReplaced
  PROVE  NoteInv'
<1>1. CASE BootDone \/ TransitionDone \/ ShutdownDone \/ UndoDone \/ MaintenanceDone
  <2>1. op' = Free
    BY <1>1 DEF BootDone, TransitionDone, ShutdownDone, UndoDone, MaintenanceDone
  <2> QED
    BY <2>1, FreeShape DEF NoteInv, Holds, At
<1>2. CASE QuiesceDone
  <2>1. op' = Maintenance("quiet")
    BY <1>2 DEF QuiesceDone
  <2> QED
    BY <2>1, MaintenanceFields DEF NoteInv, Holds, At
<1>3. CASE ReconcileDone
  <2>1. /\ Holds("reconcile") /\ op.todo = <<>> /\ status' = Refreshed /\ desired' = desired
        /\ op' = Maintenance("restarted")
    BY <1>3 DEF ReconcileDone, Done
  <2>2. Left = {}
    BY <2>1, Members DEF Left
  <2>3. \A c \in Components :
          /\ status[c].desired = desired[c]
          /\ desired[c] = "stopped" => status[c].actual = "stopped"
    BY <2>1, <2>2 DEF NoteInv, Holds
  <2>4. \A c \in Components :
          /\ status'[c].desired = status[c].desired
          /\ status[c].actual = "stopped" => status'[c].actual = "stopped"
    BY <2>1, RefreshedFields
  <2>5. op'.kind = "maintenance" /\ op'.at = "restarted"
    BY <2>1, MaintenanceFields
  <2> QED
    BY <2>1, <2>3, <2>4, <2>5 DEF NoteInv, Holds, At
<1>4. CASE TransitionNoted
  <2>1. /\ At("persisted") /\ desired' = desired
        /\ op' = [op EXCEPT !.at = "next"]
    BY <1>4 DEF TransitionNoted
  <2>2. op'.kind = op.kind /\ op'.at = "next" /\ op'.action = op.action /\ Left' = Left
    BY <2>1 DEF Typed, OpShape, Left
  <2>3. op.kind = "transition"
    BY <2>1 DEF Typed, OpShape, Holds
  <2> QED
    BY <2>1, <2>2, <2>3 DEF NoteInv, Holds, At
<1>5. CASE ShutdownBegun \/ QuiesceBegun \/ QuiesceAgain
  <2>1. \E kind \in {"shutdown", "quiesce", "requiesce"}, tries \in {0, op.tries} :
           op' = Op(kind, None, Both, <<>>, tries)
    BY <1>5 DEF ShutdownBegun, QuiesceBegun, QuiesceAgain
  <2>2. op'.kind \in {"shutdown", "quiesce", "requiesce"} /\ op'.at = "next"
    BY <2>1 DEF Op
  <2> QED
    BY <2>2 DEF NoteInv, Holds, At
<1>6. CASE RestartFromPersisted
  <2>1. op' = Op("reconcile", None, Both, <<>>, op.tries + 1) /\ desired' = desired
    BY <1>6 DEF RestartFromPersisted
  <2>2. op'.kind = "reconcile" /\ op'.at = "next" /\ op'.todo = Both
    BY <2>1 DEF Op
  <2>3. Left' = Components
    BY <2>2, Members DEF Left
  <2>4. \A c \in Components : status'[c].desired = desired[c]
    BY <1>6 DEF RestartFromPersisted, Typed
  <2> QED
    BY <2>1, <2>2, <2>3, <2>4 DEF NoteInv, Holds, At
<1>7. CASE DatabaseReplaced
  <2>1. Holds("maintenance") /\ At("quiet") /\ op' = op
    BY <1>7 DEF DatabaseReplaced
  <2> QED
    BY <2>1 DEF NoteInv, Holds, At
<1> QED
  BY <1>1, <1>2, <1>3, <1>4, <1>5, <1>6, <1>7 DEF Operate

\* The invariant of reconciliation is inductive, given the types.
LEMMA NoteStep == Typed /\ NoteInv /\ [Next]_vars => NoteInv'
<1> SUFFICES ASSUME Typed, NoteInv, [Next]_vars PROVE NoteInv'
  OBVIOUS
<1>1. ASSUME NEW sel \in Selections, NEW action \in Actions, TransitionPersisted(sel, action)
      PROVE NoteInv'
  <2>1. /\ desired' = [c \in Components |-> IF c \in Range(sel) THEN Intent(action) ELSE desired[c]]
        /\ op' = [kind |-> "transition", action |-> action, at |-> "persisted", todo |-> sel,
                  undo |-> <<>>, tries |-> 0]
    BY <1>1 DEF TransitionPersisted, Wished, Op
  <2>2. Range(sel) \subseteq Components
    BY Members DEF Selections, Components
  <2>3. Left' = Range(sel)
    BY <2>1 DEF Left
  <2> QED
    BY <2>1, <2>2, <2>3 DEF NoteInv, Holds, At
<1>2. CASE Runtime \/ UNCHANGED vars
  <2>1. UNCHANGED <<op, desired, status>>
    BY <1>2 DEF Runtime, vars
  <2> QED
    BY <2>1 DEF NoteInv, Holds, At, Left
<1>3. CASE StatusRead
  <2>1. op' = op /\ desired' = desired
    BY <1>3 DEF StatusRead
  <2>2. Left' = Left /\ Left \subseteq Components
    BY <2>1, Fields, Members DEF Left, Todos, Components
  <2>3. \A c \in Components :
          /\ status'[c].desired = status[c].desired
          /\ status[c].actual = "stopped" => status'[c].actual = "stopped"
    BY <1>3, RefreshedFields DEF StatusRead
  <2> QED
    BY <2>1, <2>2, <2>3 DEF NoteInv, Holds, At
<1>4. CASE Dropped
  <2>1. op' = Free
    BY <1>4 DEF Dropped
  <2> QED
    BY <2>1, FreeShape DEF NoteInv, Holds, At
<1> QED
  BY <1>1, <1>2, <1>3, <1>4, NoteSkipped, NoteMcp, NoteScheduler, NoteOperate DEF Next, Apply

\* It holds at the start of the program, whatever the last life left (Init).
LEMMA NoteInit == Init => NoteInv
<1> SUFFICES ASSUME Init PROVE NoteInv
  OBVIOUS
<1>1. op.kind = "boot" /\ op.at = "next"
  BY DEF Init, Op
<1>2. \A c \in Components : status[c].desired = desired[c]
  BY DEF Init
<1> QED
  BY <1>1, <1>2 DEF NoteInv, Holds, At

\* A restore whose restart succeeded leaves the intent of the database it
\* installed in memory and in force (restart_from_persisted).
THEOREM RestoredIntentHonoured == Spec => RestoreHonoursIntent
<1> DEFINE A == Holds("maintenance") /\ At("restarted") /\ op' = Free =>
                  \A c \in Components :
                    /\ status'[c].desired = desired'[c]
                    /\ desired'[c] = "stopped" => status'[c].actual = "stopped"
<1>1. Typed /\ NoteInv /\ [Next]_vars => [A]_vars
  <2> SUFFICES ASSUME Typed, NoteInv, [Next]_vars, Holds("maintenance"), At("restarted"), op' = Free
               PROVE  UNCHANGED <<status, desired>>
    BY DEF NoteInv
  <2>1. /\ op.todo = <<>> /\ op.kind = "maintenance" /\ op.at = "restarted"
        /\ op'.kind = "none"
    BY FreeShape DEF Typed, OpShape, Holds, At
  <2>2. ~Apply
    BY <2>1 DEF Apply, Skipped, McpApplied, SchedulerCalled, SchedulerStoppedToRestart,
                SchedulerApplied, SchedulerFailed, Applying, Answered, At
  <2>3. Operate => MaintenanceDone
    BY <2>1 DEF Operate, BootDone, TransitionNoted, TransitionDone, ShutdownDone, QuiesceDone,
                UndoDone, ReconcileDone, QuiesceAgain, Done, Holds, At
  <2>4. ~ShutdownBegun /\ ~QuiesceBegun /\ ~RestartFromPersisted /\ ~DatabaseReplaced
    BY <2>1 DEF ShutdownBegun, QuiesceBegun, RestartFromPersisted, DatabaseReplaced, Holds, At
  <2>5. \A sel \in Selections, action \in Actions : ~TransitionPersisted(sel, action)
    BY <2>1 DEF TransitionPersisted, Holds
  <2>6. MaintenanceDone \/ Dropped \/ Runtime \/ UNCHANGED vars => UNCHANGED <<status, desired>>
    BY DEF MaintenanceDone, Dropped, Runtime, vars
  <2>7. ~StatusRead
    BY <2>1 DEF StatusRead
  <2> QED
    BY <2>2, <2>3, <2>4, <2>5, <2>6, <2>7 DEF Next
<1> QED
  BY <1>1, TypedInit, TypedStep, NoteInit, NoteStep, PTL DEF Spec, RestoreHonoursIntent

-----------------------------------------------------------------------------
(* What runs, while no call is dropped. *)

\* Every loop has its handle, and the flag is true while it polls.
OwnedInv ==
  /\ \A s \in Slots : loop[s] # "free" => s = handle
  /\ running <=> Polling
  /\ call = "starting" => handle = None

\* A call is made within an operation; an error, and an answered stop, leave no loop.
CalledInv ==
  /\ Busy => At("called")
  /\ At("called") =>
       /\ status["scheduler"].actual \in {"starting", "stopping"}
       /\ op.action = "start" => status["scheduler"].actual = "starting"
       /\ op.action = "stop" => status["scheduler"].actual = "stopping"
       /\ call = "starting" => status["scheduler"].actual = "starting"
       /\ call = "error" => handle = None
       /\ call = "ok" /\ status["scheduler"].actual = "stopping" => handle = None

\* Only what is still to be handled may run against its intent.
Exempt(c) == op.kind \in {"boot", "transition", "reconcile"} /\ c \in Left
IntentInv == \A c \in Components : desired[c] = "stopped" /\ IsRunning(c) => Exempt(c)

\* What a failed quiescence starts again is wanted.
UndoInv ==
  /\ Holds("quiesce") /\ "mcp" \in Range(op.undo) => desired["mcp"] = "running"
  /\ Holds("undo") /\ "mcp" \in Left => desired["mcp"] = "running"

\* What quiescence has handled does not run.
QuietInv ==
  /\ op.kind \in {"quiesce", "requiesce"} => \A c \in Components \ Left : ~IsRunning(c)
  /\ At("quiet") => \A c \in Components : ~IsRunning(c)

\* But for the call in progress, what runs is noted as running.
Truthful(c) ==
  /\ status[c].actual \in {"running", "stopped", "failed"}
  /\ IsRunning(c) => status[c].actual = "running"
ActualInv == \A c \in Components : ~(c = "scheduler" /\ At("called")) => Truthful(c)

RunInv == OwnedInv /\ CalledInv /\ IntentInv /\ UndoInv /\ QuietInv /\ ActualInv

\* A scheduler without a handle does not run.
LEMMA NoHandle ==
  ASSUME Typed, OwnedInv, handle = None
  PROVE  /\ ~running
         /\ \A s \in Slots : loop[s] = "free"
  BY SlotAssumption DEF OwnedInv, Polling

\* Taking the handle of a finished loop leaves no loop.
LEMMA OwnedTaken ==
  ASSUME Typed, OwnedInv, Taken, handle # None => loop[handle] = "finished"
  PROVE  /\ handle' = None /\ ~running
         /\ \A s \in Slots : loop'[s] = "free"
<1>1. CASE handle = None
  BY <1>1, NoHandle DEF Taken
<1>2. CASE handle # None
  <2>1. Clear(handle) /\ handle' = None /\ loop[handle] = "finished"
    BY <1>2 DEF Taken
  <2>2. \A s \in Slots : loop'[s] = "free"
    BY <2>1 DEF Clear, OwnedInv, Typed, RuntimeTyped, RuntimeTypeOK
  <2>3. ~Polling
    BY <2>1 DEF OwnedInv, Polling
  <2> QED
    BY <2>1, <2>2, <2>3 DEF OwnedInv
<1> QED
  BY <1>1, <1>2

\* A start spawns nothing by itself, and what it refuses has no handle.
LEMMA OwnedStart ==
  ASSUME Typed, OwnedInv, Start
  PROVE  /\ OwnedInv' /\ (running' <=> running)
         /\ call' \in {"ok", "error", "starting"}
         /\ call' \in {"error", "starting"} => handle' = None
<1>1. CASE StartAlready
  BY <1>1 DEF StartAlready, Reply, OwnedInv, Polling
<1>2. CASE StartRefused \/ StartBegun
  <2>1. /\ Taken /\ call' \in {"error", "starting"} /\ running' = running
        /\ handle # None => loop[handle] = "finished"
    BY <1>2 DEF StartRefused, StartBegun, Reply, Ended, EndedWell
  <2>2. handle' = None /\ ~running /\ \A s \in Slots : loop'[s] = "free"
    BY <2>1, OwnedTaken
  <2> QED
    BY <2>1, <2>2 DEF OwnedInv, Polling
<1> QED
  BY <1>1, <1>2 DEF Start

\* A stop that is answered at once finds no handle.
LEMMA OwnedStop ==
  ASSUME Typed, OwnedInv, Stop
  PROVE  /\ OwnedInv' /\ (running' => running)
         /\ call' \in {"ok", "stopping"}
         /\ call' = "ok" => handle' = None
<1>1. CASE StopNothing
  <2>1. /\ handle = None /\ handle' = None /\ call' = "ok" /\ running' = FALSE /\ loop' = loop
    BY <1>1 DEF StopNothing, Reply
  <2> QED
    BY <2>1, NoHandle DEF OwnedInv, Polling
<1>2. CASE StopBegun
  <2>1. /\ handle' = handle /\ call' = "stopping" /\ running' = running /\ loop' = loop
    BY <1>2 DEF StopBegun, Reply
  <2> QED
    BY <2>1 DEF OwnedInv, Polling
<1> QED
  BY <1>1, <1>2 DEF Stop

\* The end of a call: only a start lets the scheduler run.
LEMMA OwnedProgress ==
  ASSUME Typed, OwnedInv, Progress
  PROVE  /\ OwnedInv' /\ Busy /\ call' \in {"ok", "error"}
         /\ call = "starting" \/ (~running' /\ handle' = None)
         /\ call' = "error" => handle' = None
<1>1. CASE Started
  <2>1. /\ call = "starting" /\ handle = None
        /\ running' = TRUE /\ call' = "ok"
    BY <1>1 DEF Started, Reply, OwnedInv
  <2>2. PICK s \in Slots : loop' = [loop EXCEPT ![s] = "looping"] /\ handle' = s
    BY <1>1 DEF Started
  <2>3. \A t \in Slots : loop[t] = "free"
    BY <2>1, NoHandle
  <2>4. loop'[s] = "looping" /\ \A t \in Slots : loop'[t] # "free" => t = s
    BY <2>2, <2>3 DEF Typed, RuntimeTyped, RuntimeTypeOK
  <2> QED
    BY <2>1, <2>2, <2>4 DEF OwnedInv, Polling, Busy
<1>2. CASE NotStarted
  BY <1>2 DEF NotStarted, Reply, OwnedInv, Polling, Busy
<1>3. CASE Stopped
  <2>1. /\ call = "stopping" /\ Taken /\ running' = FALSE /\ call' \in {"ok", "error"}
        /\ loop[handle] = "finished"
    BY <1>3 DEF Stopped, Reply
  <2>2. handle' = None /\ \A s \in Slots : loop'[s] = "free"
    BY <2>1, OwnedTaken
  <2> QED
    BY <2>1, <2>2 DEF OwnedInv, Polling, Busy
<1> QED
  BY <1>1, <1>2, <1>3 DEF Progress

\* A step of the loop never makes the scheduler run.
LEMMA OwnedLoop ==
  ASSUME Typed, OwnedInv, NEW s \in Slots, LoopStep(s)
  PROVE  /\ OwnedInv' /\ (running' => running)
         /\ call' = call /\ handle' = handle
<1> USE DEF Typed, RuntimeTyped, RuntimeTypeOK
<1>1. CASE Released(s)
  BY <1>1 DEF Released, OwnedInv, Polling
<1>2. CASE Returned(s)
  <2>1. /\ loop' = [loop EXCEPT ![s] = "ended"] /\ running' = FALSE /\ handle' = handle /\ call' = call
        /\ loop[s] # "free"
    BY <1>2 DEF Returned
  <2>2. s = handle
    BY <2>1 DEF OwnedInv
  <2> QED
    BY <2>1, <2>2 DEF OwnedInv, Polling
<1>3. CASE Finished(s)
  <2>1. loop[s] = "ended" /\ s = handle
    BY <1>3 DEF Finished, OwnedInv
  <2>2. loop' = [loop EXCEPT ![s] = "finished"] /\ running' = running /\ handle' = handle /\ call' = call
    BY <1>3, <2>1 DEF Finished
  <2> QED
    BY <2>1, <2>2 DEF OwnedInv, Polling
<1> QED
  BY <1>1, <1>2, <1>3 DEF LoopStep

\* The runtime's own steps keep the invariant.
LEMMA RunRuntime ==
  ASSUME Typed, RunInv, Runtime
  PROVE  RunInv'
<1>0. /\ UNCHANGED <<process, desired, status, mcp, op, dropped>>
      /\ Progress \/ \E s \in Slots : LoopStep(s)
      /\ Left' = Left
  BY DEF Runtime, Left
<1>1. CASE running' => running
  <2>1. OwnedInv' /\ CalledInv'
    <3>1. CASE Progress
      BY <1>0, <3>1, OwnedProgress DEF RunInv, CalledInv, At, Busy
    <3>2. ASSUME NEW s \in Slots, LoopStep(s) PROVE OwnedInv' /\ CalledInv'
      BY <1>0, <3>2, OwnedLoop DEF RunInv, CalledInv, At, Busy
    <3> QED
      BY <1>0, <3>1, <3>2
  <2>2. \A c \in Components : IsRunning(c)' => IsRunning(c)
    BY <1>0, <1>1 DEF IsRunning
  <2> QED
    BY <1>0, <2>1, <2>2
       DEF RunInv, IntentInv, UndoInv, QuietInv, ActualInv, Truthful, Exempt, Holds, At
<1>2. CASE running' /\ ~running
  <2>1. ASSUME NEW s \in Slots, LoopStep(s) PROVE FALSE
    BY <1>2, <2>1, OwnedLoop DEF RunInv
  <2>2. Progress
    BY <1>0, <2>1
  <2>3. OwnedInv' /\ Busy /\ call' \in {"ok", "error"} /\ call = "starting" /\ (call' = "error" => handle' = None)
    BY <1>2, <2>2, OwnedProgress DEF RunInv
  <2>4. /\ At("called") /\ op.action # "stop" /\ status["scheduler"].actual = "starting"
    BY <2>3 DEF RunInv, CalledInv
  <2>5. op.kind \in {"boot", "transition", "reconcile"} /\ op.todo = <<"scheduler">>
    BY <2>4, Distinct DEF Typed, OpShape, Kinds, Holds, At
  <2>6. "scheduler" \in Left
    BY <2>5, Members DEF Left
  <2>7. CalledInv'
    BY <1>0, <2>3, <2>4 DEF RunInv, CalledInv, At, Busy
  <2>8. \A c \in Components : c # "scheduler" => (IsRunning(c)' <=> IsRunning(c))
    BY <1>0 DEF IsRunning, Components
  <2> QED
    BY <1>0, <2>3, <2>4, <2>5, <2>6, <2>7, <2>8
       DEF RunInv, IntentInv, UndoInv, QuietInv, ActualInv, Truthful, Exempt, Holds, At
<1> QED
  BY <1>1, <1>2

\* Nothing changes for the runtime.
LEMMA OwnedSame == OwnedInv /\ UNCHANGED runtimeVars => OwnedInv'
  BY DEF OwnedInv, Polling, runtimeVars

\* A component that has been handled, with what its operation must have done to it.
LEMMA RunAdvances ==
  ASSUME Typed, RunInv, op.todo # <<>>, NEW acted \in BOOLEAN, Advance(acted),
         NEW first \in Components, first = Current,
         OwnedInv', ~Busy', UNCHANGED desired,
         \A c \in Components \ {first} : IsRunning(c)' <=> IsRunning(c),
         \A c \in Components \ {first} : status'[c].actual = status[c].actual,
         At("called") => first = "scheduler",
         Truthful(first)',
         desired[first] = "stopped" => ~IsRunning(first)',
         op.kind \in {"quiesce", "requiesce"} => ~IsRunning(first)',
         Holds("quiesce") /\ acted /\ first = "mcp" => desired["mcp"] = "running"
  PROVE  RunInv'
<1>1. /\ op'.kind = op.kind /\ op'.action = op.action /\ op'.at = "next"
      /\ Left' = Left \ {first} /\ first \in Left
  BY Advanced
<1>2. CalledInv'
  BY <1>1 DEF CalledInv, At
<1>3. IntentInv'
  BY <1>1 DEF RunInv, IntentInv, Exempt, IsRunning
<1>4. UndoInv'
  <2>1. ASSUME Holds("quiesce"), "mcp" \in Range(op'.undo) PROVE desired["mcp"] = "running"
    <3>1. CASE "mcp" \in Range(op.undo)
      BY <2>1, <3>1 DEF RunInv, UndoInv
    <3>2. CASE "mcp" \notin Range(op.undo)
      <4>1. acted /\ op'.undo = Append(op.undo, Current)
        BY <2>1, <3>2, AdvanceFields DEF Holds
      <4>2. CASE Current = "mcp"
        BY <2>1, <4>1, <4>2
      <4>3. CASE Current = "scheduler"
        <5>1. op.todo = <<"scheduler">>
          BY <4>3, First
        <5>2. op.undo = <<>>
          <6>1. op.undo \in {<<>>, <<"mcp">>}
            BY <2>1, <5>1 DEF Typed, OpShape
          <6> QED
            BY <3>2, <6>1, Members
        <5>3. Range(op'.undo) = {"scheduler"}
          BY <4>1, <4>3, <5>2, Short, Members
        <5> QED
          BY <2>1, <5>3
      <4> QED
        BY <1>1, <4>2, <4>3 DEF Components
    <3> QED
      BY <3>1, <3>2
  <2>2. Holds("undo")' /\ "mcp" \in Left' => desired["mcp"] = "running"
    BY <1>1 DEF RunInv, UndoInv, Holds
  <2> QED
    BY <1>1, <2>1, <2>2 DEF UndoInv, Holds
<1>5. QuietInv'
  BY <1>1 DEF RunInv, QuietInv, At, IsRunning
<1>6. ActualInv'
  <2> SUFFICES ASSUME NEW c \in Components PROVE Truthful(c)'
    BY <1>1 DEF ActualInv, At
  <2>1. CASE c = first
    BY <2>1 DEF Truthful, IsRunning
  <2>2. CASE c # first
    <3>1. Truthful(c)
      <4>1. ~(c = "scheduler" /\ At("called"))
        BY <2>2
      <4> QED
        BY <4>1 DEF RunInv, ActualInv
    <3> QED
      BY <2>2, <3>1 DEF Truthful, IsRunning
  <2> QED
    BY <2>1, <2>2
<1> QED
  BY <1>2, <1>3, <1>4, <1>5, <1>6 DEF RunInv

\* An operation that works components off is one that has any, and is not maintenance.
LEMMA WorkingKinds ==
  ASSUME Typed, op.todo # <<>>
  PROVE  op.kind \in {"boot", "transition", "shutdown", "quiesce", "undo", "reconcile", "requiesce"}
  BY DEF Typed, OpShape, Kinds, Holds

\* Skipping keeps it: what is skipped runs as it should, or is noted.
LEMMA RunSkipped ==
  ASSUME Typed, NoteInv, RunInv, Skipped
  PROVE  RunInv'
<1>1. /\ op.todo # <<>> /\ Advance(FALSE) /\ desired' = desired /\ ActionOn(Current) = None /\ At("next")
      /\ UNCHANGED runtimeVars /\ mcp' = mcp /\ op.kind # "none"
  BY DEF Skipped, Applying
<1>2. PICK first \in Components : first = Current
  BY <1>1, First
<1>3. running' = running /\ OwnedInv' /\ (Busy' <=> Busy) /\ ~Busy
  <2>1. running' = running /\ call' = call
    BY <1>1 DEF runtimeVars
  <2>2. OwnedInv'
    BY <1>1, OwnedSame DEF RunInv
  <2>3. ~Busy
    BY <1>1 DEF RunInv, CalledInv, At
  <2> QED
    BY <2>1, <2>2, <2>3 DEF Busy
<1>4. \A c \in Components : IsRunning(c)' <=> IsRunning(c)
  BY <1>1, <1>3 DEF IsRunning
<1>5. CASE op.kind \in {"boot", "reconcile"}
  <2>1. Actual(first, IF IsRunning(first) THEN "running" ELSE "stopped")
    BY <1>2, <1>5 DEF Skipped
  <2>2. /\ status'[first].actual = IF IsRunning(first) THEN "running" ELSE "stopped"
        /\ \A c \in Components \ {first} : status'[c].actual = status[c].actual
    BY <2>1, ActualFields DEF Actuals
  <2>3. desired[first] = "stopped" => ~IsRunning(first)
    BY <1>1, <1>2, <1>5, NoneIsNothing DEF NoteInv, ActionOn, Actions
  <2>4. Truthful(first)'
    BY <1>4, <2>2 DEF Truthful, IsRunning
  <2> QED
    BY <1>1, <1>2, <1>3, <1>4, <1>5, <2>2, <2>3, <2>4, RunAdvances DEF At, Holds
<1>6. CASE op.kind \notin {"boot", "reconcile"}
  <2>1. status' = status
    BY <1>6 DEF Skipped
  <2>2. op.kind \in {"shutdown", "quiesce", "requiesce"}
    <3>1. op.kind # "undo"
      BY <1>1, <1>2, NoneIsNothing DEF ActionOn, Actions
    <3>2. op.kind # "transition"
      <4>1. op.kind = "transition" => ActionOn(Current) = op.action /\ op.action \in Actions
        BY DEF ActionOn, Typed, OpShape, Holds
      <4> QED
        BY <1>1, <4>1, NoneIsNothing
    <3> QED
      BY <1>1, <1>6, <3>1, <3>2, WorkingKinds
  <2>3. ~IsRunning(first)
    BY <1>1, <1>2, <2>2, NoneIsNothing DEF ActionOn, Actions
  <2>4. Truthful(first)'
    <3>1. Truthful(first)
      BY <1>1 DEF RunInv, ActualInv, At
    <3> QED
      BY <1>4, <2>1, <3>1 DEF Truthful, IsRunning
  <2> QED
    BY <1>1, <1>2, <1>3, <1>4, <2>1, <2>3, <2>4, RunAdvances DEF At, Holds
<1> QED
  BY <1>5, <1>6

\* So does the MCP workload.
LEMMA RunMcp ==
  ASSUME Typed, NoteInv, RunInv, McpApplied
  PROVE  RunInv'
<1>1. /\ op.todo # <<>> /\ Advance(TRUE) /\ desired' = desired /\ At("next")
      /\ Current = "mcp" /\ ActionOn("mcp") # None
      /\ mcp' = (ActionOn("mcp") # "stop")
      /\ Actual("mcp", IF mcp' THEN "running" ELSE "stopped")
      /\ UNCHANGED runtimeVars
  BY DEF McpApplied, Applying
<1>2. "mcp" \in Components
  BY DEF Components
<1>3. running' = running /\ OwnedInv' /\ (Busy' <=> Busy) /\ ~Busy
  <2>1. running' = running /\ call' = call
    BY <1>1 DEF runtimeVars
  <2>2. OwnedInv'
    BY <1>1, OwnedSame DEF RunInv
  <2>3. ~Busy
    BY <1>1 DEF RunInv, CalledInv, At
  <2> QED
    BY <2>1, <2>2, <2>3 DEF Busy
<1>4. \A c \in Components \ {"mcp"} : IsRunning(c)' <=> IsRunning(c)
  BY <1>3 DEF IsRunning
<1>5. /\ status'["mcp"].actual = IF mcp' THEN "running" ELSE "stopped"
      /\ \A c \in Components \ {"mcp"} : status'[c].actual = status[c].actual
  BY <1>1, <1>2, ActualFields DEF Actuals
<1>6. Truthful("mcp")'
  BY <1>5 DEF Truthful, IsRunning
<1>7. Left # {} /\ "mcp" \in Left
  BY <1>1, First DEF Left
<1>8. desired["mcp"] = "stopped" => ActionOn("mcp") = "stop"
  <2> SUFFICES ASSUME desired["mcp"] = "stopped" PROVE ActionOn("mcp") = "stop"
    OBVIOUS
  <2>1. CASE op.kind \in {"boot", "reconcile"}
    BY <1>1, <1>2, <2>1 DEF NoteInv, ActionOn
  <2>2. CASE op.kind = "transition"
    <3>1. Intent(op.action) = "stopped"
      BY <1>7, <2>2 DEF NoteInv, Holds
    <3>2. op.action = "stop"
      BY <3>1 DEF Intent
    <3> QED
      BY <2>2, <3>2 DEF ActionOn
  <2>3. CASE op.kind \in {"shutdown", "quiesce", "requiesce"}
    BY <1>1, <2>3 DEF ActionOn
  <2>4. op.kind # "undo"
    BY <1>7 DEF RunInv, UndoInv, Holds
  <2> QED
    BY <1>1, <2>1, <2>2, <2>3, <2>4, WorkingKinds
<1>9. op.kind \in {"quiesce", "requiesce"} => ActionOn("mcp") = "stop" /\ IsRunning("mcp")
  BY <1>1 DEF ActionOn
<1>10. Holds("quiesce") => desired["mcp"] = "running"
  <2>1. Holds("quiesce") => ~Exempt("mcp")
    BY DEF Exempt, Holds
  <2>2. desired["mcp"] \in {"running", "stopped"}
    BY <1>2 DEF Typed, Intents
  <2> QED
    BY <1>2, <1>9, <2>1, <2>2 DEF RunInv, IntentInv, Holds
<1>11. IsRunning("mcp")' <=> ActionOn("mcp") # "stop"
  BY <1>1 DEF IsRunning
<1> QED
  BY <1>1, <1>2, <1>3, <1>4, <1>5, <1>6, <1>8, <1>9, <1>10, <1>11, RunAdvances DEF At

\* So does an answer of the scheduler.
LEMMA RunApplied ==
  ASSUME Typed, NoteInv, RunInv, SchedulerApplied
  PROVE  RunInv'
<1>1. /\ At("called") /\ call = "ok" /\ desired' = desired /\ Advance(TRUE)
      /\ ~(op.action = "restart" /\ status["scheduler"].actual = "stopping")
      /\ Actual("scheduler", IF op.action = "stop" THEN "stopped" ELSE "running")
      /\ UNCHANGED runtimeVars /\ mcp' = mcp
  BY DEF SchedulerApplied, Answered
<1>2. op.todo = <<"scheduler">> /\ op.todo # <<>> /\ "scheduler" \in Components
  BY <1>1, Distinct DEF Typed, OpShape, Components
<1>3. Current = "scheduler" /\ "scheduler" \in Left
  BY <1>2, First DEF Left
<1>4. /\ \A c \in Components \ {"scheduler"} : status'[c].actual = status[c].actual
      /\ status'["scheduler"].actual = IF op.action = "stop" THEN "stopped" ELSE "running"
  BY <1>1, <1>2, ActualFields DEF Actuals
<1>5. running' = running /\ OwnedInv' /\ ~Busy'
  <2>1. running' = running /\ call' = call
    BY <1>1 DEF runtimeVars
  <2>2. OwnedInv'
    BY <1>1, OwnedSame DEF RunInv
  <2> QED
    BY <1>1, <2>1, <2>2 DEF Busy
<1>6. \A c \in Components : IsRunning(c)' <=> IsRunning(c)
  BY <1>1, <1>5 DEF IsRunning
<1>7. op.action = "stop" => ~running
  <2>1. op.action = "stop" => handle = None
    BY <1>1 DEF RunInv, CalledInv
  <2> QED
    BY <2>1, NoHandle DEF RunInv
<1>8. Truthful("scheduler")'
  BY <1>4, <1>5, <1>7 DEF Truthful, IsRunning
<1>9. op.kind \in {"quiesce", "requiesce", "shutdown"} => op.action = "stop"
  BY <1>1 DEF Typed, OpShape
<1>10. desired["scheduler"] = "stopped" => op.action = "stop"
  <2> SUFFICES ASSUME desired["scheduler"] = "stopped" PROVE op.action = "stop"
    OBVIOUS
  <2>1. CASE op.kind \in {"boot", "reconcile"}
    BY <1>1, <2>1 DEF NoteInv
  <2>2. CASE op.kind = "transition"
    <3>1. Intent(op.action) = "stopped"
      BY <1>3, <2>2 DEF NoteInv, Holds
    <3> QED
      BY <3>1 DEF Intent
  <2>3. op.kind # "undo"
    BY <1>1 DEF Typed, OpShape, Holds, At
  <2> QED
    BY <1>2, <1>9, <2>1, <2>2, <2>3, WorkingKinds
<1>11. ~IsRunning("scheduler") <=> ~running
  BY DEF IsRunning
<1> QED
  BY <1>1, <1>2, <1>3, <1>4, <1>5, <1>6, <1>7, <1>8, <1>9, <1>10, <1>11, RunAdvances

\* And its calls.
LEMMA RunCalled ==
  ASSUME Typed, NoteInv, RunInv, SchedulerCalled \/ SchedulerStoppedToRestart
  PROVE  RunInv'
<1>0. "scheduler" \in Components
  BY DEF Components
<1>1. CASE SchedulerCalled
  <2>1. /\ op.todo # <<>> /\ desired' = desired /\ mcp' = mcp
        /\ Current = "scheduler" /\ ActionOn("scheduler") # None
        /\ op' = [op EXCEPT !.at = "called", !.action = ActionOn("scheduler")]
    BY <1>1 DEF SchedulerCalled, Applying
  <2>2. /\ op'.kind = op.kind /\ op'.action = ActionOn("scheduler") /\ op'.at = "called"
        /\ op'.todo = op.todo /\ op'.undo = op.undo /\ Left' = Left
    BY <2>1 DEF Typed, OpShape, Left
  <2>3. "scheduler" \in Left
    BY <2>1, First DEF Left
  <2>4. \E a \in {"starting", "stopping"} :
          /\ Actual("scheduler", a)
          /\ a = "starting" <=> ActionOn("scheduler") = "start"
          /\ a = "starting" => Start
          /\ a = "stopping" => Stop
    <3>1. CASE ActionOn("scheduler") = "start"
      BY <1>1, <3>1 DEF SchedulerCalled
    <3>2. CASE ActionOn("scheduler") # "start"
      BY <1>1, <3>2 DEF SchedulerCalled
    <3> QED
      BY <3>1, <3>2
  <2>5. PICK a \in {"starting", "stopping"} :
          /\ Actual("scheduler", a)
          /\ a = "starting" <=> ActionOn("scheduler") = "start"
          /\ a = "starting" => Start
          /\ a = "stopping" => Stop
    BY <2>4
  <2>6. /\ \A c \in Components \ {"scheduler"} : status'[c].actual = status[c].actual
        /\ status'["scheduler"].actual = a
    BY <1>0, <2>5, ActualFields DEF Actuals
  <2>7. OwnedInv' /\ (running' => running) /\ CalledInv'
    <3>1. CASE a = "starting"
      BY <2>2, <2>5, <2>6, <3>1, OwnedStart DEF RunInv, CalledInv, At
    <3>2. CASE a = "stopping"
      BY <2>2, <2>5, <2>6, <3>2, OwnedStop DEF RunInv, CalledInv, At
    <3> QED
      BY <3>1, <3>2
  <2>8. \A c \in Components : IsRunning(c)' => IsRunning(c)
    BY <2>1, <2>7 DEF IsRunning
  <2>9. IntentInv'
    BY <2>1, <2>2, <2>8 DEF RunInv, IntentInv, Exempt
  <2>10. UndoInv'
    BY <2>1, <2>2 DEF RunInv, UndoInv, Holds
  <2>11. QuietInv'
    BY <2>2, <2>8 DEF RunInv, QuietInv, At
  <2>12. At("next")
    BY <1>1 DEF SchedulerCalled, Applying
  <2>13. ActualInv'
    BY <2>2, <2>6, <2>8, <2>12 DEF RunInv, ActualInv, Truthful, At
  <2> QED
    BY <2>7, <2>9, <2>10, <2>11, <2>13 DEF RunInv
<1>2. CASE SchedulerStoppedToRestart
  <2>1. /\ At("called") /\ op.action = "restart" /\ desired' = desired /\ mcp' = mcp /\ op' = op
        /\ Start /\ Actual("scheduler", "starting") /\ Left' = Left
    BY <1>2 DEF SchedulerStoppedToRestart, Answered, Left
  <2>2. /\ \A c \in Components \ {"scheduler"} : status'[c].actual = status[c].actual
        /\ status'["scheduler"].actual = "starting"
    BY <1>0, <2>1, ActualFields DEF Actuals
  <2>3. OwnedInv' /\ (running' <=> running) /\ CalledInv'
    BY <2>1, <2>2, OwnedStart DEF RunInv, CalledInv, At
  <2>4. \A c \in Components : IsRunning(c)' <=> IsRunning(c)
    BY <2>1, <2>3 DEF IsRunning
  <2>5. IntentInv' /\ UndoInv' /\ QuietInv'
    BY <2>1, <2>4 DEF RunInv, IntentInv, Exempt, UndoInv, QuietInv, Holds, At
  <2>6. ActualInv'
    BY <2>1, <2>2, <2>4 DEF RunInv, ActualInv, Truthful, At
  <2> QED
    BY <2>3, <2>5, <2>6 DEF RunInv
<1> QED
  BY <1>1, <1>2

\* And its errors, which leave nothing that runs against its intent.
LEMMA RunFailed ==
  ASSUME Typed, NoteInv, RunInv, SchedulerFailed
  PROVE  RunInv'
<1>0. "scheduler" \in Components
  BY DEF Components
<1>1. /\ At("called") /\ call = "error" /\ desired' = desired /\ mcp' = mcp
      /\ UNCHANGED runtimeVars /\ Actual("scheduler", "failed") /\ op' = AfterFailure
  BY DEF SchedulerFailed, Answered
<1>2. ~running /\ running' = running /\ ~Busy' /\ OwnedInv'
  <2>1. handle = None
    BY <1>1 DEF RunInv, CalledInv
  <2>2. ~running
    BY <2>1, NoHandle DEF RunInv
  <2>3. running' = running /\ call' = call
    BY <1>1 DEF runtimeVars
  <2>4. OwnedInv'
    BY <1>1, OwnedSame DEF RunInv
  <2> QED
    BY <1>1, <2>2, <2>3, <2>4 DEF Busy
<1>3. /\ \A c \in Components \ {"scheduler"} : status'[c].actual = status[c].actual
      /\ status'["scheduler"].actual = "failed"
  BY <1>0, <1>1, ActualFields DEF Actuals
<1>4. op.todo = <<"scheduler">> /\ Left = {"scheduler"}
  BY <1>1, Members DEF Typed, OpShape, Left
<1>5. /\ op'.kind \in {"undo", "maintenance", "none"} /\ op'.at # "called"
      /\ op'.kind = "undo" => op.kind = "quiesce" /\ Left' = Range(op.undo)
      /\ op'.at = "quiet" => op.kind = "requiesce"
  <2>1. CASE op.kind = "quiesce"
    <3>1. op' = [kind |-> "undo", action |-> None, at |-> "next", todo |-> Reverse(op.undo),
                 undo |-> <<>>, tries |-> 0]
      BY <1>1, <2>1 DEF AfterFailure, Op
    <3>2. Reverse(op.undo) = op.undo
      <4>1. op.undo \in {<<>>, <<"mcp">>}
        BY <1>4, <2>1 DEF Typed, OpShape, Holds
      <4> QED
        BY <4>1, Short
    <3>3. Left' = Range(op.undo)
      BY <3>1, <3>2 DEF Left
    <3> QED
      BY <2>1, <3>1, <3>3
  <2>2. CASE op.kind = "reconcile"
    <3>1. op' = Maintenance("failed")
      BY <1>1, <2>2 DEF AfterFailure
    <3> QED
      BY <3>1, MaintenanceFields
  <2>3. CASE op.kind = "requiesce"
    <3>1. op' = Maintenance("quiet")
      BY <1>1, <2>3 DEF AfterFailure
    <3> QED
      BY <2>3, <3>1, MaintenanceFields
  <2>4. CASE op.kind \notin {"quiesce", "reconcile", "requiesce"}
    <3>1. op' = Free
      BY <1>1, <2>4 DEF AfterFailure
    <3> QED
      BY <3>1, FreeShape
  <2> QED
    BY <2>1, <2>2, <2>3, <2>4
<1>6. CalledInv'
  BY <1>2, <1>5 DEF CalledInv, At
<1>7. IntentInv'
  <2>1. desired["mcp"] = "stopped" => ~mcp
    BY <1>4 DEF RunInv, IntentInv, Exempt, IsRunning, Components
  <2> QED
    BY <1>1, <1>2, <2>1 DEF IntentInv, IsRunning, Components
<1>8. UndoInv'
  BY <1>1, <1>5 DEF RunInv, UndoInv, Holds
<1>9. QuietInv'
  <2>1. op.kind = "requiesce" => ~mcp
    BY <1>4 DEF RunInv, QuietInv, IsRunning, Components
  <2> QED
    BY <1>1, <1>2, <1>5, <2>1 DEF QuietInv, At, IsRunning, Components
<1>10. ActualInv'
  <2>1. Truthful("mcp")
    BY DEF RunInv, ActualInv, Components
  <2> QED
    BY <1>1, <1>2, <1>3, <2>1 DEF ActualInv, Truthful, IsRunning, Components
<1> QED
  BY <1>2, <1>6, <1>7, <1>8, <1>9, <1>10 DEF RunInv

\* The beginning or the end of an operation, by what it must leave of intent and quiet.
LEMMA RunBetween ==
  ASSUME Typed, RunInv, UNCHANGED runtimeVars, mcp' = mcp, ~At("called"), op'.at # "called",
         \A c \in Components :
           \/ status'[c].actual = status[c].actual
           \/ status'[c].actual = "failed" /\ ~IsRunning(c),
         IntentInv', UndoInv', QuietInv'
  PROVE  RunInv'
<1>1. OwnedInv'
  BY OwnedSame DEF RunInv
<1>2. running' = running /\ call' = call
  BY DEF runtimeVars
<1>3. CalledInv'
  BY <1>2 DEF RunInv, CalledInv, Busy, At
<1>4. ActualInv'
  BY <1>2 DEF RunInv, ActualInv, Truthful, IsRunning
<1> QED
  BY <1>1, <1>3, <1>4 DEF RunInv

\* An operation that has handled everything, or has nothing to handle, exempts nothing.
LEMMA Settled ==
  ASSUME Typed, RunInv, ~(op.kind \in {"boot", "transition", "reconcile"} /\ op.todo # <<>>)
  PROVE  \A c \in Components : desired[c] = "stopped" => ~IsRunning(c)
<1>1. op.todo = <<>> => Left = {}
  BY Members DEF Left
<1> QED
  BY <1>1 DEF RunInv, IntentInv, Exempt

\* The beginning and the end of an operation keep it.
LEMMA RunOperate ==
  ASSUME Typed, NoteInv, RunInv,
         Operate \/ ShutdownBegun \/ QuiesceBegun \/ RestartFromPersisted \/ DatabaseReplaced
  PROVE  RunInv'
<1>0. /\ \A c \in Components :
           \/ Refreshed[c].actual = status[c].actual
           \/ Refreshed[c].actual = "failed" /\ ~IsRunning(c)
      /\ UNCHANGED <<runtimeVars, mcp>> => \A c \in Components : IsRunning(c)' <=> IsRunning(c)
  BY RefreshedFields DEF runtimeVars, IsRunning
<1>1. CASE BootDone \/ TransitionDone \/ ShutdownDone \/ UndoDone \/ MaintenanceDone
  <2>1. /\ op' = Free /\ UNCHANGED <<runtimeVars, mcp>> /\ desired' = desired
        /\ status' \in {status, Refreshed} /\ ~At("called") /\ op.todo = <<>>
    BY <1>1 DEF BootDone, TransitionDone, ShutdownDone, UndoDone, MaintenanceDone, Done, At,
                Typed, OpShape, Holds
  <2>2. op'.kind = "none" /\ op'.at = "next"
    BY <2>1, FreeShape
  <2>3. IntentInv'
    BY <1>0, <2>1, Settled DEF IntentInv
  <2>4. UndoInv' /\ QuietInv'
    BY <2>2 DEF UndoInv, QuietInv, Holds, At
  <2> QED
    BY <1>0, <2>1, <2>2, <2>3, <2>4, RunBetween
<1>2. CASE QuiesceDone \/ ReconcileDone
  <2>1. /\ UNCHANGED <<runtimeVars, mcp>> /\ desired' = desired
        /\ status' \in {status, Refreshed} /\ ~At("called") /\ op.todo = <<>>
    BY <1>2 DEF QuiesceDone, ReconcileDone, Done, At
  <2>2. /\ op'.kind = "maintenance" /\ op'.at \in {"quiet", "restarted"}
        /\ op'.at = "quiet" => op.kind \in {"quiesce", "requiesce"}
    <3>1. CASE QuiesceDone
      BY <3>1, MaintenanceFields DEF QuiesceDone, Done, Holds
    <3>2. CASE ReconcileDone
      BY <3>2, MaintenanceFields DEF ReconcileDone
    <3> QED
      BY <1>2, <3>1, <3>2
  <2>3. IntentInv'
    BY <1>0, <2>1, Settled DEF IntentInv
  <2>4. QuietInv'
    <3>1. Left = {}
      BY <2>1, Members DEF Left
    <3> QED
      BY <1>0, <2>1, <2>2, <3>1 DEF RunInv, QuietInv, At
  <2>5. UndoInv'
    BY <2>2 DEF UndoInv, Holds
  <2> QED
    BY <1>0, <2>1, <2>2, <2>3, <2>4, <2>5, RunBetween
<1>3. CASE TransitionNoted
  <2>1. /\ At("persisted") /\ UNCHANGED <<runtimeVars, mcp>> /\ desired' = desired
        /\ op' = [op EXCEPT !.at = "next"]
    BY <1>3 DEF TransitionNoted
  <2>2. op'.kind = op.kind /\ op'.at = "next" /\ Left' = Left /\ op.kind = "transition" /\ ~At("called")
    BY <2>1 DEF Typed, OpShape, Left, Holds, At
  <2>3. \A c \in Components : status'[c].actual = status[c].actual
    BY <1>3 DEF TransitionNoted, Typed
  <2>4. IntentInv'
    BY <1>0, <2>1, <2>2 DEF RunInv, IntentInv, Exempt
  <2>5. UndoInv' /\ QuietInv'
    BY <2>2 DEF UndoInv, QuietInv, Holds, At
  <2> QED
    BY <2>1, <2>2, <2>3, <2>4, <2>5, RunBetween
<1>4. CASE ShutdownBegun \/ QuiesceBegun \/ QuiesceAgain
  <2>1. /\ UNCHANGED <<runtimeVars, mcp>> /\ desired' = desired /\ status' = status
        /\ op.kind \in {"none", "maintenance"}
        /\ \E kind \in {"shutdown", "quiesce", "requiesce"}, tries \in {0, op.tries} :
              op' = Op(kind, None, Both, <<>>, tries)
    BY <1>4 DEF ShutdownBegun, QuiesceBegun, QuiesceAgain, Holds
  <2>2. /\ op'.kind \in {"shutdown", "quiesce", "requiesce"} /\ op'.at = "next"
        /\ op'.todo = Both /\ op'.undo = <<>>
    BY <2>1 DEF Op
  <2>3. Left' = Components /\ Range(op'.undo) = {}
    BY <2>2, Members DEF Left
  <2>4. ~At("called")
    BY <2>1 DEF Typed, OpShape, Holds, At
  <2>5. IntentInv'
    BY <1>0, <2>1, Settled DEF IntentInv
  <2>6. UndoInv' /\ QuietInv'
    BY <2>2, <2>3 DEF UndoInv, QuietInv, Holds, At
  <2> QED
    BY <2>1, <2>2, <2>4, <2>5, <2>6, RunBetween
<1>5. CASE RestartFromPersisted
  <2>1. /\ UNCHANGED <<runtimeVars, mcp>> /\ desired' = desired /\ At("quiet")
        /\ op' = Op("reconcile", None, Both, <<>>, op.tries + 1)
    BY <1>5 DEF RestartFromPersisted
  <2>2. op'.kind = "reconcile" /\ op'.at = "next" /\ op'.todo = Both
    BY <2>1 DEF Op
  <2>3. IntentInv'
    <3>1. Left' = Components
      BY <2>2, Members DEF Left
    <3> QED
      BY <2>2, <3>1 DEF IntentInv, Exempt
  <2>4. UndoInv' /\ QuietInv'
    BY <2>2 DEF UndoInv, QuietInv, Holds, At
  <2>5. \A c \in Components : status'[c].actual = status[c].actual
    BY <1>5 DEF RestartFromPersisted, Typed
  <2>6. ~At("called")
    BY <2>1 DEF At
  <2> QED
    BY <2>1, <2>2, <2>3, <2>4, <2>5, <2>6, RunBetween
<1>6. CASE DatabaseReplaced
  <2>1. /\ UNCHANGED <<runtimeVars, mcp>> /\ status' = status /\ op' = op
        /\ At("quiet") /\ Holds("maintenance")
    BY <1>6 DEF DatabaseReplaced
  <2>2. \A c \in Components : ~IsRunning(c)'
    BY <1>0, <2>1 DEF RunInv, QuietInv
  <2>3. IntentInv' /\ QuietInv'
    BY <2>2 DEF IntentInv, QuietInv
  <2>4. UndoInv'
    BY <2>1 DEF UndoInv, Holds
  <2>5. ~At("called") /\ op'.at # "called"
    BY <2>1 DEF At
  <2> QED
    BY <2>1, <2>3, <2>4, <2>5, RunBetween
<1> QED
  BY <1>1, <1>2, <1>3, <1>4, <1>5, <1>6 DEF Operate

\* The invariant is inductive until a call is dropped, given the types and the intent noted.
LEMMA RunStep ==
  Typed /\ NoteInv /\ (~dropped => RunInv) /\ [Next]_vars => (~dropped => RunInv)'
<1> SUFFICES ASSUME Typed, NoteInv, ~dropped => RunInv, [Next]_vars, ~dropped' PROVE RunInv'
  OBVIOUS
<1>1. ~Dropped
  BY DEF Dropped
<1>2. RunInv
  <2>1. dropped' = dropped
    BY <1>1 DEF Next, Apply, Operate, Runtime, StatusRead, TransitionPersisted, ShutdownBegun,
       QuiesceBegun, RestartFromPersisted, DatabaseReplaced, Skipped, McpApplied, SchedulerCalled,
       SchedulerStoppedToRestart, SchedulerApplied, SchedulerFailed, BootDone, TransitionNoted,
       TransitionDone, ShutdownDone, QuiesceDone, UndoDone, ReconcileDone, QuiesceAgain,
       MaintenanceDone, vars
  <2> QED
    BY <2>1
<1>3. ASSUME NEW sel \in Selections, NEW action \in Actions, TransitionPersisted(sel, action)
      PROVE RunInv'
  <2>1. /\ desired' = [c \in Components |-> IF c \in Range(sel) THEN Intent(action) ELSE desired[c]]
        /\ op' = [kind |-> "transition", action |-> action, at |-> "persisted", todo |-> sel,
                  undo |-> <<>>, tries |-> 0]
        /\ UNCHANGED runtimeVars /\ mcp' = mcp /\ status' = status /\ Holds("none")
    BY <1>3 DEF TransitionPersisted, Wished, Op
  <2>2. Left' = Range(sel)
    BY <2>1 DEF Left
  <2>3. \A c \in Components : IsRunning(c)' <=> IsRunning(c)
    BY <2>1 DEF IsRunning, runtimeVars
  <2>4. \A c \in Components : desired[c] = "stopped" => ~IsRunning(c)
    BY <1>2, <2>1, Settled DEF Holds
  <2>5. IntentInv'
    BY <2>1, <2>2, <2>3, <2>4 DEF IntentInv, Exempt
  <2>6. UndoInv' /\ QuietInv'
    BY <2>1 DEF UndoInv, QuietInv, Holds, At
  <2>7. ~At("called") /\ op'.at # "called"
    BY <2>1 DEF Typed, OpShape, Holds, At
  <2> QED
    BY <1>2, <2>1, <2>5, <2>6, <2>7, RunBetween
<1>4. CASE StatusRead \/ UNCHANGED vars
  <2>1. /\ UNCHANGED <<desired, mcp, op>> /\ UNCHANGED runtimeVars /\ status' \in {status, Refreshed}
        /\ Left' = Left
    BY <1>4 DEF StatusRead, vars, Left
  <2>2. running' = running /\ call' = call /\ handle' = handle
    BY <2>1 DEF runtimeVars
  <2>3. OwnedInv'
    BY <1>2, <2>1, OwnedSame DEF RunInv
  <2>4. \A c \in Components :
          \/ status'[c].actual = status[c].actual
          \/ status'[c].actual = "failed" /\ ~IsRunning(c) /\ status[c].actual = "running"
    BY <2>1, RefreshedFields
  <2>5. CalledInv'
    BY <1>2, <2>1, <2>2, <2>4 DEF RunInv, CalledInv, Busy, At, Components
  <2>6. IntentInv' /\ UndoInv' /\ QuietInv'
    BY <1>2, <2>1, <2>2 DEF RunInv, IntentInv, Exempt, UndoInv, QuietInv, IsRunning, Holds, At
  <2>7. ActualInv'
    BY <1>2, <2>1, <2>2, <2>4 DEF RunInv, ActualInv, Truthful, IsRunning, At
  <2> QED
    BY <2>3, <2>5, <2>6, <2>7 DEF RunInv
<1> QED
  BY <1>1, <1>2, <1>3, <1>4, RunSkipped, RunMcp, RunApplied, RunCalled, RunFailed, RunOperate,
     RunRuntime DEF Next, Apply

\* It holds at the start: the MCP workload runs, and is noted, before the boot (Init).
LEMMA RunInit == Init => RunInv
<1> SUFFICES ASSUME Init PROVE RunInv
  OBVIOUS
<1>1. op.kind = "boot" /\ op.at = "next" /\ op.todo = Both
  BY DEF Init, Op
<1>2. Left = Components
  BY <1>1, Members DEF Left
<1>3. /\ call = None /\ ~running /\ \A s \in Slots : loop[s] = "free"
  BY DEF Init, RuntimeInit
<1>4. OwnedInv /\ CalledInv
  BY <1>1, <1>3, NoneIsNothing DEF OwnedInv, CalledInv, Polling, Busy, At
<1>5. IntentInv /\ UndoInv /\ QuietInv
  BY <1>1, <1>2 DEF IntentInv, Exempt, UndoInv, QuietInv, Holds, At
<1>6. ActualInv
  BY DEF Init, ActualInv, Truthful
<1> QED
  BY <1>4, <1>5, <1>6 DEF RunInv

WorkloadInv == Typed /\ NoteInv /\ (~dropped => RunInv)

\* The inductive invariant holds in every reachable state, with any number of
\* loops alive: what the controller notes, intends and runs agree (workloads.rs).
THEOREM WorkloadSoundness == Spec => []WorkloadInv
<1>1. Init => WorkloadInv
  BY TypedInit, NoteInit, RunInit DEF WorkloadInv
<1>2. WorkloadInv /\ [Next]_vars => WorkloadInv'
  <2> SUFFICES ASSUME WorkloadInv, [Next]_vars PROVE WorkloadInv'
    OBVIOUS
  <2> HIDE DEF Next, vars
  <2> QED
    BY TypedStep, NoteStep, RunStep DEF WorkloadInv
<1> QED
  BY <1>1, <1>2, PTL DEF Spec

\* While a restore holds the workloads quiesced, neither serves nor polls
\* (quiesce_for_maintenance, quiesce_again).
THEOREM QuietUnderMaintenance == Spec => []MaintenanceQuiet
<1>1. WorkloadInv => MaintenanceQuiet
  BY DEF WorkloadInv, RunInv, QuietInv, OwnedInv, MaintenanceQuiet, IsRunning, Components
<1> QED
  BY <1>1, WorkloadSoundness, PTL

\* Between operations, what runs is reported as running and nothing as on its
\* way (refresh_runtime_state).
THEOREM StatusSettles == Spec => []SettledTrue
<1>1. WorkloadInv => SettledTrue
  <2> SUFFICES ASSUME WorkloadInv, Holds("none"), ~dropped, NEW c \in Components PROVE Truthful(c)
    BY DEF SettledTrue, Truthful
  <2>1. ~At("called")
    BY DEF WorkloadInv, Typed, OpShape, Holds, At
  <2> QED
    BY <2>1 DEF WorkloadInv, RunInv, ActualInv
<1> QED
  BY <1>1, WorkloadSoundness, PTL

\* Between operations, a workload whose persisted intent is stopped does not run
\* (apply_transition, reconcile_component).
THEOREM StoppedStays == Spec => []StoppedMeansStopped
<1>1. WorkloadInv => StoppedMeansStopped
  <2> SUFFICES ASSUME WorkloadInv, Holds("none"), ~dropped PROVE StoppedMeansStopped
    BY DEF StoppedMeansStopped
  <2>1. Typed /\ RunInv
    BY DEF WorkloadInv
  <2>2. \A c \in Components : desired[c] = "stopped" => ~IsRunning(c)
    BY <2>1, Settled DEF Holds
  <2> QED
    BY <2>1, <2>2 DEF RunInv, OwnedInv, StoppedMeansStopped, IsRunning, Components
<1> QED
  BY <1>1, WorkloadSoundness, PTL
===============================================================================
