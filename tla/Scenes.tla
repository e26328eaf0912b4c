------------------------------- MODULE Scenes -------------------------------
(***************************************************************************)
(* The scene engine: scene_manager.c, scene.c, scene_action.c,             *)
(* libZaeUtil/service_args.c and the commands of cli_scene.c.              *)
(*                                                                         *)
(* All of it runs on the dispatcher thread.  Evaluating an expression can  *)
(* ask a device, and then the thread waits inside the evaluation with the  *)
(* dispatcher running: other events get their handlers called, and the     *)
(* command line can change the scenes, before the evaluation goes on.  The *)
(* functions active at a time are the frames of stack.                     *)
(*                                                                         *)
(* An expression is what the engine can tell about it: [op, target], where *)
(* op is "device" (waits), "event" (reads the SensorEvent arguments),      *)
(* "exec" (calls Scene.Exec of target) or "bad" (does not compile).        *)
(* Values are the number of the event they come from, or 0.                *)
(***************************************************************************)
EXTENDS HashTable, Integers, SequencesExt

CONSTANTS
  Names,         \* the names of scenes
  Crc,           \* their keys in scene_table
  Startup,       \* the scenes of the configuration, in the order they are added
  DeviceEvents,  \* the sources of sensor and device events: [name, class]
  Services,      \* the services that activate scenes
  NewSources,    \* sources the command line may add to a scene,
  NewConditions, \* conditions,
  NewActions,    \* actions, which come without arguments,
  NewArguments,  \* and arguments of an action
  MaxEvents,     \* bound: events in a behaviour
  MaxEdits,      \* bound: changes by the command line in a behaviour
  MaxInputs      \* bound: events and changes together

ASSUME ScenesAssumption ==
  /\ Crc \in [Names -> 0 .. KeyBound - 1]
  /\ \A m, n \in Names : Crc[m] = Crc[n] => m = n
  /\ MaxEvents \in Nat /\ MaxEdits \in Nat /\ MaxInputs \in Nat
  /\ NoItem \notin Nat \cup [key : 0 .. KeyBound - 1, data : Nat]

SameArgument(x, y) == x.stack = y.stack /\ x.name = y.name
RefersToName(e) == e.op = "exec" => e.target \in Names

\* The path of an action: a scene's name, or the text of a command or a script.
SamePath(x, y) == x.target = y.target /\ x.expr = y.expr
IsAction(a) ==
  /\ a = [type |-> a.type, target |-> a.target, expr |-> a.expr, env |-> a.env]
  /\ RefersToName(a.expr)
  /\ a.type \in {"scene", "enable", "disable"} => a.target \in Names

\* Sources, conditions and actions of a scene are lists, and so are the arguments of an
\* action.  No two sources of a scene are the same, no two of its actions have the same path
\* and no two arguments of an action the same name.  What executes or switches a scene does
\* it by a name.
ASSUME StartupAssumption ==
  /\ Startup \in Seq(ToSet(Startup))
  /\ \A c \in ToSet(Startup) :
       /\ c.name \in Names
       /\ c.sources \in Seq(ToSet(c.sources)) /\ IsInjective(c.sources)
       /\ c.conds \in Seq(ToSet(c.conds)) /\ \A e \in ToSet(c.conds) : RefersToName(e)
       /\ c.acts \in Seq(ToSet(c.acts))
       /\ \A p, q \in DOMAIN c.acts : SamePath(c.acts[p], c.acts[q]) => p = q
       /\ \A a \in ToSet(c.acts) :
            /\ IsAction(a)
            /\ a.env \in Seq(ToSet(a.env)) /\ NoItem \notin ToSet(a.env)
            /\ \A x \in ToSet(a.env) : RefersToName(x.value)
            /\ \A p, q \in DOMAIN a.env : SameArgument(a.env[p], a.env[q]) => p = q
  /\ \A e \in NewConditions : RefersToName(e)
  /\ \A a \in NewActions : IsAction(a) /\ a.env = << >>
  /\ NoItem \notin NewArguments /\ \A x \in NewArguments : RefersToName(x.value)

VARIABLES
  table,     \* scene_table: the scenes' numbers, by the CRC of their names
  scene,     \* every scene created; live is FALSE once it is freed
  args,      \* service_stack_table: for each stack that exists, its arguments
  stack,     \* the frames of the functions that are active, innermost last
  dangling,  \* freed memory has been used: anything may happen from here
  events,    \* history: events handled
  edits,     \* history: changes made by the command line
  inUse      \* history: arguments were added to or removed from a running action

vars == <<table, scene, args, stack, dangling, events, edits, inUse>>

-----------------------------------------------------------------------------
NoSource == [name |-> NoItem, class |-> NoItem]
Top == stack[Len(stack)]
Below == SubSeq(stack, 1, Len(stack) - 1)
WithTop(f) == Append(Below, f)

\* The command line, the timers and the event pump get their turn when nothing
\* runs, or while an evaluation waits for a device.
Client == ~dangling /\ (stack # << >> => Top.at = "waiting")

\* i counts the list elements walked, item is the position of the element the
\* walk comes to: they part when an element before it is removed.  arg is the
\* argument whose value is being evaluated elsewhere.  src and pos are the event
\* and the iterator of a handler.  Histories: put are the arguments the frame has
\* stored, clash the stacks that frames above it have claimed since, ran how often
\* each scene was executed, stay the scenes that have been there all the time and
\* of which no source behind the walk was edited, grew whether scene_table has
\* grown.
NewFrame(kind, o) ==
  [kind |-> kind, obj |-> o, at |-> "ready", phase |-> "none", i |-> 0,
   item |-> 1, act |-> 0, arg |-> NoItem, lost |-> FALSE, src |-> NoSource, pos |-> -1,
   put |-> {}, clash |-> {}, ran |-> << >>, stay |-> {}, grew |-> FALSE]

\* A frame above them uses these argument stacks.
Clashing(s, stacks) == [k \in DOMAIN s |-> [s[k] EXCEPT !.clash = @ \cup stacks]]

-----------------------------------------------------------------------------
\* service_args.c

\* service_args_stack_create leaves a stack that exists as it is.
Created(a, st) ==
  [x \in DOMAIN a \cup {st} |-> IF x \in DOMAIN a THEN a[x] ELSE << >>]

\* service_args_stack_destroy
Destroyed(a, sts) == [st \in DOMAIN a \ sts |-> a[st]]

\* service_args_stack_add: nothing happens when the stack does not exist.
Added(a, st, n, v) ==
  [x \in DOMAIN a |-> IF x # st THEN a[x]
                      ELSE [m \in DOMAIN a[x] \cup {n} |-> IF m = n THEN v ELSE a[x][m]]]

\* The event that the SensorEvent service reads.
EventValue ==
  IF "SensorEvent" \in DOMAIN args /\ "EventData" \in DOMAIN args["SensorEvent"]
    THEN args["SensorEvent"]["EventData"] ELSE 0

-----------------------------------------------------------------------------
\* scene_manager.c

Scene(n) == Get(table, Crc[n])          \* scene_manager_get_scene
Exists(n) == Scene(n) # NoItem
NewScene(c) == [name |-> c.name, live |-> TRUE, enabled |-> TRUE,
                sources |-> c.sources, conds |-> c.conds, acts |-> c.acts]
Present == {x.data : x \in Items(table)}

Configured ==
  LET after[n \in 0 .. Len(Startup)] ==
        IF n = 0 THEN variant_hash_init
                 ELSE Insert(after[n - 1], Crc[Startup[n].name], n)
  IN  after[Len(Startup)]

Init ==
  /\ table = Configured
  /\ scene = [n \in 1 .. Len(Startup) |-> NewScene(Startup[n])]
  /\ args = << >>
  /\ stack = << >>
  /\ dangling = FALSE
  /\ events = 0
  /\ edits = 0
  /\ inUse = FALSE

Idle(s) == UNCHANGED <<table, scene, dangling, edits, inUse>> /\ stack' = s

\* scene_exec, entered.
Executing(s, o) ==
  IF scene[o].enabled
    THEN Append(s, [NewFrame("scene", o) EXCEPT !.phase = "cond"]) ELSE s

\* How many sources of the scene match the event: it is executed for each.
Matching(source, src) == source \in {src.name, src.class}
Matches(o, src) == Cardinality({p \in DOMAIN scene[o].sources : Matching(scene[o].sources[p], src)})

\* scene_manager_on_sensor_event and scene_manager_on_vdev_event.
DeviceEvent(src) ==
  /\ Client
  /\ events < MaxEvents /\ events + edits < MaxInputs
  /\ events' = events + 1
  /\ args' = Added(Created(args, "SensorEvent"), "SensorEvent", "EventData", events + 1)
  /\ Idle(Append(Clashing(stack, {"SensorEvent"}),
                 [NewFrame("event", 0) EXCEPT
                    !.src = src, !.stay = Present,
                    !.ran = [o \in DOMAIN scene |-> 0],
                    !.put = {[stack |-> "SensorEvent", name |-> "EventData",
                              value |-> events + 1]}]))

\* scene_manager_on_scene_activation_event: the scene that the service names, if the
\* service is one of its sources.
ActivationEvent(service, n) ==
  /\ Client
  /\ events < MaxEvents /\ events + edits < MaxInputs
  /\ events' = events + 1
  /\ UNCHANGED args
  /\ Idle(IF Exists(n)
            THEN Append(stack, [NewFrame("activation", Scene(n)) EXCEPT
                                  !.src = [name |-> service, class |-> service]])
            ELSE stack)

\* The function on top goes on, and what it needs has not been freed: the list element of
\* a condition is only needed to go on to the next one.
Intact == (Top.obj # 0 => scene[Top.obj].live) /\ (Top.lost => Top.phase = "cond")
Running == ~dangling /\ stack # << >> /\ Intact
Ready(kinds) == Running /\ Top.at = "ready" /\ Top.kind \in kinds

\* The walk has come to another element.
Advanced(f) == [f EXCEPT !.i = @ + 1, !.item = @ + 1, !.at = "ready", !.arg = NoItem]

\* A handler has gone through the sources of the scene it is at.
Sources == scene[Top.obj].sources
SourcesDone == Top.obj # 0 => Top.i >= Len(Sources)

NextScene ==
  /\ Ready({"event"})
  /\ SourcesDone
  /\ After(table, Top.pos) # {}
  /\ LET p == Min(After(table, Top.pos))
     IN  Idle(WithTop([Top EXCEPT !.pos = p, !.obj = table.node[p].data, !.i = 0, !.item = 1]))
  /\ UNCHANGED <<args, events>>

\* One source of the scene: if it matches, the scene is executed.
RunScene ==
  /\ Ready({"event", "activation"})
  /\ ~SourcesDone
  /\ LET o == Top.obj
         f == Advanced(Top)
     IN  Idle(IF Matching(Sources[Top.item], Top.src)
                THEN Executing(WithTop([f EXCEPT !.ran = [x \in DOMAIN @ |->
                                          @[x] + IF x = o THEN 1 ELSE 0]]), o)
                ELSE WithTop(f))
  /\ UNCHANGED <<args, events>>

\* Mutant: the stack is destroyed under another name.
EventArguments_Misspelt == {"SensorEvents"}

EventArguments == {"SensorEvent"}

\* Mutant: the handler of an activation destroys the arguments as well.
EventDone_Always ==
  /\ Ready({"event", "activation"})
  /\ SourcesDone
  /\ Top.kind = "event" => After(table, Top.pos) = {}
  /\ args' = Destroyed(args, EventArguments)
  /\ Idle(Below)
  /\ UNCHANGED events

EventDone ==
  /\ Ready({"event", "activation"})
  /\ SourcesDone
  /\ Top.kind = "event" => After(table, Top.pos) = {}
  /\ args' = IF Top.kind = "event" THEN Destroyed(args, EventArguments) ELSE args
  /\ Idle(Below)
  /\ UNCHANGED events

-----------------------------------------------------------------------------
\* Evaluating an expression: of a condition, of an argument, of a command.

Action == scene[Top.obj].acts[Top.act]
Env == Action.env
StacksOf(a) == IF a.type = "command" THEN {a.env[k].stack : k \in DOMAIN a.env} ELSE {}

\* The argument that env points to.
Arg == IF Top.at = "ready" THEN Env[Top.item] ELSE Top.arg

Evaluating ==
  CASE Top.phase = "cond" -> Top.i < Len(scene[Top.obj].conds)
    [] Top.phase = "args" -> Top.i < Len(Env)
    [] Top.phase = "run"  -> TRUE
    [] OTHER              -> FALSE

Expr ==
  CASE Top.phase = "cond" -> scene[Top.obj].conds[Top.item]
    [] Top.phase = "args" -> Arg.value
    [] Top.phase = "run"  -> Action.expr

\* The stack of an argument is created before the value is evaluated.
Prepared ==
  IF Top.phase = "args" /\ Action.type = "command"
    THEN Created(args, Arg.stack) ELSE args

\* The evaluation leaves the function: to wait, or into another scene.
Away(at) ==
  WithTop([Top EXCEPT !.at = at, !.arg = IF Top.phase = "args" THEN Arg ELSE NoItem])

\* The value v is there (NoItem if there is none); a are the arguments by now.
ConditionOutcome(a, v) ==
  /\ \E match \in IF v = NoItem THEN {FALSE} ELSE BOOLEAN :
       /\ Top.lost => match
       /\ Idle(WithTop(IF match
                         THEN [Top EXCEPT !.phase = "act", !.i = 0, !.item = 1, !.at = "ready",
                                          !.lost = FALSE]
                         ELSE Advanced(Top)))
  /\ args' = a

ArgumentOutcome(a, v) ==
  LET p == Arg
      stored == v # NoItem /\ Action.type = "command"
  IN  /\ args' = IF stored THEN Added(a, p.stack, p.name, v) ELSE a
      /\ Idle(WithTop(Advanced(
           IF stored
             THEN [Top EXCEPT !.put = @ \cup {[stack |-> p.stack, name |-> p.name,
                                               value |-> v]}]
             ELSE Top)))

\* The command has run: the stacks of its arguments are destroyed.
CommandOutcome(a) == args' = Destroyed(a, StacksOf(Action)) /\ Idle(Below)

Outcome(a, v) ==
  CASE Top.phase = "cond" -> ConditionOutcome(a, v)
    [] Top.phase = "args" -> ArgumentOutcome(a, v)
    [] Top.phase = "run"  -> CommandOutcome(a)

Evaluator == Ready({"scene", "command"}) /\ Evaluating

NotCompiled ==
  /\ Evaluator
  /\ Expr.op = "bad"
  /\ Outcome(Prepared, NoItem)
  /\ UNCHANGED events

ReadEvent ==
  /\ Evaluator
  /\ Expr.op = "event"
  /\ Outcome(Prepared, EventValue)
  /\ UNCHANGED events

\* A command class method that reads from the device waits in the dispatcher.
AskDevice ==
  /\ Evaluator
  /\ Expr.op = "device"
  /\ args' = Prepared
  /\ Idle(Away("waiting"))
  /\ UNCHANGED events

\* The answer, or NULL when it was not found.
DeviceAnswers ==
  /\ Running
  /\ Top.at = "waiting"
  /\ \E v \in {0, NoItem} : Outcome(args, v)
  /\ UNCHANGED events

\* scene_exec_impl, the method Exec of the service Scene.
CallScene ==
  /\ Evaluator
  /\ Expr.op = "exec"
  /\ args' = Prepared
  /\ Idle(IF Exists(Expr.target) THEN Executing(Away("called"), Scene(Expr.target))
                                 ELSE Away("called"))
  /\ UNCHANGED events

\* Mutant: the walk does not move on.
SceneReturns_Again ==
  /\ Running
  /\ Top.at = "called"
  /\ Idle(WithTop([Top EXCEPT !.at = "ready"]))
  /\ UNCHANGED <<args, events>>

SceneReturns ==
  /\ Running
  /\ Top.at = "called"
  /\ Outcome(args, 0)
  /\ UNCHANGED events

-----------------------------------------------------------------------------
\* scene_exec and scene_action.c

NoCondition ==
  /\ Ready({"scene"})
  /\ Top.phase = "cond"
  /\ ~Evaluating
  /\ Idle(Below)
  /\ UNCHANGED <<args, events>>

Acts == scene[Top.obj].acts
NextAct == Acts[Top.item]
Acting(types) ==
  /\ Ready({"scene"})
  /\ Top.phase = "act"
  /\ Top.i < Len(Acts)
  /\ NextAct.type \in types

\* scene_action_exec_scene
ExecScene ==
  /\ Acting({"scene"})
  /\ LET f == WithTop(Advanced(Top))
     IN  Idle(IF Exists(NextAct.target) THEN Executing(f, Scene(NextAct.target)) ELSE f)
  /\ UNCHANGED <<args, events>>

\* scene_action_enable_scene, scene_action_disable_scene
SwitchScene ==
  /\ Acting({"enable", "disable"})
  /\ scene' = IF Exists(NextAct.target)
                 THEN [scene EXCEPT ![Scene(NextAct.target)].enabled =
                         (NextAct.type = "enable")]
                 ELSE scene
  /\ stack' = WithTop(Advanced(Top))
  /\ UNCHANGED <<table, args, dangling, events, edits, inUse>>

\* scene_action_exec_command and scene_action_exec_script, entered; a command
\* that does not compile is passed by.
ExecCommand ==
  /\ Acting({"command", "script"})
  /\ LET f == WithTop(Advanced(Top))
     IN  Idle(IF NextAct.type = "command" /\ NextAct.expr.op = "bad" THEN f
              ELSE Append(Clashing(f, StacksOf(NextAct)),
                          [NewFrame("command", Top.obj) EXCEPT
                             !.act = Top.item, !.phase = "args"]))
  /\ UNCHANGED <<args, events>>

\* The arguments are complete: the command is executed, or the script forked.
ArgumentsDone ==
  /\ Ready({"command"})
  /\ Top.phase = "args"
  /\ ~Evaluating
  /\ Idle(IF Action.type = "command" THEN WithTop([Top EXCEPT !.phase = "run"]) ELSE Below)
  /\ UNCHANGED <<args, events>>

SceneDone ==
  /\ Ready({"scene"})
  /\ Top.phase = "act"
  /\ Top.i >= Len(Acts)
  /\ Idle(Below)
  /\ UNCHANGED <<args, events>>

\* A function returns to code that uses what was freed meanwhile.
UseFreed ==
  /\ ~dangling
  /\ stack # << >>
  /\ ~Intact \/ Top.lost
  /\ dangling' = TRUE
  /\ UNCHANGED <<table, scene, args, stack, events, edits, inUse>>

-----------------------------------------------------------------------------
\* cli_scene.c

Edit ==
  /\ Client
  /\ edits < MaxEdits /\ events + edits < MaxInputs
  /\ edits' = edits + 1
  /\ UNCHANGED <<args, dangling, events>>

\* cmd_enter_scene_node, for a scene that is not there: an empty one is added.
AddScene(n) ==
  /\ Edit
  /\ ~Exists(n)
  /\ scene' = Append(scene, NewScene([name |-> n, sources |-> << >>, conds |-> << >>,
                                     acts |-> << >>]))
  /\ table' = Insert(table, Crc[n], Len(scene) + 1)
  /\ stack' = [k \in DOMAIN stack |->
                 [stack[k] EXCEPT !.grew = @ \/ Size(table') # Size(table)]]
  /\ UNCHANGED inUse

\* cmd_del_scene: the scene is freed, whether or not it is being executed.
DelScene(n) ==
  /\ Edit
  /\ Exists(n)
  /\ scene' = [scene EXCEPT ![Scene(n)].live = FALSE]
  /\ table' = Without(table, Crc[n])
  /\ stack' = [k \in DOMAIN stack |-> [stack[k] EXCEPT !.stay = @ \ {Scene(n)}]]
  /\ UNCHANGED inUse

\* cmd_scene_enable, cmd_scene_disable
SwitchByHand(n) ==
  /\ Edit
  /\ Exists(n)
  /\ scene' = [scene EXCEPT ![Scene(n)].enabled = ~@]
  /\ UNCHANGED <<table, stack, inUse>>

\* The element that a walk stands on: the walks of sources and actions have come to the next
\* one already when they execute something.
StandsOn(f) == IF f.phase \in {"cond", "args"} THEN f.item ELSE f.item - 1

\* Element p leaves a list that f walks.  freed: if f stands on it, what it goes on from is
\* freed.  The first element of a list is not freed (stack_remove), and f then stands before
\* the first.  (What f would go on to, were the new first element taken out as well during
\* the same wait, is not followed: f is lost.  Nor is a list followed that loses its only
\* element under f and gets two others during the same wait.)
Cut(f, p, freed) ==
  IF (p = StandsOn(f) /\ freed) \/ (p = 1 /\ StandsOn(f) = 0) THEN [f EXCEPT !.lost = TRUE]
  ELSE IF p <= StandsOn(f) THEN [f EXCEPT !.item = @ - 1] ELSE f

CutAll(s, K, p, freed) == [k \in DOMAIN s |-> IF k \in K THEN Cut(s[k], p, freed) ELSE s[k]]

\* The handlers that have source p of the scene behind them.
Behind(f, n, p) ==
  /\ f.kind = "event"
  /\ Index(Crc[n], Size(table)) < f.pos \/ (f.obj = Scene(n) /\ p < f.item)
Passed(s, n, p) ==
  [k \in DOMAIN s |-> IF Behind(s[k], n, p) THEN [s[k] EXCEPT !.stay = @ \ {Scene(n)}]
                                            ELSE s[k]]
Handlers(o) == {k \in DOMAIN stack : stack[k].kind \in {"event", "activation"} /\ stack[k].obj = o}
Executions(o, phase) ==
  {k \in DOMAIN stack : stack[k].kind = "scene" /\ stack[k].obj = o /\ stack[k].phase = phase}

\* cmd_set_scene_source and scene_add_source
AddSource(n, source) ==
  LET o == Scene(n)
  IN  /\ Edit
      /\ source \notin ToSet(scene[o].sources)
      /\ scene' = [scene EXCEPT ![o].sources = Append(@, source)]
      /\ stack' = Passed(stack, n, Len(scene[o].sources) + 1)
      /\ UNCHANGED <<table, inUse>>

\* cmd_del_scene_source and scene_del_source
DelSource(n, p) ==
  LET o == Scene(n)
  IN  /\ Edit
      /\ scene' = [scene EXCEPT ![o].sources = RemoveAt(@, p)]
      /\ stack' = CutAll(Passed(stack, n, p), Handlers(o), p, p > 1)
      /\ UNCHANGED <<table, inUse>>

\* cmd_set_scene_condition
AddCondition(n, condition) ==
  /\ Edit
  /\ scene' = [scene EXCEPT ![Scene(n)].conds = Append(@, condition)]
  /\ UNCHANGED <<table, stack, inUse>>

\* cmd_del_scene_condition: the first that is the same.
DelCondition(n, p) ==
  LET o == Scene(n)
  IN  /\ Edit
      /\ \A q \in 1 .. p - 1 : scene[o].conds[q] # scene[o].conds[p]
      /\ scene' = [scene EXCEPT ![o].conds = RemoveAt(@, p)]
      /\ stack' = CutAll(stack, Executions(o, "cond"), p, p > 1)
      /\ UNCHANGED <<table, inUse>>

\* The cmd_config_scene_action commands and scene_add_action, which refuses an action whose
\* path another has.
AddAction(n, a) ==
  LET o == Scene(n)
  IN  /\ Edit
      /\ \A x \in ToSet(scene[o].acts) : ~SamePath(x, a)
      /\ scene' = [scene EXCEPT ![o].acts = Append(@, a)]
      /\ UNCHANGED <<table, stack, inUse>>

Runs(f, o, a) == f.kind = "command" /\ f.obj = o /\ f.act = a
Walks(f, o, a) == Runs(f, o, a) /\ f.phase = "args"
Walkers(o, a) == {k \in DOMAIN stack : Walks(stack[k], o, a)}
InUse(o, a) == \E k \in DOMAIN stack : Runs(stack[k], o, a)

\* Action p leaves its scene and is freed: what runs it is lost.
Renumbered(f, o, p) ==
  IF f.kind # "command" \/ f.obj # o \/ f.act < p THEN f
  ELSE IF f.act = p THEN [f EXCEPT !.act = 0, !.lost = TRUE] ELSE [f EXCEPT !.act = @ - 1]

\* The cmd_delete_scene_action commands and scene_del_action
DelAction(n, p) ==
  LET o == Scene(n)
      walks == CutAll(stack, Executions(o, "act"), p, p > 1)
  IN  /\ Edit
      /\ scene' = [scene EXCEPT ![o].acts = RemoveAt(@, p)]
      /\ stack' = [k \in DOMAIN walks |-> Renumbered(walks[k], o, p)]
      /\ inUse' = (inUse \/ InUse(o, p))
      /\ UNCHANGED table

\* cmd_del_action_token and scene_action_del_method_stack_item
DelArgument(n, a, p) ==
  LET o == Scene(n)
  IN  /\ Edit
      /\ scene' = [scene EXCEPT ![o].acts[a].env = RemoveAt(@, p)]
      /\ stack' = CutAll(stack, Walkers(o, a), p, TRUE)
      /\ inUse' = (inUse \/ InUse(o, a))
      /\ UNCHANGED table

\* cmd_add_action_token and scene_action_add_method_stack_item: an argument of
\* that name is taken out first (its list element is freed, but for the first),
\* and the new one comes last.
AddArgument(n, a, arg) ==
  LET o == Scene(n)
      env == scene[o].acts[a].env
      old == {p \in DOMAIN env : SameArgument(env[p], arg)}
      kept == IF old = {} THEN env ELSE RemoveAt(env, Min(old))
      walks == IF old = {} THEN stack
               ELSE CutAll(stack, Walkers(o, a), Min(old), Min(old) > 1)
  IN  /\ Edit
      /\ scene' = [scene EXCEPT ![o].acts[a].env = Append(kept, arg)]
      /\ stack' = IF InUse(o, a) THEN Clashing(walks, {arg.stack}) ELSE walks
      /\ inUse' = (inUse \/ InUse(o, a))
      /\ UNCHANGED table

Commands(n) == {a \in DOMAIN scene[Scene(n)].acts : scene[Scene(n)].acts[a].type = "command"}

EditSource ==
  \E n \in Names :
    /\ Exists(n)
    /\ \/ \E source \in NewSources : AddSource(n, source)
       \/ \E p \in DOMAIN scene[Scene(n)].sources : DelSource(n, p)

EditCondition ==
  \E n \in Names :
    /\ Exists(n)
    /\ \/ \E condition \in NewConditions : AddCondition(n, condition)
       \/ \E p \in DOMAIN scene[Scene(n)].conds : DelCondition(n, p)

EditAction ==
  \E n \in Names :
    /\ Exists(n)
    /\ \/ \E a \in NewActions : AddAction(n, a)
       \/ \E p \in DOMAIN scene[Scene(n)].acts : DelAction(n, p)

EditArgument ==
  \E n \in Names :
    /\ Exists(n)
    /\ \E a \in Commands(n) :
         \/ \E p \in DOMAIN scene[Scene(n)].acts[a].env : DelArgument(n, a, p)
         \/ \E arg \in NewArguments : AddArgument(n, a, arg)

-----------------------------------------------------------------------------
Step ==
  \/ NextScene
  \/ RunScene
  \/ EventDone
  \/ NotCompiled
  \/ ReadEvent
  \/ AskDevice
  \/ DeviceAnswers
  \/ CallScene
  \/ SceneReturns
  \/ NoCondition
  \/ ExecScene
  \/ SwitchScene
  \/ ExecCommand
  \/ ArgumentsDone
  \/ SceneDone
  \/ UseFreed

Next ==
  \/ \E src \in DeviceEvents : DeviceEvent(src)
  \/ \E service \in Services, n \in Names : ActivationEvent(service, n)
  \/ \E n \in Names : AddScene(n)
  \/ \E n \in Names : DelScene(n)
  \/ \E n \in Names : SwitchByHand(n)
  \/ EditSource
  \/ EditCondition
  \/ EditAction
  \/ EditArgument
  \/ Step

Spec == Init /\ [][Next]_vars

\* Handlers run on, and waits end with an answer or a timeout.
FairSpec == Spec /\ WF_vars(Step)
-----------------------------------------------------------------------------
\* The arguments a handler or an action has stored are still there, and still
\* its own, for as long as it runs, unless something that runs inside it uses a
\* stack of the same name: for SensorEvent, that is another event's handler.
ArgumentsHold ==
  \A k \in DOMAIN stack : \A p \in stack[k].put :
    p.stack \notin stack[k].clash =>
      /\ p.stack \in DOMAIN args
      /\ p.name \in DOMAIN args[p.stack]
      /\ args[p.stack][p.name] = p.value

\* When nothing runs, no argument stack is left, whose values the next event
\* would find, unless the arguments of a running action were edited.
NothingLeftBehind == stack = << >> /\ ~inUse => DOMAIN args = {}

\* Each scene that is there from the beginning of an event's handler to its end is
\* executed once for each of its sources that matches, also when sources were added or
\* removed that the handler had not come to, unless scene_table grew meanwhile and moved the
\* scenes under the iterator.  Nothing is said of a scene with a source edited that the
\* handler had behind it: when one is removed, the handler does not get to the scene's last.
EachSceneOnce ==
  [][EventDone /\ Top.kind = "event" /\ ~Top.grew =>
       \A o \in Top.stay \cap DOMAIN Top.ran : Top.ran[o] = Matches(o, Top.src)]_vars

\* Whatever runs comes to its end, when the scenes do not execute each other in a
\* circle (or stops on freed memory).
RunsEnd == (stack # << >>) ~> (stack = << >> \/ dangling)
=============================================================================
