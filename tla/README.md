# A TLA+ verification of zwave-automation-engine

`zwave-automation-engine` is a home automation daemon in C. It talks to a Z-Wave
network through the vendor's Z-Way library, keeps scenes (a source, conditions,
actions) that react to events, runs services (timers, cron, mail, weather...) as
plugins, and serves a command line (telnet), a REST interface and event streams.
Nearly everything runs on one thread: a dispatcher polls three *pumps* (sockets,
timers, events) for ever, and handlers run to completion, except that a handler
which needs an answer from the network calls the dispatcher again and waits
inside it. This re-entrance, and the posts that come from Z-Way's own threads,
are where the difficult behaviour is, and where this project starts. Around them
are many small state machines that meet only through events and commands: what
services, devices, the command line and the expression language each keep.

The modules are plain TLA+, checked with TLC, with proofs for TLAPS.
`PROJECT.json` lists the components, the runs, which source lines each definition
stands for, a mutation of the model that each property catches, the hazards with
their lines, the findings and the theorems.

## 1. Inventory

| component | state it keeps | operations | who calls it, hard behaviour | what makes it correct |
|---|---|---|---|---|
| event pump (`libZaeUtil/event_pump.c`) | two arrays of slots, which of them is current, a list of handlers per event id | send, register, unregister, poll | posts from any thread; handlers post, register, unregister and poll | nothing accepted is lost, each event is handed once to each handler, data is released once and last |
| timer pump (`timer_pump.c`) | a table of timers filled from the front | add, remove, start, stop, poll | callbacks do all of these and poll; compaction while scanning | the table holds the clients' timers, none fires early, none is forgotten |
| socket pump (`socket_pump.c`) | the `pollfd` array and its callbacks | add, remove, set flags, poll | handlers unregister themselves and poll; compaction while scanning; descriptors are reused | entries and sessions match, no session is lost or used after it is freed |
| dispatcher (`event_dispatcher.c`) | `event_dispatcher_joined`, the running flag, the pumps | start, attach, detach, wait | waits nest; all share one flag | a wait ends with its event or its timeout, and does end |
| sessions (`vty.c`, `vty_io.c`, `socket_io.c`, `http_server.c`, `cli_commands.c`, `cli_rest.c`) | buffers, `in_use`, `shutdown`, the descriptor | connect, read, write, flush, subscribe, free | partial sends, failures, clients that leave, commands that wait | unsent data is sent, sessions end |
| logger, event log | targets, a bounded list | log, add, trim | called from every handler; writes to sessions | bound of the list |
| containers (`hash.c`, `stack.c`, `vector.c`, `variant.c`, `byte_buffer.c`) | a hash table without chains that grows on collision; doubly linked lists | insert, get, remove, iterate | changed while iterated | a map, a sequence |
| scene engine (`scene*.c`, `service_args.c`) | scenes, their sources, conditions and actions; named argument stacks | add, delete, execute, enable; event handlers | conditions may wait, so scenes nest and can be deleted while they run | arguments belong to the event at hand |
| scripts (`script_action_handler.c`) and homebridge (`homebridge_manager.c`) | children, a pipe, stored environments | start, stop, child exit | two handlers of one signal, on top of everything | one homebridge, which can be stopped |
| expression compiler (`command_parser.c`, `parser_dfa.c`, `operator.c`) | an operator stack and an operand queue per text | compile to postfix, evaluate | pure | agrees with the grammar |
| command classes (`command_class.c`) | pending requests, in the library | read, send, request and wait | late, lost and failed answers, nested requests | the answer is that of the request |
| Z-Wave callbacks (`device_callbacks.c`, `data_callbacks.c`) | a listener for each report of a command class | attach, hear of a change, post | reports come in any order and again | changes are posted |
| resolver (`resolver.c`) and configured devices (`vdev/BlinkCamera`, `Button`, `Sensor`, `SecuritySystem`) | names and ids, motion state, a timer per report | configure, rename, report motion, expire | a name is taken over and deleted; timers outlive their device | a name has a device behind it, a motion ends |
| Surveillance Station (`vdev/SurveillanceStation`) | a session, cameras, motion counts | log in, list, poll, reset | every request may fail; cameras are renamed | the session is of the current account, a motion ends |
| timers (`services/Timer`) | a list, a configured list, the pump's entries | start, stop, expire | the same timer in three places | stopped and expired timers are gone |
| cron (`services/Cron`) | a tree of time lists, the jobs | add, delete, tick | entries share branches | what runs is due, what is due runs |
| weather (`services/Weather`) | a cache and its age | read, configure, expire | the request fails; settings change | no value is older than it may be |
| console (`cli.c`) | a tree of commands per node | install, find, complete | words match several branches | what runs is what was typed |
| line editor (`vty.c`) | a buffer, a cursor, a history | one key at a time, several bytes a read | buffer and screen are edited apart | the screen shows the buffer |
| scene configuration (`cli_scene.c`, `cli_commands.c`) | the node and the context of a session, startup-config | commands, save, load | sessions share contexts; a save is cut short | a restart brings the same scenes |
| loading, other services, main, Node.js plugins | start-up state | | sequential, or foreign code | |

How they interact: the main loop calls `poll` of the three pumps in the order
sockets, timers, events. Sockets run commands; commands, scene conditions and
timer callbacks call command classes; these call `event_dispatcher_wait`, which
registers a handler and a timer and runs the same three polls until one of them
has come. Z-Way's threads only post to the event pump.

## 2. Plan

In the order of importance. Everything here is done but what the end of the list names.

1. **EventPump**, with the abstract **EventBus** that it implements. Proofs in
   **EventPumpProofs**.
2. **TimerPump**. Proofs in **TimerPumpProofs**.
3. **EventDispatcher**, which extends EventPump with the loops and the waits. Proofs in
   **EventPumpProofs** as well.
4. **SocketPump**, the table of descriptors and the sessions. Proofs in
   **SocketPumpProofs**.
5. **Scenes**: the scene engine on the dispatcher, argument stacks under nested
   events, deletion during execution. It keeps its scenes in a HashTable. Proofs in
   **SceneProofs**.
6. **HashTable**, used by **HashUse** and compared there with **KeyedMap**, both in
   SceneProofs as well;
   **LinkedLists**, the stack and the vector by their pointers; **ListWalk**, the loop
   that removes from the list it walks.
7. **Expressions**: the compiler and the evaluator, a lexeme at a time;
   **ExpressionMeaning**, the grammar they are compared with. Proofs in **ExpressionProofs**.
8. **TimerService**, **Crontab**, **WeatherCache**: the services that keep state.
9. **VirtualDevices**, **Surveillance**, **CommandClasses**, **DataCallbacks**: devices.
10. **Console**, **LineEditor**, **SceneConfig**: the command line. Proofs of the first two in
    **CommandLineProofs**.
11. **ChildProcesses**: homebridge, scripts and filters under signals.
12. **MCServices** checks 8 to 11 and HashUse; **ServiceProofs** and **DeviceProofs**
    prove about 8, 9, 11 and SceneConfig.

Left to prove: what a compiled text means (see the end of section 5). Models to add: the private
dispatcher of the web server's thread; the event log and the sensor roles, if they come to hold
more than a list that is shown.

## 3. Modules and code

Every module that has bounds names them in its CONSTANTS. The bounds on histories
(events, registrations, ids, clock, sessions) are guards in the actions.

### EventPump, EventBus

| model | code |
|---|---|
| `slot`, `next`, `cur` | `queue`, `next_slot`, `current_event_queue_ptr`; the other buffer is `pend` |
| `reg` | the elements of the handler lists of `event_handlers`, numbered by registration; lists are walked in that order because handlers are pushed back. `flagged` is `remove_pending_flag`, `freed` an element that left its list |
| `known` | ids with a list; a list stays when it becomes empty |
| `frame`, `depth` | the activations of `event_pump_poll` on the stack, with their `i`, `e` and the list walked |
| `SendEvent` | `event_pump_send_event`, one step because of `pump_lock` |
| `Register`, `Unregister` | on the dispatcher thread, from code that is not the pump's |
| `PollBegin`, `SkipProcessing`, `TakeEvent`, `CallHandler`, `SkipFlagged`, `HandlerReturns`, `FinishEvent`, `PollEnd` | the loop of `event_pump_poll`, cut where another thread's post or a handler can come between |

An event is its number; the number is also its data pointer. `OwnsData` are the ids
whose events come with `event_free`. The pointer `e` is kept as buffer and index, so
`TopEntry` reads whatever is there *now*, as the code does. `stack_for_each` counts
elements against the current `count` and follows `next`; after an inner poll freed
the element, `Successors` lets its stale pointer lead to any element.

`EventBus` is what clients may rely on: a bounded FIFO, each event handed once to
every subscriber that is there, posts refused only when at least one buffer's worth
waits. The refinement mapping (`Bus` in EventPump) makes the backlog from the rest
of the current buffer and the pending one.

### TimerPump

`table`, `next`, `maxId` are `timer_table`, `next_timer_slot`, `max_timer_id`.
`left` is `current_timeout`, `last` is `last_poll_time`. Time is in units and moves
between any two steps. `since` bounds from below the time a poll of the main loop
may carry: the loop reads the clock, then polls sockets, where a wait may already
poll timers with later times. `due` and `held` are histories that the properties
refer to. After `on_event` the code goes on through a pointer into the table;
`CallbackReturns` acts on the entry at the index by then.

### EventDispatcher

Extends EventPump. `stage` says what each loop (the main one and one per wait) does
next; `StartWait` is `event_dispatcher_wait` and `event_dispatcher_attach` up to the
loop, `EndWait` what follows it. Wait handlers are registered with the address of a
context on the stack, a member of `Addresses`; an address is used again once its
wait is over. The timer pump is abstracted to the number of free table entries and
the freedom to call an armed timeout in any poll. An attach takes an entry and never
gives it back: it stops the timer before it removes it, and `timer_pump_poll` drops
only running timers (`DropDue` of TimerPump).

### SocketPump

`table` and `free` are `fds` with `event_callbacks` and `free_index`; entry 1 is the listening
socket. `vty` holds the sessions in the order of accepting. What `poll` reports, what `accept`
returns, how much of a `send` is taken and what the peers do are choices (marked external in the
map). `again` is whether `errno` is EAGAIN, which `socket_recv` reads although a `recv` that returns
0 does not set it. Every flush, of a command line (`socket_send`), an answer or an event
(`http_flush_cb` with `socket_send_v`), has three outcomes: `SendAll`; `SendPart`, a part or nothing
(EAGAIN), which leaves POLLOUT set on the entry and data `pending`; and `SendFails`, which
unregisters the session. `pending` is what a flush has left. The answer to a request ends its
session, and what was not sent of it is lost with the session when the entry is purged, as in the
code. The answer to a further request on an event stream is only buffered there, and goes with the
next event. An answer whose flush was put off gets its headers built again by the next one; headers
are not modelled. That an accepted socket blocks on Linux, so that its `send` hardly answers EAGAIN,
is not assumed. A session is not freed where it is unregistered: `drop` is the `unsubscribe_arg`
that the entry then keeps for the free at the end of its turn. A descriptor may be -1 (`NoFd`: a
failed `accept` whose session is registered all the same); such entries cannot be told apart by
their descriptor, which is all the pump looks for. When a command finds that its session was freed,
or a session is freed a second time, `dangling` is set and that thread does nothing more: the
behaviour is undefined from there, so the run does not check for deadlock. The handlers of the three
kinds of sessions differ in what follows the command; the contents of commands, HTTP and telnet
negotiation are left out.

### HashTable, HashUse, KeyedMap

`HashTable` holds the operators of `hash.c` on a table `[node, count]`: `Insert`, `Get`, `Without`
(`variant_hash_remove`), `After` (the iterator) and the growth. `IsSize` are the sizes that
`next_prime` finds by residues modulo 30, `IsPrime` is its test. `GrownSize` is the least of them
that is more than twice the old size and at which the items do not collide, which is where the loop
of `variant_hash_insert_data` stops; `Growths` are the growths of one insertion, which calls itself
again while the new item collides. Keys are below `KeyBound` (2^32 in the code), and a table as
large as that collides no more, which bounds both loops. `count` is kept apart from the items, as in
the code, where a growth copies as many items as are counted (`Copied`) and a removal does not
compare keys. A key is the `uint32_t` the clients pass (a CRC, a node number).

`HashUse` is one table with its clients and one iterator; the table may change while
it is iterated over. `KeyedMap` is the map those clients take it for. The mapping is
`Get` for every key. The map has one action more than a map should: removing an absent
key may take away another one, since `variant_hash_remove` deletes whatever has the
same index. The clients look the key up first.

### LinkedLists, ListWalk

`LinkedLists` has the cells of `stack.c` and `vector.c` with their `next` and `prev`, and a
history `listHeld` of what they should hold. Cells are not used again, so that a pointer
to a freed one is seen; a use of one sets `listLost` and ends the behaviour. There is one order of
calls that does it: `vector_pop_front` (`listOrphan`: the first cell points back to the freed one)
and then the removal of what is now first (`listMisused`).
`ListWalk` is `stack_for_each` with a removal in its body: `Reached` is how far the loop gets when
its bound is the length that shrinks, `WalksFreed` whether it goes on from a freed
element. What the allocator has put there is not modelled: its users have a `...Lost`
variable and two outcomes, that the memory is still as it was and that the behaviour ends.
`Picked` is the order-preserving selection that the loop leaves of its list.

### Scenes

| model | code |
|---|---|
| `table` | `scene_table`, a HashTable from the CRC of the name to the scene's number; CRCs of different names differ (`ScenesAssumption`) |
| `scene` | the `scene_t` structures ever created; `live` is FALSE once `scene_delete` has run |
| `args` | `service_stack_table`: the named argument stacks of `service_args.c` |
| `stack` | the C functions active on the dispatcher thread: handlers of events (`event`, `activation`), `scene_exec` (`scene`), `scene_action_exec_command` and `_script` (`command`) |
| `phase`, `i`, `item` of a frame | which loop the function is in, the counter and the list element of `stack_for_each`, which part when an element is removed |
| `at` | `ready`, `waiting` (in `event_dispatcher_wait` inside an expression), `called` (in another scene) |
| `pos`, `obj` of a handler | its hash iterator, and the scene whose sources it walks |
| `lost` | the list element or action that the function goes on from was freed while it waited |
| `put`, `clash`, `ran`, `stay`, `grew`, `events`, `edits`, `inUse` | histories for the properties |

Between two steps anything the dispatcher runs may come in, but only when nothing is active or the
innermost function waits (`Client`): another event's handler, or a command. An expression is
abstracted to what the engine can tell: it waits for a device, reads the event's arguments, executes
a scene (`Scene.Exec`) or does not compile; what a condition's value is, is a choice. `Startup` is
any configuration that can be loaded: its sources, conditions, actions and arguments are lists, no
two sources of a scene are the same, no two actions have the same path, no two arguments of an
action the same stack and name, and what refers to a scene gives a name (`StartupAssumption`).

The command line edits everything a walk may stand in: scenes (`AddScene`, `DelScene`,
`SwitchByHand`), sources (`EditSource`), conditions (`EditCondition`), actions (`EditAction`) and
the arguments of a command (`EditArgument`). `stack_for_each` counts elements against the list's
length of the moment and follows `next`, so an addition is walked too, and after a removal `Cut`
says where a walk stands that was in the list: an element earlier, on a freed element (`lost`), or,
since `stack_remove` does not free the first element of a list, before the first. Two things are not
followed beyond that: what a walk in this last place goes on to when the new first element is
removed as well before it goes on (the model takes it for lost), and a list that loses its only
element under a walk and gets two others during the same wait. The child process of a script is left
out, and the environment it is started with is read in one step. When a function returns to a scene,
an action or an element that was freed while it waited, `UseFreed` sets `dangling` and the behaviour
ends.

### Expressions, ExpressionMeaning

A behaviour reads a text of lexemes chosen on the way, compiles it, and runs what was compiled.
`Entered` does what `parser_dfa.c` calls when a state is entered; `ops` and `queue` are the operator
stack and the operand queue, `work` the evaluator's stack. A lexeme is a whole word, number or sign.
Values are terms that record how they were computed, so that two of them are equal only when
computed alike. `AcceptsOnlyClosed` is stated over the text that was read: what compiles closes no
parenthesis that it has not opened, and leaves no string open. `ExpressionMeaning` reads the same
text top down: the loosest operator outside parentheses is the root of its tree. Precedence there is
C's (`InC`), as `command_parser.h:29` documents it; the compiler's own is the order of
`OperatorType`, where each operator has a level to itself. `Regrouped` are the texts in which the
two differ, and the run shows that it is exactly these. No conversion of the values is modelled, as
it is that of `variant.c`.

### TimerService, Crontab, WeatherCache

A timer is in three places: `timerPump` (the pump's entries, which expire at any time),
`timerList` (`timer_list`) and `timerConfig` (`timer_config_list`). `Stop` is `timer_stop`, a loop
over ListWalk.

In `Crontab` no entry of the tree is ever removed. So the tree is the sequence of the times added,
each a path of five lists from the root, and the entries of a level are in the order of the first
paths through them. `Followed` are the paths through the first entry that matches on each of four
levels, from which the code never comes back, and `GetAction` keeps the one flag the code keeps at
the last level. The tick looks for `tm_mon`; `Date` is the month as people and
`cron_cli.c` count it.

A value of `WeatherCache` is where it comes from: the second and the settings of its
request. `weatherMissed` is what the last request did not bring, since a request may fail
and an answer may be incomplete.

### VirtualDevices, Surveillance

`devNames` is the resolver's table, in which an id has one name and a name one id.
`devEntries` are the devices of each class, `devTimers` the timers that motion reports
have made, which nobody gives back. `Surveillance` has the session with the station
(`ssSid`: the settings it was opened for), the table of cameras, and for each camera of an
answer its counts of motions. `ssAsked` are the requests that the last step made, each with its
session and the settings it went to: a change of the settings logs the old session out at the new
address. The station answers, refuses or is away, at every request.

### CommandClasses, DataCallbacks

`CommandClasses` abstracts EventDispatcher's wait to what a request sees of it: an event of the kind
ends all waits, and a timeout any. The library and the devices are external: they answer, fail,
answer late, or never. Which methods ask and wait, which only read and which only send is the code's
table. `DataCallbacks` has a listener per report of a command class, with its name from the
resolver, whether it has attached itself to the holder's children, and to which.

### Console, LineEditor, SceneConfig

`Console` grows the tree of a node (`cmd_create_tree`) from commands given as sequences of
parts; the nodes of a tree are its paths. `NodesAt` is the search with its exact and
partial matches and its placeholders (`OnlyMatch`, `LedTo`, `EndsAt` are a step of it and its end),
`Completions` what TAB offers. `RunsWhatIsTyped` compares what the search runs with the list of the
commands installed: with the paths that the line gives words for (`Gives`) or spells out (`Spells`).

`LineEditor` runs the bytes of a read one after another (`OneByte`) on a record that has the buffer,
the cursor, and the row and column of the screen, which the code changes by sending characters and
cursor moves. The prompt is taken as fixed, and the words of a line as one space apart. `vtyMixed`
marks text that a read of several bytes has put at the end of the line instead of at the cursor. The
line goes to `printf` as a format where it is redrawn or appended to: what a "%" writes then is a
choice, as is whether it writes into the buffer (`vtyLost`), and `vtyFormat` marks a row drawn from
such a line. Ctrl-C, Ctrl-D and Ctrl-Z put a command or nothing in the place of the line
(`Instead`), and "?" writes help and the line again (`Described`) when there is something to say of
it, which is a choice here.

`SceneConfig` is the scene part of the command line: what the commands of each node do to
the scenes (`cfgMade`), the node of each session (`cfgNode`) and the startup-config (`cfgFile`) as
lines. `Shown` writes the scenes as commands, `Loaded` types them again. A save renames and
then writes; the program may end after any line. A command that follows a context
left empty by another session uses a null pointer: the program ends. The environments of a script
and the arguments of a command are one list of pointers (`entries`); since an action is found by its
path, of whatever type, a session may put the one kind into the other's list, and each command
compares and removes what it meets there as its own kind (`SameEntry`).

### ChildProcesses

A start of homebridge is cut where a signal can come between its assignments
(`BeginStart`, `StorePid`, `SetHandler`, `FinishStart`); scripts and filters likewise.
`cpHandler` is the SIGCHLD handler that was installed last, `cpSignal` the one pending signal;
a child that ends while one is pending adds none. `cpBlocked` is `waitpid(-1)` inside the
handler with no child to reap.

### MCServices

The parts of 8 to 11 and HashUse share no state. One run checks them side by side: the
variable `part` is chosen at the start, only that part moves, and the others keep their
initial values. So every behaviour is one of a single part, and the state
space is the sum of theirs and not the product. Each part's specification with its
`...Spec` is in its own module, which is what the proofs are about.

## 4. Runs

| run | bounds | question |
|---|---|---|
| `event_pump` | 1 poll, 3 events, 2 registrations, buffers of 2, purge batch of 1 | the pump without re-entrance, against the bus, with liveness |
| `event_pump_nested` (violation) | 2 polls, 1 registration | the same promise with a handler that polls |
| `event_pump_deep` | 3 polls, 2 registrations | an event taken by one poll is taken by no other |
| `timer_pump` | 2 timers, 3 ids, nested polls, clock to 3, timeouts 0 and 2 | compaction and punctuality |
| `dispatcher` | 2 nested polls, 2 waits, 2 events, 4 registrations, 2 timer entries | waits nested in handlers and each other |
| `dispatcher_wait` (violation) | as before, 3 registrations | does false mean timeout? |
| `socket_pump` | 3 entries, 2 descriptors, 3 sessions, nested polls | sessions, full table, failed accepts, descriptor reuse |
| `socket_closed_peer` (violation) | 1 session | does the session of a client that left end? |
| `scenes` | 3 names, 2 scenes at the start, 2 events, 2 edits, 3 of these at most | arguments, executions and endings under waits, nested events and edits |
| `expressions` | 6 alphabets, texts of 5 to 8 lexemes | does every text mean what it means in C, but for those known to differ? |
| `services` | see below | thirteen parts, each with its own promise |
| `cron` (violation) | 2 jobs | does every job that is due run? |

The parts of `services`, with the bounds of `services.cfg`:

| part | bounds | property |
|---|---|---|
| timers | 3 targets of 2 names, 3 starts, 1 configured | `TimersListed`: the list, the pump and the configuration agree |
| cron | 2 jobs, 2 actions, times that share branches, with and without a month, readings in two months | `JobsAsWritten`: what runs is written down and comes; a job that stands apart runs |
| weather | 2 settings, timeouts 1 and 2, clock to 2 | `WeatherCurrent`: no value is older than the timeout, or from other settings than the last request's |
| devices | 2 names, 1 instance, 2 devices, 2 timers | `NamesResolve`, `MotionEnds` |
| station | 2 settings, 3 cameras with 2 ids and 2 names, 2 events | `SessionCurrent`, `StationMotionEnds` |
| lists | 5 cells | `ListsAreSequences`: no order of calls loses a list but the one named |
| console | 5 commands that overlap, 70 lines | `RunsWhatIsTyped` |
| editor | 4 characters with "%", 18 reads, history of 1 | `ScreenShowsLine` |
| config | 2 sessions, 3 edits, 2 saves, 2 files to start from | `RestartKeepsScenes`, `LastSaveKept` |
| children | 3 forks, 1 stored script | `OneHomebridge` |
| commands | 2 devices, 2 requests, 2 at once | `LoneAnswerFresh` |
| callbacks | 2 children, 2 listeners | `MissesAtMostOne` |
| hash | 4 keys, 2 data, sizes up to 60 | `ImplementsMap`, `IterationComplete`: is it a map, is iteration complete? |

The bounds are small and chosen so that each limit is reached: two slots overflow with three events,
two timer entries fill and are compacted over each other, the third session finds the table full and
the descriptors exhausted, a purge batch of one leaves a second flagged handler behind, and two
waits suffice for one to end the other. The keys of the hash part collide at 7, and two of them at
17 as well, so that one insertion grows the table and has to try again; the third scene of `scenes`
collides with the first, so that `scene_table` grows under an iterator. Two events are the one that
waits and the one that comes in between; two edits delete a scene and add one, or change the same
list twice. Two events with one edit, and one event with two, are what `MaxInputs` leaves. The
alphabets of `expressions` are for precedence (two), for parentheses with unary
minus, for the arguments of methods, for methods within methods, and for spelling; eight lexemes
hold a method with two arguments, one of them a sum. Three edits make an entry in one session, move
another session to the same node and leave it; two saves are the one that is cut short and the one
that replaces its backup. Three forks are a homebridge, its successor and a script. Deeper nesting
repeats the pair of an inner and an outer poll.

Deadlock is not checked in `timer_pump` (a behaviour stops when the clock has
reached its bound and all timers are removed), in `socket_pump` (see above), in
`scenes` (events and edits are used up, or freed memory is used), in `expressions` (a text
has been run, or does not compile) and in `services` (the bounds are used up).

**Fairness.** `WF(PollStep)` and `WF(Step)`: the main loop polls for ever and
handlers return. It is not assumed that anybody posts, registers or starts a wait.
In EventDispatcher each timeout has strong fairness: it is enabled again in each
round in which the timers are polled, and the clock passes its time in finitely
many. In SocketPump commands end (strong fairness of `CommandDone`, since a wait
inside the command may intervene). In Scenes `WF(Step)`: functions go on, and a wait ends
with an answer or a timeout. The parts of `services` are checked for safety only: what
would make them go on is the timer pump or a client.

**Exceptions in the properties.** Four things do go wrong in the scene engine, and the properties
say so instead of leaving the situations out: an event that comes while a scene waits destroys the
waiting scene's SensorEvent arguments, and two commands share stacks by name (`clash` in
ArgumentsHold); removing an argument of a running action, or the action itself, leaves its stack
behind (`inUse` in NothingLeftBehind); adding a scene while a handler iterates may move the others
under the iterator (`grew` in EachSceneOnce and `grown` in IterationComplete); and removing a source
that a handler has behind it moves the rest of the list under its walk, so that the scene's last
source is not looked at, while a source added behind it is not looked at either (`stay` in
EachSceneOnce). Each property fails in the run's own model without its exception. RunsEnd is for
scenes that do not execute each other in a circle, which nothing in the code prevents: those of the
run do not.

So with the parts of `services`. A lone request is one that found no other pending or waiting and
was joined by none (`alone`): with two, an answer ends the other's wait. A start of homebridge
inside a start leaves two running (`cpNested`). Characters that come several at once are put where
they are not shown (`vtyMixed`), and a line with a "%" is not the row that is drawn from it
(`vtyFormat`). A vector is lost when its first cell is removed after `vector_pop_front`
(`listMisused`; ListsAreSequences says that it is, then, and that no other order of calls loses
one). Some texts are grouped otherwise than in C (`Regrouped`), and a job that gives a month comes
in the month after (`GivesMonth`). The logout of a station's session goes to the new settings
(SessionCurrent). A scene does not survive a restart when it holds what is not
written as it was typed (`Writable`): several words within quotes where the command takes one, an
entry of the other kind, or two entries of one name, which stay when an entry of the other kind
stood before the first and was removed for it. The last save is lost when two in a row are cut short
(`cfgCut`). Sessions whose descriptor is -1 share one key in the socket table: any of their entries
may be dropped for another, so EntriesMatch, NoneForgotten and DanglesOnlyNested except them. A cron
job that stands on the way to others may be forgotten, and a deletion may go to a `*` beside it
(`Apart`, `Diverted`). A value that the last request did not bring stays old until the cache expires
(`weatherMissed`). Cameras that the station lists after the start have no timer of their own, and a
pump that is full gives none (`timed`, "none"). A sensor leaves its model name behind when it is
deleted, and users name what they like. The first change of a child that was there before its
listener is not posted (`missed <= 1`).

**Findings.** The four violation runs. (1) `event_pump.c:220`: after a nested poll the
outer one resets a buffer that was filled meanwhile; its events are lost.
(2) `event_dispatcher.c:94`: a wait ends when another wait does, and its caller takes
this for a timeout. (3) `socket.c:72`: a closed connection is taken for "try again"
if an earlier send got EAGAIN. (4) `crontab.c:327`: a job for every day does not run on the days on
which a job for one weekday, added before it, does not. `event_pump` and the proofs therefore state
NoEventLost for one poll at a time, and `dispatcher` states LoneWaitSound for waits
that were alone. `WaitsUnwind` holds only with its exception: when the timer table
is full (after 128 waits, as each uses up an entry) a wait has no timeout.

**Where the code departs from its documentation without a run of its own.** The properties have
these as the code does them, and name them:

- `command_parser.h:29` says "Operator precedence is same as in C". In C, `+` and `-` are on one
  level and so are `<` and `>`, from left to right. Here `-` binds tighter than `+`, and `<` tighter
  than `>`: `a > b < c` is `a > (b < c)`, and `1 + 2 - 3` is `1 + (2 - 3)`, which matters when the
  operands are strings or comparisons. MeansWhatItSays says that these texts (`Regrouped`) never
  compile to what they mean in C, and that all others do.
- `cron_cli.c:13` documents the fields as `month[1-12]`, and the tick compares them with `tm_mon`,
  which counts from 0 (`Cron.c:176`). A job that gives a month comes in the month after, and one for
  December never. JobsAsWritten has `Comes` for this, on jobs and dates with months; DueJobsRun, the
  finding below the documentation's promise, is about the documented month.

**Met on the way.** What the models do because the code does it, and a maintainer would
want to know; none of the following contradicts a line of the documentation:

- Expressions: a "(" that is never closed is accepted (`command_parser.c:33`).
- Sockets: an `accept` that fails leaves a session with descriptor -1, which the next one shares;
  unregistering one of them drops the other's entry, and with three of them a session is freed
  twice. (Met in the proof of DanglesOnlyNested; it takes five entries and four sessions, more than
  the run has.)
- Timers: stopping a timer goes on from the list element it has freed (`Timer.c:135`).
- Cron: a deleted job runs on when its deletion was diverted into a `*` beside it.
- Cameras: an earlier report's timer ends a later motion, and no timer is ever given
  back (`BlinkCamera.c:121`), not even when the camera is deleted.
- Sensors: deletion takes one of the two names back twice (`Sensor_config.c:50`).
- Surveillance Station: the logout after a change of the settings takes the old session to the new
  address and account (`SurveillanceStation_cli.c:89-94`), so that the old station never hears of it
  and the new one gets its session id; a login that failed is not repeated; a camera listed after
  the start has timer 0, which may be someone else's.
- Lists: `vector_pop_front` leaves `prev` of the new first cell dangling (`vector.c:73`), and the
  removal of that cell writes through it (`vector.c:153`), which only the tests could do, as nothing
  else pops the front of a vector; `vector_remove` of a missing value goes through NULL
  (`vector.c:146`).
- Console: a command that is the beginning of one installed before it never runs; INT
  lists accept words; `!` is taken for `end` (`cli.c:134`).
- Line editor: a read that ends with a newline and holds text as well loses the text (`vty.c:226`);
  a "%" in the line is taken as a format when the line is shown (`vty.c:405`, `581`, `669`).
- Scenes: an edit from the command line while the scene waits may free what the scene's walk stands
  on: the condition, the action, the argument or the source (`stack_remove` in `cli_scene.c`).
- Configuration: the contexts of nodes belong to no session, so that one session's `end` takes
  another's away; words that were quoted are saved without quotes; the
  backup is never read.
- Homebridge: after a crash `homebridge_fd` is still set, so it is not started again (lines 38
  and 127); a death by signal is ignored (121); at the end of the pipe the loop spins (157);
  the handlers of SIGCHLD replace each other, and the scripts' may block the program
  (`script_action_handler.c:65`).
- Command classes: the answer to a request that timed out ends the next one's wait;
  success and failure post the same event.
- Callbacks: a name is overwritten by the default when a device is reported again
  (`device_callbacks.c:76`); listeners are never freed, and a report that is
  repeated posts each change twice.

## 5. Proofs

All theorems are for every value of the constants that satisfies the module's named assumptions,
hence for tables, buffers, lists and nesting of any size. Each safety theorem rests on an inductive
invariant, which TLC checked on the runs' instances first; its parts are named and commented in the
module. Assumptions beyond the sizes being numbers:

- the value that marks a free handler slot is no event id (`NoIdAssumption`), and the pump of
  EventDispatcher has room for one registration (`MaxRegs >= 1`);
- keys are below `KeyBound`, and there is a size for a table between twice and four times
  `KeyBound` (`HashAssumption`). For the code's 2^32 that is a prime between 2^33 and 2^34, and
  there are many; the model's tables may be that large, the code would be out of memory before;
- different scenes have different CRCs (`ScenesAssumption`), and the configuration is one that can
  be loaded (`StartupAssumption`). A name whose CRC is that of another scene is taken for it by the
  code, and nothing is claimed then;
- the end of a text is no lexeme of one of the alphabets (`ExpressionsAssumption`); what a read
  brings, and the words that TAB may complete, are sequences of characters (`EditorAssumption`);
- an `environment` or `argument` line has its parts (`HasParts` in `EditAssumption`): without them
  it is no command (`cli_scene.c`);
- no command is empty, an option list is finite and holds no empty word, and a `LINE` ends its
  command with nothing beside it (`ConsoleAssumption`). All command tables of the source are like
  that (`cli_*.c`, `*_cli.c`).

**The event pump** (`EventPumpProofs`).

- `Invariance`, for any number of nested polls: `IInv`. TypeOK alone is not enough for what follows.
  The added parts: live slots hold accepted events (`SlotsHoldAccepted`), no two live slots hold the
  same event (`SlotsDistinct`), and events are numbered as they are posted (`Numbered`), which gives
  freshness when one is appended.
- `TypeCorrect` and `NoEventTakenTwice` follow: a slot that is taken was unmarked, and
  a taken event is in no other live slot.
- `NothingLostOneAtATime`, with `MaxDepth = 1` as all that follows: `PassedMarked`
  says that all slots behind the loop index are marked, so that emptying the
  current buffer discards only what was taken. This is what fails when polls nest.
- `NoHandlerCalledTwice`, `OwnedDataReleased`, `NoHandlerGetsFreedData`, from `OneAtATime`: the
  event in hand is the one the index points to, handlers behind the walk
  have been called once and those before it not at all, although they come, are flagged and
  are purged meanwhile, and only data of processed events is released.
- `PumpImplementsBus`: `Spec` implements `EventBus`, step by step. `BusInv` adds that
  what waits is unmarked, and that a walk that ends has seen every handler left: the count
  of `stack_for_each` and the list it walks agree (`WalkedAll`). The lemmas map each action to
  a step of the bus or a stutter: taking an event is the bus's beginning of a delivery, the exchange
  of the buffers and a purge are stutters.

**The dispatcher** (`EventPumpProofs`, last part), polls and waits nested to any depth.

- `PumpUnderWaits`: every step of the dispatcher is one of the pump or leaves it alone, so `IInv`
  holds under it, together with `LoopInv`: an active wait has its id and an address on the stack
  that is its own, and one that is alone is the first, and joined until its event has come.
- `WaitsTakeNothingTwice` and `LoneWaitEndsRightly` follow.

**The timer pump** (`TimerPumpProofs`), any nesting.

- `Invariance`: `TInv` = TypeOK, TableMatchesHandles, FreeSlotsClean, fresh ids
  (`IdsFresh`), the callback of every active poll standing at an index of
  the table (`InTable`) and, for each running timer,
  that the time left and the time last counted add up to when it is due
  (`KeepsPromises`). The last is what compaction and a stale pointer could break.
- `TypeCorrect`, `TableSound`, `NoTimerEarly` follow. `PurgeSound` and `WriteSound` are
  the lemmas on compaction: the table of a purge is sound if the one before was, with
  at most the purged entry gone.
- `PollsArePunctual`, an action property: a poll that was not nested and met no other poll leaves no
  timer that was due behind. From `PollsKeepUp`: the entries that the innermost poll has passed are
  not late, unless the table was compacted behind it, which moves one entry each time over the
  index; a timer in whose callback the poll stands was counted, or started since; polls under
  another know that one nests in them; and no time given to a poll is later than the clock.

**The sockets** (`SocketPumpProofs`), any nesting, with failing accepts and descriptors that are
used again.

- `Invariance`: `IInv` = TypeOK; `Structure`: descriptors of sessions are their own, the first entry
  is the server's, entries in use have sessions, with EntriesMatch and NoneForgotten; `Marks`: what
  an entry notes to be freed is its own session, entries without a descriptor are reported nothing,
  with WriteInterest; `Frames`: every poll but the innermost waits inside a command; `Handling` and
  `Stopped`: what the innermost one holds is alive, unless it is the command that waited. The
  properties are not inductive without each other: a match is broken by a free that Marks excludes.
  Each flush is a lemma for its three outcomes, so that telnet, answers and events go the same way.
- `TypeCorrect`, `CallbacksMatch`, `SessionsFreed`, `WritesAsked`, `DanglingIsNested` follow.

**The expression compiler** (`ExpressionProofs`), texts of any length over any alphabets.

- `WhatCompilesIsClosed`, from `ParseInv`: while a text is read, the left parentheses on the
  operator stack, with the one the pending state has still to push, are as many as the text has
  open; the automaton is in its quoted state exactly after an odd number of quotes; and each right
  parenthesis or comma that was passed had one open. The operator stack alone does not give this: a
  right parenthesis takes operators off down to a left one, and only `ParseInv` says that there is
  one.

**The command line** (`CommandLineProofs`).

- `ScreenAlwaysShowsLine`, from `EditInv`: between two bytes, unless text was mixed up before or
  the row was drawn from a line with a "%", the row of the screen is the prompt and the buffer, and
  the columns of the cursor agree; and a line that is marked for its "%" has one. Erasing,
  redrawing and the history go through loops over characters; what these do to the row for a line of
  any length is proved by `Iteration`, induction for one function.
- `LinesRunWhatIsTyped`, for any command tables and any line, from `TreeInv`: the nodes of the tree
  are those on the way to installed commands, and a node has a `<cr>` exactly if the command that
  made it ends there, and then it is that command's. The lemmas on the search say where it gets: to
  the path that is spelled out, if nothing else matches on the way (`SpelledSearch`), only to paths
  whose parts match (`SearchReaches`), and past no exact match (`SearchPassed`).

**Lists and services** (`ServiceProofs`).

- Lemmas on lists: `LeastNat` (a set of numbers has a least one, from the well-foundedness of <),
  `Ranks`, and what `Picked`, `Purged`, `RemoveAt` and `WithoutFirst` leave of a list: some of its
  elements, each once, in their order (`IsLeft`).
- `TimersAreListed`, from `TimerInv`: every entry of the pump is for exactly one timer of the list
  that has its number, timers without a number have no entry, and numbers given are at most
  `timerId`.
- `ListsAreRight`, from `ListInv`: the cells of a list are chained as the history says (`Chained`);
  `prev` of a vector's first cell points to a cell, a freed one, exactly when that was popped before
  it (`OrphanInv`); and a list is lost exactly when such a first cell was removed (`listMisused`).
  Without the second part nothing would say that no other removal writes through `prev`. Each
  operation is a lemma about cells (`FrontPopped`, `BackPopped`, `HeadUnlinked`, `MiddleUnlinked`,
  `BackPushed`, `FrontPushed`).
- `SessionIsCurrent`, from `SessionInv`: before the start there is no session, and after it each
  change of the settings drops the one there is, so that only its logout is asked with it.
- `StationMotionWillEnd`, from `MotionInv`: with the session, the types of the two tables, and that
  nothing was polled before the start. `Counted` keeps a camera's id once found (`CountedKeeps`),
  and a listing keeps the timers of the cameras it knows (`ListAdds`).
- `LastSaveIsKept`, from `FilesInv`, which is the property itself: it is inductive.
- `RestartsKeepScenes`, from `CfgInv`: the scenes are sound (`SceneSound`: each part is a list, no
  source or path of an action is there twice), and the lines of the files have their parts. That
  holds of what any line leads to (`RunSound`), and of what a start makes of any file
  (`LoadedSound`), so also after a restart on a file that was cut short. The property then follows
  from what is shown, line by line: a start *walks* from one state to the next (`Walk`,
  `WalkConcat`, `WalkFlattened`), and comes through the lines of an action (`ActionWalk`), of the
  sources, conditions and actions of a scene (`SourcesWalk`, `ConditionsWalk`, `ActionsWalk`, with
  `Part` for the scene as far as it has been read), of a scene (`SceneWalk`) and of all scenes
  (`ShownWalk`) to exactly the scenes shown. Where `Writable` is needed shows there: a line of
  several words is not known, and an entry is added as it is only if it takes none of its name away.
- `WeatherIsCurrent`, an action property, from `WeatherInv`: a value that the last request
  did not miss is that request's. Then each read is as fresh as the cache (`ReadsFresh`).
- `CronRunsWhatIsWritten`, an action property, from `CronInv`, with multiplicities since a job may
  be added twice: what the tree has was added under its time; a time that nothing diverts from has
  an action no more often than it is written down (a deletion comes to it, `DeletionComes`, and
  takes at least the first, `TimesPurged`); and a job added once under a time that stands apart
  keeps its action while it is written down (`DeletionSpares`). A search comes to a path where no
  path that parts from it has a hit (`SearchComes`). Nothing is said of how the jobs came: any
  additions and deletions, any number of times.

**Devices and children** (`DeviceProofs`).

- `NamesAreBacked`, `MotionWillEnd`, from `DeviceInv`: serial numbers tell devices apart
  (`SerialsApart`), a timer is of a camera of its instance if that still exists (`TimersOfCameras`),
  a name has its entry (`NamesSound`), and of the cameras with one instance only the first is ever
  on (`FirstIsOn`): both the report and the timeout look for the first one. So the timer of a camera
  that was deleted cannot be the one another camera waits for.
- `MissesAtMostTheFirst`, from `ListenerInv`: a listener that has been called is attached to
  all children there are, one that has not has missed nothing (`Attached`).
- `LoneAnswerIsFresh`, from `AnswerInv`: while a wait is alone, its request is the only one that may
  be pending, and an event that is posted or was taken means that it was answered or failed (`Own`).
- `BridgeIsStoppable`, from `BridgeInv`: of the homebridges that run and were not told to stop
  (`Loose`) there is none when a start may begin, only the one that is being started until the start
  is over, and then only `homebridge_pid`; as long as no start was begun inside another.

**The hash table** (`SceneProofs`, first part).

- `Sound`: every item stands at the index of its key, and `count` is the number of items. The second
  is what makes a growth copy all of them (`CopiedAll`); it holds although a removal counts off an
  item without comparing keys, since it counts one off only when it takes one away (`Removed`).
- `LargeEnough` and `SizeFound`: the search for a size ends, so that a growth gives a sound table
  with the same items (`GrownSound`); `GrowthsSound`: so do several, and after at most `KeyBound` of
  them the new key collides with nothing. `InsertSound` and `Found` say what a look-up then returns.
- `TableIsAMap`: HashUse implements KeyedMap, step by step, with `Get` for every key.
- `IterationReaches`, from `HashInv`: of the keys that have been there all the time, each was seen
  or stands at an index that the iterator has not reached, as long as the table has not grown.

**The scenes** (`SceneProofs`), any configuration, any nesting of handlers, scenes and waits.

- `SceneInvHolds`: `SceneInv` says of every frame where it stands in the scene and the action it was
  entered for (`Standing`, `Progressing`), that what it has stored is there and its own unless it is
  claimed above (`Held`), and how far a handler's iterator and its counts have come (`Iterating`);
  of all of them that a command under other frames waits for what it has called (`Nested`), that an
  argument stack used by a frame is noted as claimed in each frame under it (`Claimed`), and that
  each stack that exists is used by a frame, unless arguments were edited (`Owned`); and that the
  table lists existing scenes under the keys of their names, and all that have stayed (`Listing`).
  ArgumentsHold and NothingLeftBehind are not inductive by themselves: the first depends on Claimed,
  or a frame further up could destroy the stack unnoticed, the second on Owned.
- The lemmas follow the shape of the steps: one that only changes the top frame and arguments of its
  own (`ReplacedTop`), that leaves a function (`PoppedTop`), or enters one (`PushedTop`), a change
  of the scenes (`ScenesChange`), of the table (`TableChange`), of the arguments of an action
  under the frames that walk them (`EditedKeeps`), and of a scene's sources, conditions or actions
  (`RevisedKeeps`, with `Untouched` for what it must leave of each frame).
- `ArgumentsAlwaysHold`, `NothingEverLeft` and `ScenesRunOnce` follow. The last is about a step:
  when a handler ends, the iterator has nothing before it, and every scene that stayed has been
  passed, and executed for each matching source. What makes it inductive under edits: of the scene
  the handler is at, it has executed as many times as sources before the walk match (`Behinds`), and
  as long as no source was edited behind it, its count and its place in the list agree.

What the prover cannot do here: liveness under fairness, and what a RECURSIVE operator computes.
Induction is possible where the statement is one formula, by its least counterexample (`LeastNat`,
`Iteration`), but not through the library's theorems, whose parameter is an operator. That there is
a prime between n and 2n cannot be proved here either, and is not needed: the hash table is proved
from the one size of `HashAssumption`.

Only model-checked:

- MeansWhatItSays and CallsAsWritten: the grammar of ExpressionMeaning is a RECURSIVE reading of the
  text, and what they say of every text needs induction over its tree;
- EventuallyTaken, RunsEnd and WaitsUnwind: liveness.

With polls that nest, NoEventLost,
CalledAtMostOnce and the release of data do fail, for one reason: the slot the outer poll works
on is refilled. The type invariants of the pumps are proved; those of the
other modules are parts of their inductive invariants.

## 6. Not modelled

Listed with reasons in `PROJECT.json`. In short: formatting and text beyond what a property is about
(HTTP, the `show` commands, passwords and users), network I/O to web services, plugin loading, start
and shutdown, and the Node.js side; `curl`, base64 and the HTTP parser, which are libraries. The
logger only writes; the event log and the sensor roles are lists that are only shown. Builtin
services are methods to `Expressions` and keep nothing. Of the scene engine: `Scene.SetEnabled` in
an expression, edits of a script's environment while its scene runs, and what section 3 names of
lists that change twice during one wait. Of the dispatcher: the timed start and
the web server's own instance. Memory exhaustion and the data race on `next_slot` between the loop's
unlocked read and a post to the *pending* buffer are not modelled: the two touch different buffers,
and the exchange is locked.
