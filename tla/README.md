# OpenRoIS engine: a TLA+ verification project

This directory holds TLA+ models of the OpenRoIS engine, TLC configurations that check
them on small instances, and proofs that TLAPS checks for every instance.

## The system and its parts

OpenRoIS implements the OMG RoIS framework: clients (HRI applications) command robot
components through *HRI engines*. An engine is recursive: a gateway is an engine whose
components live in child engines (adapters), which connect to it over WebSocket.

| Part | Source | State | Operations |
| --- | --- | --- | --- |
| Engine | `engine/src/openrois/engine/engine.py` | sessions, binds, command table, sequence tasks, subscriptions, child engines | the catalog requests (connect, bind, release, execute, subscribe, ...), close of a session, add and remove of a child |
| Session serving | `engine/.../jsonrpc.py` | one task per request, the outbox | answer a request, end of the connection, order of messages |
| Local components | `engine/.../local.py` | per component: latest start, takeover lock, suspension, running handlers, raised statuses | run a command, set parameters, raise and clear a status, emit an event, start and stop |
| Child engine proxy | `engine/.../child.py` | pending and late requests, running commands, deliveries, profile | the same contract over a connection: requests with timeouts, notifications, detach, rediscovery |
| Servers and clients | `engine/.../ws_server.py`, `ws_client.py` | connections | accept a child or client, reconnect with backoff |
| Component library | `components/core` | decorated components, resources with threads | connect, commands, emit, raise a status from any thread |
| SDKs | `sdk/python`, `sdk/javascript`, `sdk/unity` | transport state, pending requests, listeners | connect, send, close, receive |
| Interfaces | `interfaces/` | none | conditions, values, profiles, generated bindings |
| Gateway | `services/gateway` | none of its own | starts an engine and its server |

How they interact: a client's request becomes a task of `serve_session`, which calls
`Engine.handle`. An execute becomes a *sequence task* that outlives the request and calls
the *component contract* (`contract.py`) of the source of each command: `LocalComponents`
for this process, `ChildEngine` for a child. A child engine serves its parent through a
*trusted* session of its own `Engine`. Notifications travel the other way.

What is hard: all of it is concurrent on one event loop, and every `await` is a point
where another request, a notification, a timeout, a closed connection or a lost child
may step in. `PROJECT.json` lists the hazards line by line. The properties that make each
part correct are, in short:

- engine: actuators have one holder; commands run in the order of their execute, end
  exactly once and are announced exactly once; a session or child that is gone leaves
  nothing behind; releases, disconnects and closes come to an end;
- local components: two starts of a component never run side by side, a stop ends what
  was started, a suspension can be lifted as long as the
  component is started, no lock stays taken;
- child proxy: a request settles once, a late reply leaves nothing behind;
- SDK transports: a request settles once, nobody waits for what cannot come, a connection
  has one owner and ends once;
- link: engine ids stay unique, the gateway knows current profiles, a refused adapter backs
  off and comes back;
- statuses: the last word of a source that nothing overtakes holds, on every component it speaks
  for;
- requests: one answer each, the completed after the reply, values only from accepted sets;
- conditions, values, profiles: what one side writes the other side reads.

## Modules

| Module | What it is | Checked by |
| --- | --- | --- |
| `Engine` | The engine: sessions, binds, executes, subscriptions, children | `MCEngine` |
| `EngineProofs` | Its theorems and their proofs | |
| `RunContract` | What a source of components promises of `run` (abstract) | |
| `LocalCommands` | The commands of one component of this process; implements `RunContract` | `MCLocalCommands` |
| `LocalProofs` | Its theorems and their proofs | |
| `ChildEngine` | The proxy of a child engine; implements `RunContract` | `MCChildEngine` |
| `ChildProofs` | Its theorems and their proofs | |
| `AdapterLink` | Adapters that connect, are discovered, refused, lost, and come back | `MCAdapterLink` |
| `LinkProofs` | Its theorems and their proofs | |
| `ComponentStatus` | Components, shared resources, statuses, errors and events | `MCComponentStatus` |
| `StatusProofs` | Its theorems and their proofs | |
| `Requests` | Connections, request tasks, the outbox, parameters and results | `MCRequests` |
| `RequestsProofs` | Its theorems and their proofs | |
| `Transport` | The transport and session of the Python SDK | `MCTransport` |
| `TransportProofs` | Its theorems and their proofs | |
| `Conditions`, `Selection`, `Values`, `Profiles`, `Settings` | The pure algorithms, as operators | |
| `Exchanges` | The exchanges of conditions, picks, values, events and settings, which use those operators on both sides | `MCInterfaces` |
| `ExchangeProofs` | Its theorems and their proofs | |
| `Interfaces` | The exchanges of profiles, declared classes, documents and command sequences beside them | `MCInterfaces` |

`Engine`, `LocalCommands` and `ChildEngine` meet at the component contract: `Engine` takes a
source to behave like `RunContract`, and the other two are checked to implement it.
`Requests` and `ComponentStatus` each leave to the environment what the other describes (the
binds, whether a component is operable), so they constrain nothing of each other.

### Engine

The code between two awaits is one action. A request the engine refuses changes nothing
and is no action. The variables are the tables of `Engine` (`sess`/`connected` for
`_sessions`, `binds`, `table`/`status`/`task`/`source` for `_commands`, `sub` for
`_subscriptions`, `child` for `_children`), the sequence tasks (`seq`, `at`, `owner`) and
the requests that wait at an await (`releases`, `ends`).

- *Sessions.* `OpenSession`, `Connect`, `Disconnect`, `ConnectionLost` (the end of
  `serve_session`: the requests under way are cancelled) and `Close` (`close_session`).
  `_end_session` is split at its awaits: `BeginEnd` up to the gather of the sequences,
  `EndGathered` up to the first unsubscribe that waits, `EndGoesOn` after each reply. Its
  loop may end early, with the `KeyError` of a subscription another task removed.
- *Binds.* `Bind` stands for `bind` and `bind_any`, `Release` and `ReleaseReplies` for the
  two halves of `release`.
- *Commands.* The place of each command in its execute (item, branch, position, component)
  is the constant `Plan`, so the theorems hold for every shape of an execute. `Execute`
  enters the commands in the table and prunes it. `SequenceStarts`, `RunUnit`,
  `RunUnitGone`, `RunEnds`, `UnitEnds`, `SequenceAdvances`, `SequenceStops` and
  `SequenceUnwinds` are the steps of `_run_sequence`, `_run_branch` and `_run_unit`. The
  `delay_time` of a command is the time between two actions. A task cancelled before its
  first step never runs (`CancelSequences`).
- *Subscriptions.* `Subscribe` up to the await, `SubscribeReturns` after it, `Unsubscribe`.
- *Children.* `AddChild`, `Rediscover` (a changed profile), `DetachChild` (connection gone),
  `RemoveChild`. Each connection of a child is a generation (`gen`), since a reconnected child is
  another `ChildEngine`. `offers` is the profile it sent last: a component is reached while it is
  in there, and `RemoveChild` drops the binds on those components only.

The component contract is the environment: a run that is not cancelled ends with any
status at any time, or never; a cancelled run ends cancelled.

### LocalCommands and RunContract

`LocalCommands` is `LocalComponents.run` for one component that serves RoISCommon. Each
member of `Cmds` is run once and has a `Kind`. `pc` says at which await its run is:

- *run.* `RunRefused` (not operable), `RunNoOp` (nothing started), `RunHeld` (suspended),
  `RunAtOnce`, `RunStop`, `RunSuspend` and `RunResume` are `run` up to its first await.
- *_held.* `HeldEnds`, `HeldAgain` and `HeldGoesOn` are the ways out of the wait for a
  suspension. A suspension is named by the suspend that made it, since a held command waits
  for the one it found and not for the one in force.
- *_start and _take_over.* A start replaces the latest one at once (`Queues`) and waits for
  its turn, while its takeover, a task of its own, takes the lock in the order of arrival
  (`TakeOverAcquires`), runs the stop handler (`TakeOverHalted`), waits for the start before
  (`TakeOverEnds`) and hands the turn to the start (`StartTurn`). A start that times out or
  is cancelled (`StartGivesUp`) leaves the takeover to pass the lock on
  (`TakeOverPassesOn`).
- *_end.* `EndHandled`, `EndCancelled` (the engine cancelled the run; a start first runs the
  stop handler), `EndHalted`, and `CancelAgain` for a second cancel during that halt. What
  `_stop`, `_suspend` and `_resume` do after `_end` is part of `EndHandled`, since no await
  lies in between.
- *Environment.* `Cancel`, `HandlerEnds`, `HaltEnds`, `OperableChanges`. A handler that is
  cancelled is taken to end as cancelled. An exception that names a status of its own ends
  the command like any other failure (`ERROR`).

`RunContract` is what `contract.py` says of `run`: a call ends once, and a call that is
cancelled ends, as a cancelled call. `Engine` relies on it, `LocalCommands` implements it.

### ChildEngine

Every request, from the engine or from a task the proxy spawns (the stop and release of an
abort, the unsubscribe of a late subscription, the detail of an error), is a call `<<kind, id>>`.
`ready` is the queue of callbacks of the event loop, because the order in which a reply, a
notification, a timer and a cancel are handled is what this code is about:

- *Requests.* `Call` and `Spawned` send. `ReplyWakes`, `TimeoutWakes`, `CancelWakes` and the
  wakes of commands that complete are the ends of `_request` and `_execute`. `Timer` and
  `Cancel` come between any two callbacks, also in the turn in which a reply was handled.
- *Messages.* `HandleReply`, `HandleLateReply`, `HandleNotification` and `Notified` are
  `handle`; `Detach` is the end of the connection.
- *The child.* It serves requests in order (`ChildStarts`, `ChildServes`, `ChildSubscribes`,
  `ChildRefuses`), answers (`ChildAnswers`), completes (`ChildCompletes`), notifies, or its
  connection drops (`ConnectionLost`). It may complete a command before it answers for it.

### AdapterLink

An adapter is a client that is connecting, serving, pausing or stopped (`Connects`,
`BecomesStable`, `ServeEnds`, `PauseEnds`, `ClientStops`). Each connection of the gateway has a
handler that goes through the requests of discovery, serves or refuses, and ends
(`DiscoverConnected`, `ProfileApplied`, `ProfileRefused`, `RefuseCloses`, `HandlerEnds`,
`DiscoverFails`); a changed profile is read again (`ProfileChanges`, `Rediscovers`,
`RediscoverFails`). `Breaks` loses a connection without either end noticing at once, and the
gateway stops and starts (`GatewayStops`, `GatewayStopped`, `GatewayStarts`). Ids of an adapter
are a set, since an adapter may itself have child engines.

### ComponentStatus

`phase` and `at` are the place in `add`, `start` and `stop`. Any of `Threads`, the thread of the
event loop among them, speaks for any source. A call that raises or clears a status is in two
steps. `Says` notes the word, which a resource does under its lock; then the call runs at once, is
queued, or comes too late (`CallsAtOnce`, `CallsSoon`, `CallsTooLate`), as `call` decides for each
call anew from the loop it sees and the thread it is on. So a thread may be in between when the
loop starts or closes, or while other threads speak for the same source. The loop does nothing
else while its own thread is in between (`LoopFree`). `Emits` is one step: an event leaves no note.
What a call does to `raised` is one step also before the start, where two threads could
interleave inside it. `Binds` and `BindReports` are the two halves of `rois_bind` of a resource.
`raised` holds the status of each source on each reporter with its errors, as `_Hosted.raised`
does. `said` and `unsure` belong to the properties: the last word of each source, and the sources
whose last word may not be the last one to arrive.

### Requests

A message starts a task (`Receive`), which answers at once (`AnswerAlone`, `GetParameter`,
`GetCommandResult`, `SetRefused`, `SetFails`) or waits in the parameter hook (`SetParameter`,
then `HookEnds` or `HookRefuses`). `soon` is the queue of `call_soon`, which completes a set
after its reply; `outbox` and `sent` are the messages of each connection. `Lose`,
`CancelledEnds` and `Close` are the end of `serve_session`.

### Transport

The transport opens one connection at a time (`Connect`, `HandshakeEnds`, `ConnectFails`,
`Connected`), sends and reads (`Send`, `Reads`), and each request wakes in a step of its own
after its reply, its timeout or its cancel (`Interrupt`, `Wakes`). `Close`, `CloseReturns`,
`AsideCloses` and `Finish` are `close` and the end of the reader; `Disconnect`, `EndCalls`,
`EndCloses` and `EndReturns` are `disconnect` and `_end_session` of the client.

### Interfaces

`Conditions` (tokens, parser, matching and writing of conditions), `Selection` (what the
engine selects, picks and passes on to a child), `Values` (encoding and decoding),
`Profiles` (the profile an engine gives for a selection, XML documents, registry, command
sequences, declared classes) and `Settings` (precedence of sources) translate the code without
state. `Exchanges` extends `Selection` and `Settings`, and `Interfaces` extends `Exchanges` and
`Profiles`. They have one step for the side that writes and one for the side that reads, and
their properties compare the two with what was meant. `Interfaces` takes the steps of `Exchanges`
as they are; its own steps belong to other jobs, which is what `OtherSteps` of `Exchanges` allows
them, so what is proved of `ExchangeSpec` is true of `Interfaces`. A text is a sequence of
characters or of words (`Atoms`), as far as the code looks into it.

A value is a tree, as a function from the paths of its nodes to what stands there: a scalar, or
`LIST`. So `_to_json` and `_from_json`, which call themselves for the items of an array, are
functions over the paths of a value: what they do at a path depends on how deep it is, and they
raise when one path raises. What Python writes for a number and reads from a text is in tables
(`IntWritten`, `FloatWritten`, `IntTexts`, `FloatTexts`), constants of which `NumbersAssumption`
says that a number is read as what was written. `MAXDOUBLE` is the largest double, `INF` stands
for infinity. A source of an engine is a function from refs to profiles, and a profile gives the
arguments of its messages by kind and name, which name one message of it alone.

## Runs

| Run | Instance | Shows |
| --- | --- | --- |
| `sequences` | one session, one execute of four commands: a single one, then two branches of two and one; fairness | commands run in order, all end, each announced once (`SequencesKept`); a status is final; what is aborted ends |
| `binds` | two sessions (symmetric), two executes, a local actuator, a shared component of a child that connects once, a table that keeps one finished command, runs that end `OK` or are cancelled or lost | one holder per actuator and BUSY agrees with bind (`BindsExclusive`), a session that ended holds nothing, pruning spares unfinished commands, commands others share run on |
| `closing` | one session with a command and two subscriptions on two children, one of which may connect twice and lose its component from its profile; fairness | a gone child or a closed session leaves nothing, but for the exception of `GoneLeavesNothing` below; lost sessions reach the end of `close_session` |
| `turns` | two starts that may be cancelled, one of them timed, and a stop; fairness | starts never run side by side, marks and stops account for every start (`StartsAccounted`), turns pass and stops end starts (`CommandsEnd`), `run` implements `RunContract` |
| `suspend` | a start, two suspends, a resume, a stop and a timed command, a component that may fail | a held command waits for the suspension in force, which gets out of the reach of resume and stop only when a start ends other than `OK` under it (`SuspensionsReached`) |
| `child` | two subscribes; or a command and an error; or a set and a read; every timer, cancel and a lost connection; fairness | late subscriptions are ended, held ones stay, overtaking messages are understood (`RepliesInOrder`), calls and aborts end (`CallsEnd`), `RunContract` is implemented |
| `link` | two adapters whose possible profiles overlap, three connections, one fault, one change of a profile; fairness | ids unique and every child handled (`TreeSound`), profiles current, refusals back off, an adapter comes back |
| `status` | two components that share a resource, another resource that may have raised a status when it was made, the loop and two more threads, two raised or cleared statuses, one event, one failure | the last word holds (`LastWordHolds`); only usable components serve (`OnlyUsableServe`); clients are told of what gets worse, and can ask about it as long as it lasts (`ErrorsTold`) |
| `transport` | one request and the disconnect request, a closer, two tasks that disconnect, two connections, two interruptions; fairness | requests settle (`PendingSettled`), connections end once (`EndedOnce`), every call returns |
| `interfaces` | conditions of up to two comparisons with values of up to three characters, all short value forms, small trees of engines, profiles and settings | what one side writes the other reads (`ConditionsAgree`, `ValuesAgree`, `DeclarationsAgree`), picks agree on every level (`SelectionAgrees`), the strongest source of a setting wins |
| `requests` | a client and a parent engine, three requests, one result kept; fairness | completed after reply, with its result (`CompletedInOrder`); values only from accepted sets; nothing after a close; every request ends |
| `release_queued` | two sessions, an actuator, two executes | a disagreement, see below |

*Bounds.* A session is used once and an execute is requested once, since the engine never
reuses an id: more of them repeat the same interleavings. Four commands give an item after
an item, a command after a command in a branch, and a branch next to a branch. Two sessions
are what exclusion and sharing are about. `MaxGen` bounds how often each child connects,
`Profiles` which profiles it may have, `KEPT`
is the size of a table (4096 in the code), small so that pruning happens. A session has one
`Disconnect` under way at a time: the second of two, sent while the first waits, would begin
another end with nothing left in it but what was bound in between. Two starts and a
stop give one that runs, one that halts it, and a stop that meets either; three starts are
covered by the proofs. `Cancellable` and `Breaks` bound which runs may be cancelled and
whether the component may fail. In `child` the calls of a behaviour are bounded by
`Scenarios` to those that meet in the same tables: subscriptions in `_deliveries` and `_late`,
commands in `_running`, sets in `_parameters`. `LATE_KEPT` is as large as the number of subscribes,
so nothing is forgotten in that run; `LateSubscriptionsEnd` has it as its premise that no more
subscribes gave up than are remembered. In `link`, `MaxFaults` counts losses, timeouts
and stops; the connections are reused, so that an adapter can come back any number of times.
In `status`, `Speakers` bounds for which sources is spoken: a component and a shared resource.
Two words are a word that overtakes, or is overtaken by, another of any two of three threads; what
follows them, as a third word that settles the source again, is covered by the proofs.
`CHECK_DEADLOCK` is off: clients may fall silent for ever, and then the programs rest.

*Fairness.* The event loop runs every task that can go on, and a request to a child is
answered or times out, so the engine's own steps are weakly fair. A component may run a
command for ever: only the end of a *cancelled* run is fair, as the contract demands, and
`turns` and `child` show that both sources keep it. For that, `LocalCommands` assumes that a
handler that is cancelled ends, and that a stop handler run to halt a start ends, which its
timeout enforces where the profile gives one; `ChildEngine` assumes that timers fire, and that
the child reads and answers its requests, but not that it completes them. `AdapterLink` assumes
that both loops go on, that the keepalive of the WebSocket library notices a broken connection,
and that a gateway that stopped is started again. `Transport` assumes timers and the timeouts of
handshakes, and nothing of the engine. `Requests` assumes that parameter hooks end. Nothing a
client does is fair, except that its closed connection is noticed.

### Disagreement found

`release_queued` is a `violation` run with one property and a finding in `PROJECT.json`: a
command that is queued or delayed when its component is released starts anyway, on an actuator
its session no longer holds.

### Met while modelling

The models contain the following cases of the code. They have no run of their own; where a
property would fail because of one, it says so in its statement.

Engine:
- Two identical subscribes under way at once give a session two subscriptions
  (`engine.py:563`, against `docs/rois-reference.md:885`).
- `remove_child` drops the binds on the components in the profile the child has when it leaves
  (`engine.py:280`). A changed profile replaces that list (`child.py:578`) and leaves the binds as
  they are, so a bind on a component that left the profile before stays when the child is gone,
  and nobody can release it while no child has the component (`engine.py:439`). When the component
  comes back the old holder still has it. `docs/rois-reference.md:938` says that binds on the
  components of a child that leaves are gone; `GoneLeavesNothing` states the exception.
- `close_session` ends with a `KeyError`, and the session stays in the table, when a child is
  removed while it waits for another (`engine.py:918`); `LostSessionEnds` counts this as an end.
- A command sent over the second connection of a child is not spared, because its entry names
  the source of the first; `SharedRunsOn` is checked with one connection.
- A sequence cancelled before its first step leaves its commands without a status;
  `NothingLeftBehind` speaks of sequences that started.
- The bind of a `set_parameter` is checked before the hook is awaited, so values may be stored
  for a session that released the component meanwhile (`engine.py:468`).
- `_pick` takes a profile to have one message per name and kind (`engine.py:839`), which
  holds for profiles made from a declaration (`ProfilesReturn`) and is not checked in those of a
  child.

Local components:
- When a start ends other than `OK` during a suspension, the component is not started any more,
  so `suspend`, `resume` and `stop` return `OK` at once (`local.py:509`) and the suspension stays
  in force: the commands it holds, and the next start, which it holds too, wait until they time
  out or for ever. `docs/rois-reference.md:840` says that held commands wait until `resume`, and
  that `stop` ends the suspension. So it is not true of this code that a held command waits only
  for what somebody can still lift. `SuspensionsReached` says that this is the only way a
  suspension gets there.
- The next start may run while the stop handler still halts the backend for a start that was
  aborted (`local.py:962`), and a second cancel ends the run of a start before its backend is
  halted (`CancelAgain`).
- Two parameter hooks that overlap may apply their values in one order and store them in the
  other (`local.py:987`).
- A status that is raised or cleared twice need not be left as it was said last. `raise_status` and
  `clear_status` release the lock of a resource before they call the engine
  (`resource.py:101-106`), so of two threads the one that spoke first may arrive last; and `call`
  decides for each call whether it runs at once or is queued (`local.py:618-627`), so what the loop
  says overtakes what a thread said before and is still queued. A WARNING that a thread raised
  then stays although it was cleared afterwards, and `Resource._rois_raised` says otherwise.
  `resource.py:85` calls a raise "safe to call from any thread"; `test_status.py:94` of the
  authoring library clears on another thread than it raises on, after joining that thread.
  `LastWordHolds` leaves out a source from when it speaks this way until its next word that
  nothing overtakes (`unsure`).
- In the same way a clear on the loop lets events through that a thread emitted in ERROR and that
  are still queued, and an event that is emitted on the loop overtakes an ERROR a thread raised
  (`local.py:737`). `NoEventInError` speaks of an ERROR that nothing on its way may change when
  the event is emitted (`InError`), and of clears that wait for their turn in the queue.
- A resource is bound with the first component that uses it: what it raised by then is not
  told to components added later (`local.py:372`, against `resource.py:10` of the authoring
  library, "A raised status reaches every component that uses the resource"), and a status it
  clears while it is being bound may be raised after that. `LastWordHolds` speaks of what is
  said once every component is added, and of the status a resource was made with only if a
  single component uses it; before, it is `unsure`.
- `_concerns` compares texts (`local.py:1026`): an event does not reach a subscription that
  spelled the same value differently, as `1` and `1.0`.
- A second source that raises the level a component already has causes no error of its own:
  clients are told when a component gets worse (`WorseIsTold`).

Child engine proxy:
- If the timeout of a subscribe, or the cancel of its caller, falls into the turn of the event
  loop in which its reply arrives, the caller gets TIMEOUT or is cancelled, and the subscription
  stays on the child (`child.py:443`); `LateSubscriptionsEnd` states the exception.
- Only the last 1024 requests that gave up are remembered (`_LATE_KEPT`, `child.py:90`): when more
  subscribes give up before their replies come, the replies to the oldest are dropped and leave
  their subscriptions on the child; `LateSubscriptionsEnd` has this as its premise.
- The stop and the release of an abort run in a task of their own and name a component, not a
  command. A command of the next session that reaches the child before them is ended as well
  (`child.py:373`, against `docs/rois-reference.md:870`).

Python SDK:
- A reader, or the task of `_end_session`, that is cancelled before its first step runs none of
  its lines, so neither its report nor its close happens (`transport.py:446`, `client.py:264`).
  Nothing in the SDK cancels them; a program that cancels all its tasks may. `Transport` does not
  have the case: its `Finish` always comes, and what it shows of ends and returns holds for
  programs that let these two tasks take their first step.

Interfaces:
- An argument named `and`, `or`, `not` or `like` cannot be given in a condition
  (`condition.py:37`).
- Items of an array of an unknown type are written as they are, and refused when they are
  read and are not strings (`values.py:18`).
- `XML` has no place for the function of a component and for read-only parameters, which
  `ProfilesReturn` states.
- A configuration file that is not UTF-8 fails with an error other than `ConfigError`
  (`engine/config.py:216`).

## Proofs

`EngineProofs` proves, for any sessions, components, children, plans and bounds that meet
the assumptions of `Engine`, the type invariant and every safety property of the passing
runs of `Engine`; `SharedRunsOn` under the hypothesis that children do not reconnect
(`ConnectsOnce`), without which it is false (see Met while modelling).

- `SessionInv` strengthens `ActuationExclusive`: holders of binds and owners of sequences
  that may start commands are connected, and a connected session is open or not yet closed.
  Exclusion alone is inductive, but that a disconnected session holds nothing needs all.
- `CommandInv` strengthens the command properties: a command with a run is an unended
  command of the item its sequence is at, the items before it ended OK, and a sequence not
  started is untouched. `CompletingKeeps` is the lemma the completing actions share.
- `EndInv` strengthens `ClosedLeavesNothing`: a cancelled sequence is awaited by the end of
  its session, the list of a closing session has all its subscriptions, and a subscribe
  under way has its connection. `EndLoopCloses` and `EndBegins` are the halves of
  `_end_session`.
- `StatusFinal` is an action property, proved from `CommandInv`.
- `SharedRunsOn`, an action property too, needs `SourceInv`: a command that has not ended names
  the first connection of its child, and a run goes over it. The end of a command takes the
  source of the ones it skips; they are in the table (`UnfinishedKept`), so they have ended too.
- `BindingIsExclusive`, `SequencesAreKept` and `NothingOutlives` put the parts together to
  the properties the runs check.

`LocalProofs` proves, for any set of commands of any kinds, every safety property of the
passing runs of `LocalCommands`, and that it implements the safety part of `RunContract`.

- `PlaceInv` says where the run, the handler and the takeover of one command can be.
- `MarkInv` says that the latest start and the marks for ABORT name starts under way, and
  that every start under way is the latest or marked.
- `OrderInv` says that takeovers hold the lock one at a time and in the order of arrival:
  when one has the lock, all earlier ones are over.
- `SuccessorInv` is the heart of `StartsTakeTurns`: a start that runs is the latest, or the
  start right after it has not been handed its turn. A start that has its turn and is not
  marked is the latest itself, so a start that still runs would have its successor in the
  queue behind it and would itself have come later, against `OrderInv`.
- `HoldInv` says that only the suspension in force holds. `HoldsAreReached` adds to it, action by
  action (`ReachKept`), that only the end of a start takes that suspension out of reach.
- `StartsAreAccounted` puts the parts of `StartsAccounted` together.

`LinkProofs` proves every safety property of `AdapterLink`, for any adapters, profiles and
faults.

- `HandlerInv` says which connections have an adapter and a handler. With it `IdsUnique` and
  `ChildHasHandler` are inductive (`TreeSound`).
- `Current` says of each connection that the last message on it is as new as the profile of
  its adapter, and that a profile the gateway does not know is asked for or on its way.
  `ProfileCurrent` is the case in which neither is.
- `DelayInv` keeps the short connections of an adapter in step with its delay
  (`RefusalsBackOff`).

`RequestsProofs` proves the safety properties of `Requests` for any sessions, requests and
number of kept results.

- `RequestsInv` (`TaskInv`, `ClosedIsOver`): a closed session has no task, and only a set
  whose values were checked waits in the hook.
- `OrderInv` is what `CompletedInOrder` needs of the outbox: before its task is done a request
  has nothing on the wire, and a set is either due to be completed by a callback, or completed
  once, after its OK (`WireInv`, `SoonInv`, `StoredInv`).
- `KeptInv`: a known set has its result, or as many results as are kept.

`TransportProofs` proves the safety properties of `Transport` for any requests and tasks.

- `TransportInv` ties the state of the transport to its attempt and its reader (`ConnInv`), a
  future to what interrupted it (`FutureInv`), the client to its one disconnect (`ByeInv`), and
  each close to the connection it closes (`CloseInv`).
- `NobodyWaitsAlone` is the unconditional part of `PendingSettled`. The rest, that a fault is
  the late reply of a request that *timed out*, holds while no more requests are interrupted
  than the transport remembers: `EveryWaitIsSettled` has that as its hypothesis
  (`MaxInterrupts <= MAX_ABANDONED_REQUESTS`, 1024 in the code). Beyond it the oldest cancelled
  request is forgotten (`transport.py`), and its reply is a fault. `LateInv` counts the
  requests that were interrupted and not answered.

`StatusProofs` proves the safety properties of `ComponentStatus` for any components and
resources, whatever their threads say and when.

- `StatusInv` (`LifeInv`, `IdsInv`): how far start and stop are says what is hosted and
  connected; an error id names its reporter, is not larger than the last one, and belongs to
  one status. So a raise that makes a component worse gives an id nobody has (`ErrorsTold`).
- `WordInv` is about words on their way. `Stands(s, i, w)` says that the status of `s` is `w`,
  on everything `s` speaks for, when the calls before the `i`-th of the queue have run.
  `SaidInv`: of every source whose word is told (`Told`: bound, and not `unsure`), either one thread
  alone is in the middle of its last word, and nothing of the source is queued if that thread may
  run at once, or the word stands at the end of the queue (`WordOn`). `IllInv`: an event emitted
  in ERROR has the ERROR standing where it is in the queue; that it stays there needs that nobody
  who is in the middle of a word of that component may run ahead of the queue (`CallInv`). Both
  need that components and resources are bound before anything is raised for them (`BoundInv`,
  `EarlyInv`). `StandsAppend` and `StandsTail` are the lemmas about the queue.
- `NamesAssumption` is what `add` refuses: a component under a name that is taken.

`ChildProofs` proves every safety property of `ChildEngine`, for any finite sets of calls, any
timers, cancels and losses, and that it implements the safety part of `RunContract`
(`KeepsContract`).

- *The forms of a step.* The actions share `Moves` and `Ends`, over queues that grow by sets of
  callbacks. `StepsAre` shows once that every step has one of a dozen forms (`StepIs`: a call
  begins, is interrupted, ends, is replied to, ...) that say what happens to each call, and what
  each queue loses at its head and gains at its end (`Queued`). All other proofs are over these
  forms.
- `Inv` is the base: a call that waits is pending, or settled with its wake queued (`WakeInv`),
  every message names a call that was sent (`SentInv`), and tasks are queued once (`SpawnInv`).
- `OrderKept`: `SetInv` and `EventInv` say that the completed of a parameter change and the first
  event of a subscription are behind the reply, on the connection and then in the queue of the
  event loop. A completed of a command may overtake the reply; that its future is there by then is
  `WakeInv`.
- `HeldStays`: `SubInv` says that a subscribe returns once, `UnsubInv` that a task that will end a
  subscription ends one that nobody was given, or whose caller wakes only behind it and then
  fails.
- `LateEnds`: `OwnInv` says who answers for each subscription of the child: a reply that will name
  it, a caller that has not woken, a caller that was given it, an unsubscribe, or a subscribe
  remembered as late whose reply is gone. Each of the five leads only to another, one lemma each.
  They need that a subscribe is asked and answered once while the connection lasts (`FlightInv`),
  that an id is unknown to the proxy before its reply (`IdInv`), and that a reply on its way is
  awaited or remembered (`ExpectInv`); the last is where the premise on `LATE_KEPT` is used
  (`RoomStep` counts the subscribes that gave up).

`ExchangeProofs` proves every property of `Exchanges`, for texts over any set of atoms, values of
any type, depth and shape, any sources, and jobs that meet `JobsAssumption`, which says:

- a condition is made of comparisons that the language can write (`Writable`);
- the name of an argument is a word that is no keyword. `eq` writes it unquoted
  (`condition.py:258`), so a condition with an argument named `and` could be given in quotes and
  not be passed on to a child; the standard profiles have none;
- a ref begins with the id of an engine of its source, and no two sources have an engine of one
  id: the first is how `LocalComponents` and the engines below make refs, the second is what
  `TreeSound` of the links keeps;
- a value is a tree whose numbers are written and read back as they were, and one that is not a
  text is of a type of `values.py` (see Met while modelling for the others);
- a model has no setting for the name of its file.

- A tokenizer is a function over the places of a text, and what it does to every text is an
  induction. The installed provers cannot instantiate the induction theorems of the library, so
  `Least` takes the least counterexample from the well-foundedness of the numbers, and `UpTo` is
  induction over a set of numbers; `ReadsFromIs`, `RegexFromIs`, `ReachedFromIs` and `FlattenIs`
  show with it that the functions the operators are defined by exist.
- `ReadsConcat`: a text is read in two parts. `ReadsQuoted`: a literal of any length and with any
  quotes in it is read as its value, and is over at its end. `ReadsCondition` goes over the
  comparisons, with `Has` for the tokens of the first of them, and `WrittenIsRead` concludes that
  `parse_condition` reads what `Condition.__str__` wrote.
- `LikeEscaped`: an escaped text is read as its characters. `Ends` says where a match of the first
  characters may be in a text (`CharsReach`), from which `LiteralMatches` follows.
- `ExchangeInv` says of every exchange what was made of its job, and what was got back from that.
  It is inductive as a job is made once and got once; what remains of each property is then a
  fact about the operators, for every job.
- `ConditionsAlwaysAgree` puts the lemmas on conditions together; `SettingsFromStrongestSource`
  needs of the settings only which source overrides which (`SettingsAreStrongest`).
- `ValuesAlwaysAgree`: `ScalarReturns` says that a scalar of each type is read as it was meant,
  and `TreeReturns` that a tree is when the scalars at its paths are (`AllOrNoneOf`), so no
  induction over the depth of a value is needed. `SpellingForgotten` is that an integer and its
  double have one infinity (`Double`).
- `SelectionAlwaysAgrees`: `TokensAre` and `ParsedIs` say which comparisons a text was parsed as,
  and that each can be written. `ArgumentsAre` says that the arguments picked are what the
  condition gives, each once, of one value. `ForwardingIs` says that the condition for the child
  is one comparison of the ref and one for each argument, `ForwardedIs` with `WrittenIsRead` that
  the child parses it as such, and `PickedBelow` that it picks the same component with the same
  arguments: the ref selects one component there (`RefSelects`, `ComponentsOfOne`), and the values
  fit and agree as they did above. `OwnerIs` is that the ref leads back to its source.

Only model-checked: the liveness properties, among them `CallsEnd`, and the liveness of the
contract (the prover has no fairness reasoning), and `DeclarationsAgree` of `Interfaces`, whose
operators go over trees of engines of any depth and are declared `RECURSIVE`.

## Not modelled, and the plan

Left out: `Engine.stop` and the forwarding of errors and profile changes by the engine, which
keep no state; the commands of components without RoISCommon, which have neither holds nor
no-ops; the conversion of Python annotations in the component library, and its ROS 2 executor;
the typed requests of the SDK clients, which only wrap `send`. The JavaScript and Unity SDKs
follow the protocol of `Transport` in other languages. The catalog and the standard profiles are
data, the bindings in other languages are generated from them. Examples and user interfaces keep
no state of the engine.

Next, in this order:

1. A gateway and a child composed: command ids over a restart of the gateway, and the abort
   that reaches the command of another session.
