# A TLA+ model of middlesox

middlesox (`msx`) is a daemon between a Wayland compositor and the user's
scripts: an adapter speaks the compositor's protocol, the controller runs
scripts when events match the configured watches, and the `msx` command talks to
the daemon over a Unix socket.  This directory holds its specification: TLA+
modules, the instances TLC checks, and theorems TLAPS proves.  Paths below are
relative to the repository.

## The system

| Component | Source | State | Operations | Modelled by |
|---|---|---|---|---|
| Adapter actor and handle | `middlesox/src/adapter_handle.rs`, `adapter.rs` | command channel (32), event channel (100), one oneshot per call, `shutdown_done` | spawn, get, set, manifest, shutdown; the `select!` loop | `AdapterActor`, `AtomicAdapter` |
| Controller and `msx run` | `middlesox/src/controller.rs`, `middlesox-cli/src/main.rs` | `run_result`, two shutdown oneshots, one task per connection | run, handle_event, handle_control, handle_control_client, run_daemon | `Daemon` |
| Script engine | `middlesox/src/engine.rs` | a handle; a blocking thread per script | get, set (checks the manifest), execute; JSON to Rhai and back | `Daemon` (its calls), `ScriptPool` (its threads), `Values` (the conversions) |
| Script execution | `controller.rs` run_script, run_shell_script, execute_script | semaphore (8), a task per script, timeouts | spawn, acquire, run, time out | `ScriptPool` |
| Lock file and socket | `middlesox/src/control.rs` | flock, PID in the lock file, socket file | acquire_lock, is_daemon_running, create_listener, cleanup_socket | `DaemonLock`, `ControlClient` |
| Control protocol, `msx` commands | `control.rs`, `middlesox-cli/src/main.rs` | one connection per command, `IPC_TIMEOUT` | send_request, handle_response, parse_value | `ControlClient`, `Values`; the daemon's side in `Daemon` |
| Configuration, watches | `middlesox/src/config.rs` | none | watches_for_event, subscribed_events, Watch::matches | `Watches` |
| mangowc adapter | `mangowc/src/lib.rs` | per-output committed and pending state, focus, command channel and eventfd | Wayland events, get, set, shutdown | `MangoState` (what the Wayland events do), `MangoWake` (the thread and its commands), `MangoSet` (what a set asks for) |
| Hyprland adapter | `hyprland/src/lib.rs` | last-known state of the translator, event channel, reader task | init, subscribe, next_event, get, set, shutdown; translate | `HyprlandAdapter` |
| Socket bridge adapter | `socket/src/lib.rs` | request ids, cached manifest, reader task | init, get, set, subscribe, next_event, shutdown | `SocketBridge` |
| Mock adapter, test harness, examples | `mock/`, `middlesox-tests/`, `example/` | | | left out: test doubles and samples |

How they interact.  One tokio task owns the adapter; everyone else holds a clone
of `AdapterHandle` and sends commands over a bounded channel, each with a oneshot
for the reply.  The same task forwards the adapter's events over a second bounded
channel to the controller's loop, which also accepts control connections and
waits for Ctrl+C or a stop request.  A connection or a script makes its calls
through the handle; a `set` is two calls, the manifest check and the set itself.
When told to stop, the controller leaves its loop and makes a last call,
`shutdown`.  Behind the actor, the mangowc adapter hands commands to a thread that
sleeps in `poll` on the Wayland connection and an eventfd, and the socket adapter
opens a connection to a bridge process for each command and keeps one for events,
and the Hyprland adapter does the same with Hyprland's two sockets.  The daemon
excludes others with an flock and cleans up its socket.  An `msx` command finds the
daemon by that socket and sends one request on a connection of its own; `msx status`
asks the lock first.

What is hard here: the two channels can each be full while their reader waits for
the other; the actor can end in five ways with commands queued and replies
pending; check and set are not atomic; timeouts let go of work that goes on; a
stop races the end of the event stream, a failed response and the end of the
process; processes start, stop and die around one lock file and one socket, and a
command that looks for a daemon there meets them at any point; a compositor
announces outputs, their names and their state in pieces and in any order; a
thread that sleeps must be woken without a race, and must not sleep on what it has
answered; a bridge may be late or die; a toggle may be carried out after its caller
has given up; a number changes its width and its kind several times on the way from a
user's words to a request.
`PROJECT.json` lists each of these hazards at its line, with the properties that
watch it.

## The modules

* **`AtomicAdapter`** is the abstract specification: the adapter as one atomic
  object.  A call takes effect once between its start and its return, or it
  fails without an effect after the adapter's shutdown.
* **`AdapterActor`** is the actor and its handles.  A client is a holder of a
  handle with at most one call in progress, so a queued command is represented by
  its client.  `actor` is the task's position: the two steps of `spawn`, `select`,
  `forward` (inside `event_tx.send`), `execute` (inside an adapter method),
  `reply`, `stopping`, the two drops after the loop, `gone`.  `reply` is the
  oneshot of a client's latest call and then what the call returned.  `Call`,
  `Send`, `SendFails`, `Return` are the await points of the four methods;
  `Outcome` is what makes `shutdown` differ.  The adapter is an arbitrary store
  that may refuse any request, apply a set and still report an error, and change
  on its own.  `shutdownResult` is what its shutdown returned: to the controller's
  call, or only to the log ("warned") when the actor has ended by itself.  A
  change right after a set is how an accepted but ineffective set appears.
* **`Daemon`** extends `AdapterActor` with `run_daemon` and the controller.  Its
  variables are the main task's position, `run_result`, the two stop signals, the
  state of each connection, and what each connection's or script's code is doing
  between two calls.  Each action that makes a call contains `AdapterActor`'s
  action, so the two stay in step: `HandleEvent` contains `Receive`, `RunReturns`
  contains `DropReceiver`.  Which watch matches is a choice.  Scripts and
  connections differ only in what comes after a call.
* **`ScriptPool`** is the semaphore and the timeouts.  A slot has a task, which
  may hold a permit, and a body, the process or blocking thread; the two end
  separately.
* **`DaemonLock`** is several `msx run` and `msx status` processes around the lock
  file and the socket, with crashes at every step.  A process is its own PID.
* **`MangoState`** is the mangowc adapter's picture of the compositor, and the
  compositor it talks to.  `wire` holds what the compositor has sent and the
  thread has not dispatched, `requests` what the adapter asked and the compositor
  has not handled.  One action per Wayland event: globals, names, tags, layout,
  `active`, `frame`, the end of a roundtrip.  What an output shows is one tag and
  one other fact.  `told` is what a listener knows from events, `missed` marks facts
  whose last change no event has told (dropped on the full channel, or the output is
  gone), `framed` the outputs of which a frame was dispatched.
* **`MangoWake`** is the same adapter's thread: `channel` and `wake` are the
  command channel and the eventfd, `thread` its position in the loop (drain,
  flush, poll, clear, dispatch), `call` the position of the one method that runs.
  `unsent` says that the buffer of the connection still holds the request of a set
  that was answered.
* **`Values`** has the conversions as operators on tagged values: `parse_value`,
  `json_to_dynamic`, `dynamic_to_json`.  Integers have the widths of `u32`, `i64`
  and `u64`, and a float keeps as many bits of an integer as an `f64`; the widths
  are constants, so that TLC can meet every limit.
* **`MangoSet`** extends `MangoWake` and `Values`: a set starts from what a user or
  a script wrote, is parsed, waits in the channel and becomes a request; a layout's
  name is looked up in between.  Each action contains one of `MangoWake`'s.
* **`ControlClient`** extends `DaemonLock` with the other side of the socket: `msx`
  commands that look, connect, wait, give up, and the daemon's task for a
  connection (accept, carry out, respond), which the end of the listener or of the
  process cuts off.  The first half of `msx status` is `DaemonLock`'s probe.
  `done`, `seen` and `quiet` are history: who carried a request out, who has held
  the lock while the command ran, and whether at some moment nobody was serving.
* **`Watches`** has the watch functions of the configuration and the loop of
  `handle_event`, over the constant `Config`, a sequence of watches.  A choice of
  watches is the set of their places; `ScriptsAt` is what the loop starts for it.
* **`HyprlandAdapter`** is Hyprland, its user, the adapter's methods (`call`,
  `answer`, one at a time), its reader task with the translator's state `last`, and
  the controller's end of the event stream, which takes an event and starts the
  scripts `Watches` names.  `queue` is what Hyprland has accepted and not handled,
  also after the method has given up (`awaited`).  A line is a name with fields;
  `owed` accumulates the scripts that the lines call for, by a direct reading of
  the configuration and of what Hyprland wrote, and `HandleEvent` pays them off.
* **`SocketBridge`** is the socket adapter and its bridge.  Requests wait at the
  bridge in a set, so it may serve them in any order or never; `stream` is the
  event connection, each event two halves of a line, so that a read may end
  within one; `doubtful` and `early` are history: the values of sets that failed,
  and how much was written when the subscription's response was read.
* **`AdapterActorProofs`**, **`DaemonProofs`**, **`ScriptPoolProofs`**,
  **`DaemonLockProofs`** (which also proves about `ControlClient`),
  **`MangoStateProofs`**, **`MangoWakeProofs`** (and about `MangoSet`),
  **`HyprlandProofs`** and **`SocketBridgeProofs`** hold the theorems; **`MC*`**
  modules instantiate the others for TLC.

A definition commented as a mutant is not part of any specification.  It is a
plausible bug in the definition it precedes, and shows for one property that the
property would notice.

## What TLC checks

| Run | Instance | Shows |
|---|---|---|
| `adapter` | 2 callers, 1 key, 1 value, command queue 2, event queue 1, 3 events | no call is orphaned or answered by a shutdown that did not happen; one shutdown; events in order; `AdapterActor` implements `AtomicAdapter`; every call returns; a shutdown call ends the actor with all its events delivered |
| `daemon_safety` | controller, 1 connection, 1 script, a writable and a read-only key | `Daemon` stays within `AdapterActor`; read-only keys are never set; success means an answered stop and one shutdown of the adapter, and an error of the controller's shutdown call is reported |
| `daemon_liveness` | controller, 1 connection, 3 events, event queue 1 | except when jammed, a stop ends the daemon and a request is answered or cut |
| `daemon_shutdown_hang` | controller, 2 events, event queue 1 | **violated**: see below |
| `script_pool` | 3 event scripts, 1 exec, 2 permits | permits are conserved, shell processes bounded, every task with a timeout ends |
| `script_pool_cap` | 3 event scripts, 2 permits | **violated**: see below |
| `daemon_lock` | 3 daemons, 2 `msx` commands | the lock file and socket belong to the serving daemon; a crash never blocks the next; a command that names a daemon met one that held the lock and carried the request out; at some moment no daemon had the lock if `msx status` says so by itself, and none was serving if there is no socket or the connection is refused; these errors mean that nothing was or will be done |
| `daemon_lock_probe` | 1 daemon, 1 probe | **violated**: see below |
| `mango_state` | 2 outputs and a third plugged in later, 2 names, 3 changes | once ready, nothing is missing, not even an output's first frame; one output has the focus; what the adapter reports is what the compositor announced; a subscriber is wrong only about facts whose event was dropped, or whose output has gone |
| `mango_wake` | every method, about 100 sets at the limits of 3, 4 and 6 bits, a connection that breaks, a compositor that is silent | no lost wake-up; no answered set is left in the buffer while the thread sleeps; what the compositor is asked has the effect that was meant, or the set is refused, or a layout's index was cut to 32 bits; every method returns; shutdown ends the thread |
| `hyprland` | 2 windows or none, 2 workspaces, 1 toggle, 5 watches, 3 calls and acts of the user, event channel 1 | the scripts started are those the lines call for, in order; the translator's state is the announced one; a set that succeeds undisturbed holds, unless there is no window or it was maximized; every event up to a line that is not UTF-8 is handled, and the end of the events reported |
| `socket_bridge` | 3 requests, 2 values, 3 events, event channel 1 | every method returns; only a set that failed may undo a later one; events have no gap, and what the handshake loses ends with it |

Bounds.  `MaxEvents` bounds the events an adapter produces; it exceeds the event
queue's capacity, so the actor meets a full channel, and one more event arrives
after it has.  Two callers are enough for one to be served while the other is
queued or blocked; with a queue of one the second blocks in `send`, with two both
are queued when the actor ends.  Three event scripts against two permits make one
wait.  Three daemons are one serving, one stopping or dying and one starting.  In
`mango_state` a third output may take the name of one that was removed while its
state is still known.  `MangoWake` needs no bound: one method runs at a time.
In `mango_wake` 3, 4 and 6 bits stand for 32, 53 and 64: the order of the widths is
what matters, with room for a number between each two, and the numbers tried are
those at and next to each limit.  In `hyprland`, `MaxInputs` leaves room for a set
that times out, its retry and an act of the user between or after them, and for one
event being sent, one in the channel and one unread.
`MaxCalls` leaves room for the capabilities, a set that times out and a set that
overtakes it; of three events one may be lost with the handshake, one sent and one
waiting for room.  `daemon_lock` and `mango_state` use symmetry (no liveness
there).  The theorems below have no bounds.  Deadlock is not an error where the
system stops: the actor ends, the daemon exits, each process is started once, the
compositor's changes are used up.

Fairness.  Tokio polls a task that can go on, so the actor, connections, scripts'
next steps and returning calls are weakly fair, which includes that the adapter's
own methods end.  `RecvCommand` is strongly fair because `select!` starts at a
random branch and a stream of events cannot starve the command branch for ever;
`Send` because a bounded channel hands its capacity to blocked senders in the
order they came.  The controller's loop is fair to each branch for the same
reason.  Nothing is assumed of new calls, events, connections, Ctrl+C, the end of
the event stream or failures.  In `Daemon` a script ends (Rhai limits its
operations); in `ScriptPool` it need not, only timers fire.  In `MangoWake` the
thread runs (a roundtrip with a live compositor ends), `poll` returns when there
is something to report, and a method that has begun goes on; the compositor may be
silent.  In `SocketBridge` timers fire, and a method or the reader task goes on
when it can; the bridge owes nothing.  `HyprlandAdapter` assumes the same, and that
the actor polls `next_event` between methods; its `select!` does that at random, and
weak fairness is enough in the model because `MaxInputs` bounds the methods.
Hyprland owes nothing, not even an answer.

### Disagreements

* **A stop can hang the daemon** (`daemon_shutdown_hang`, `StopEndsDaemon`).
  `doc/architecture.md:60-65` says that a stop breaks the loop, shuts the adapter
  down and exits.  `Controller::run` stops receiving before it awaits
  `shutdown()`, and keeps `event_rx`.  If the actor is blocked in
  `event_tx.send` on a full channel (100 unread events and one more, while a
  handler or a scheduler delay holds the controller up), it never reads the
  command.  A second Ctrl+C has no effect, the task fires once.  Dropping
  `event_rx` before the call would resolve it: `ForwardFails` is then enabled.
  `StopEndsDaemonUnlessJammed` shows that this is the only such state, and
  `OnlyAJamStops` is proved for every capacity.
* **More scripts run than the maximum** (`script_pool_cap`,
  `EventScriptsAreBounded`).  `controller.rs:19` bounds concurrent executions,
  shell and Rhai; a Rhai script that times out gives its permit back and runs on.
* **`msx status` can refuse a start** (`daemon_lock_probe`, `RefusedByDaemon`).
  `is_daemon_running` takes the exclusive lock it tests; a daemon that starts at
  that instant reports another instance.

Further remarks, without a run of their own:

* `README.md:298-308` describes events that follow the acknowledgement of a bridge;
  those that arrive in the same read are dropped by `into_inner`
  (`socket/src/lib.rs:255`), and if the rest of a line begins within a character, the
  reader task ends (`ReadFails`).  `shutdown` drops the receiver "to signal reader
  task to stop" (`socket/src/lib.rs:360`); the task notices at the bridge's next
  event only.  Hyprland's adapter does the same and says so.
* `mangowc/src/lib.rs:334`: the eventfd is written before `tx` is dropped.  An
  adapter that is dropped without a shutdown, as after a failed start, may leave its
  thread asleep for as long as the compositor is silent; after `shutdown` it
  cannot (`ShutdownEndsThread`).  `doc/architecture.md` also describes a `poll` of
  100 ms; the code polls without a timeout, which is why the wake-up matters.
* The error of the last `adapter.shutdown()` of an actor that ends by itself is only
  logged (`adapter_handle.rs:204-208`); a shutdown call that comes then finds the
  channel closed and reports success.  If the stream ends just before the controller
  sees a stop, the run therefore ends with success, and neither the end of the
  stream nor such an error is told to anybody.  `CleanExit` states what is left:
  an error of the shutdown that the controller's call asked for is reported.
* An unplugged output has no event (`mangowc/src/lib.rs:481-486`).  When an output of
  that name returns with its facts at their defaults, a listener keeps what it
  knew, until the next event of each fact: `SubscriberIsTold` counts those as
  `missed`.
* `adapter.rs:75` says that a set returns `Ok` if the command was sent.  mangowc
  answers before the flush; the request is lost only with the thread
  (`NoUnsentSleep`).
* A layout's index beyond 32 bits is cut (`mangowc/src/lib.rs:1462`) where a mask
  is refused, so that another layout than the one asked for is set, with success:
  the exception `IndexIsCut` of `SetsWhatWasAsked`.  Whole floats, and integers
  beyond `i64` that a script copies, are refused as masks.  Of two layouts with
  the same name the first is chosen.
* Two `msx status` at a time can each take the other for a daemon; the one that
  then finds no socket fails.  That error, of every command, begins with "Daemon is
  not running (socket not found" (`control.rs:255-259`), and is wrong about a
  daemon that holds the lock and has not bound its socket, or has just removed it.
  `MsxTellsTheTruth` therefore asks less of it than of the "Daemon is not running"
  of `msx status` (`main.rs:370`): only that nobody was serving at some moment.
  `msx stop` prints "Daemon stopped" when the stop begins.
* `hyprland/src/lib.rs:202-203` says that no-op transitions yield no event; they
  do.  The first event of each kind after `subscribe` has the translator's default
  as its `prev`, and a line cut by the death of Hyprland is taken as whole if it
  can be parsed.  A toggle without a focused window may succeed without an effect.
  `fullscreen_as_bool` takes every mode for fullscreen and `set` toggles with
  `fullscreen 0`: where that makes a maximized window fullscreen, a set to `false`
  succeeds with the window fullscreen.  The two are the exceptions of `SetHolds`.
  A line that is not UTF-8, which a window's title can cause, ends the reader task
  (`hyprland/src/lib.rs:419-422`, `ReadFails`): the controller then sees the end of
  the event stream although Hyprland runs.

## What is proved

For every number of clients, connections, scripts, keys, values, processes,
permits, outputs, tags, windows and lines, and every channel capacity, from the
named assumptions on the constants: capacities are positive; the roles, the
answers and the absent values (`NoClient`, `NoValue`, `NoId`, ...) differ; the
configuration is a sequence; the slots of the pool, the outputs at the start and
the fields of an output are finitely many; no connector has the name of a
provisional output, nor the empty name; of the active workspace and window only
Hyprland's lines about them tell; a `u32` is narrower than what a float holds, and
that is narrower than an `i64`; no layout has a code for a name, and a set
is given JSON, a word or a value of Rhai.

* **`AdapterActorProofs`**: `TypeOK` and the five other invariants of `adapter`,
  and `NoUseAfterShutdown`.  None is inductive alone.  The strengthening `IInv`
  says where the command of each call is: a call that waits without an answer has
  its client in the queue once or is being served, and nobody else is; the queue
  is empty once the actor is gone; the count of shutdowns is a function of the
  actor's position; the queued events continue what was received.  An action
  disturbs few of these parts, and the proof of the step goes through them one
  action at a time.
  `Spec => ImplementsAtomicAdapter` is proved there too.  `Execute` is the point at
  which a call takes effect, `SendFails` and the return of a dropped reply are
  failures, everything else stutters or is the environment's.  The step uses
  `IInv`: a call can only fail once the adapter is down.
  `CallsWaitForReceiverOnly` is what liveness rests on, said of each state with the
  guards of the steps: a call in progress can go on, or the actor can, unless the
  actor waits for room in the event channel.  It follows from `IInv`: a command that
  waits makes the queue non-empty, so the actor has something to receive.
* **`DaemonProofs`**: `KeepsActor` (each step of the daemon is a step of the actor
  or leaves it alone), from which every invariant of the actor carries over; the
  adapter being atomic included (`DaemonHasAtomicAdapter`); `DaemonTypeOK`;
  `OnlyWritableKeysAreSet`, by an invariant that follows a set from the check
  through the call; `CleanExit`, since the answer to the controller's call is what
  the adapter's shutdown returned or the call failed after it; and
  `OnlyAJamStops`, the same as `CallsWaitForReceiverOnly` for the whole daemon:
  whoever keeps a stop or a request from its end has a step to take, with the one
  exception of `Jammed`. `PositionInv` says why: wherever the controller is, its
  handle and its receiver are as its next step needs them, so that an actor that
  waits for the receiver waits for a controller in its loop, one that will drop
  the receiver, or the jam.
* **`ScriptPoolProofs`**: type, permits conserved, shell processes bounded.  The
  bound needs that a shell script runs only while its task holds a permit, which
  is exactly what fails for Rhai.
* **`DaemonLockProofs`**: the three invariants of `DaemonLock`, from the invariant
  that a process between flock and the end of `run_daemon` is alone there.  They
  carry over to `ControlClient` (`ClientsLeaveTheLock`): each of its steps is one
  of `DaemonLock`'s or leaves its variables alone.  `MsxTellsTheTruth` follows
  from what a command and the daemon it is connected to know of each other
  (`Record`): there is a connection only to a daemon that held the lock when it
  was made, hence while the command ran; the request is carried out by that
  daemon, once, and not before it is accepted; a command prints an error that
  promises nothing was done only without a connection, and that it found no socket
  or nobody listening only when nobody was serving at that moment.  `InsideInv`
  links the lock file to the lock: a daemon that holds it is inside `run_daemon`.
* **`MangoWakeProofs`**: `TypeOK`, `NoLostWakeup`, `NoUnsentSleep` and
  `NoOrphanedCall`.
  `NoLostWakeup` is inductive: the eventfd is cleared only on the way to the drain,
  and a method that has sent a command owes the write.  `NoOrphanedCall` needs
  `OneCommand`: the channel is empty between calls, until subscribe has its answer
  and once the thread has ended, and holds exactly the command of a call that waits
  without an answer.  Together they give `WaitersKeepThreadAwake`: the thread does
  not sleep while a method awaits it, nor once a shutdown has written to the eventfd.
  `SetsAreCalls` says that each step of `MangoSet` is one of `MangoWake`'s or leaves
  it alone, so that all this holds of sets.  `SetsWhatWasAsked` is then proved for
  every width, every table of layouts and every value a set may be given
  (`SetsDoWhatWasAsked`): what a caller means survives each conversion on its way as
  the same number, or becomes something that is refused (`KeptWhole`, `KeptTruth`);
  what is parsed from it has the effect on the tags that was meant, masks being sets
  of places (`ResultAsMeant`); the command of a set carries what was parsed until
  the thread serves it (`CarriedInv`), since no other command can be in the channel
  (`ChannelInv`).  That a number which fits one width fits the wider one needs the
  powers of two to grow; they are the numbers of subsets (`PowerCounts`), which the
  library's theorems about finite sets know.
* **`MangoStateProofs`**: all of `mango_state`'s invariants.
  `FocusIsOneOutput` follows one output through both queues (`LifeInv`): before it is
  announced nothing else is known of it; its name is asked for once and before its
  IPC object, arrives once and ahead of every status, while the output has neither
  another name nor the focus; `removed` comes after both.
  `StartInv` says that the manager is only found in the first roundtrip.
  `SubscriberIsTold` needs two outputs at a time (`ApartInv`): where a name on the
  wire is already used, the removal of its user is ahead of it, so a rename never
  meets the state of another output, and only connector names have state
  (`CommittedInv`).  What a subscriber was told is then the committed state or
  marked as missed, one action at a time; that an output goes marks all that differs
  from its defaults.  `ReadyIsComplete` follows the barrier of
  the second roundtrip: until it, an output without its name has the request for
  the name ahead of the `sync`, or the name (or the removal) ahead of the `done`
  (`AheadOf`); the same holds of the number of tags, and no status precedes it
  (`TagsFirstInv`), so that nothing is committed with too few tags.  From the
  manager on, an output without a frame has its `get_output` ahead of that `sync`, or
  its frame (or removal) ahead of the `done` (`FramedInv`).
  `MirrorsCompositor` speaks of the quiet state only; `MirrorInv` says of every state
  what makes it so.  The last message under way about a fact tells the compositor's
  value, and where there is none the adapter holds that value, pending or committed
  (`LastInv`, `ActiveInv`); each status under way has its frame behind it, unless the
  output is removed first (`FrameInv`), so what is pending will be committed
  (`PendInv`); an output that is plugged in is known or announced, and its IPC object
  is asked for (`KnownInv`); and state is kept for no other outputs (`OwnedInv`).
* **`HyprlandProofs`**: `TypeOK`; `TranslatorIsCurrent`, since what Hyprland wrote last
  of a kind is in the last line of that kind in the connection, or the translator
  has it (`LinesInv`), and it is Hyprland's own state while the two are connected
  (`SyncInv`); `SetHolds`, since the request that is awaited is the last in Hyprland's
  queue (`AwaitInv`), and a toggle is asked for only while the state is not the wanted
  one, with nothing else left to be carried out (`SetInv`); only the user maximizes a
  window.
  `ScriptsFollowLines` compares the loop of `handle_event`, at the end of a reader
  task and a channel, with a direct reading of the configuration.  The strengthening
  `FollowInv` says that there is a path of translator states, one for each unread
  line, that begins at the reader's and ends where Hyprland's writing has come to;
  what is owed is what the channel's events start, then the event held back at the
  full channel, then each unread line as translated from its place on the path.  A
  line written extends the path at one end, a line read takes it off the other.
  The lemmas about `FlattenSeq`, which is recursive, are induction on the length in
  the form of the least number that would refute them (`LeastOf`): the library's
  induction theorems take an operator as a parameter and cannot be used, the
  well-foundedness of `<` on the naturals can.
* **`SocketBridgeProofs`**: `TypeOK`; `LastSetHolds`, from an invariant on the
  requests at the bridge: their ids differ, a set among them is the one that waits
  or its value is in doubt, and an answered request is no longer there;
  `NoGapInEvents` and `LossEndsWithHandshake`, since the stream holds the half-lines
  that the bridge wrote last, without a gap, and the reader has taken the whole of
  the event it received last and nothing after it (`EventInv`).

Proved and in no run: the type invariants of `AdapterActor`, `Daemon`, `ScriptPool`,
`DaemonLock` and `MangoWake`, `OneCommandPerCall`, `NoUseAfterShutdown`,
`MangoWake`'s `NoOrphanedCall`, and the three invariants behind liveness,
`CallsWaitForReceiverOnly`, `OnlyAJamStops` and `WaitersKeepThreadAwake`.  Those
write the guards of the steps out, since the prover has no ENABLED; that fairness
then carries a call to its end is TLC's part.

Only model-checked: the liveness properties (the prover has no rules for fairness
and ENABLED) and of course the three violated properties.  Every invariant of a run
is proved, and so are the two refinements, `KeepsActor` and
`ImplementsAtomicAdapter`.

## Not modelled

Panics; the task cancellation when the runtime is dropped at exit (main's end is
one step after which nothing runs; in the program blocking scripts still run to
their end first, with a handle whose channel is closed); a message pushed with a
channel permit in the instant its receiver is dropped (the library's business);
grandchildren of a killed shell script; the content of messages, logging,
environment variables; symlinks at the socket's path other than as a failed start;
loading and parsing the configuration; arguments and the search for files.

`ControlClient` has the tasks of a daemon end with its lock: in the program the lock
goes at the end of `run_daemon`, an instant before the runtime drops them.  Losing a
connection stands for every failure to write or read.  `Values` leaves out arrays,
objects within objects and fractions.

Of Hyprland: requests are served in the order they came, and answered on their own
connections (as in the fake server of the adapter's tests).  Of what a maximized
window becomes by `fullscreen 0` nothing is assumed but that it is not maximized any
more.  What a set makes of an act of the user between its query and its dispatch is
not stated.  Calls that are refused before anything is sent (an
unknown key, a value of the wrong type) change no state and are no actions.
`floating` goes through the code of `fullscreen`, and the instance has only the
latter.

Of the mangowc adapter: client counts, the keyboard layout, the scale factor.
`MangoSet` has the layouts fixed while a set runs, and a continuous stream of
commands, which could keep the thread from flushing, cannot come from one actor
that waits for each answer.  `MangoState` assumes that outputs have `wl_output`
version 4 (a `Name` event follows the bind; an older output has no name and its
tags are never reported), that a status is written in one piece, that global ids
are not reused, that binding an output already removed does nothing, and that a
last status may follow the removal.  It keeps two habits of the code: unplugging
announces nothing, and the first focus is not announced, nor is the focus of a
client when the focus moves to another output.  Of the socket adapter: what a
request asks about and what an event says, and malformed responses other than as
failures.

## Plan

1. Done: `AtomicAdapter`, `AdapterActor`, `Daemon`, `ScriptPool`, `DaemonLock` with
   their proofs.
2. Done: `MangoState`; `MangoWake` with its proofs; `SocketBridge`.
3. Done: `Watches` and `HyprlandAdapter`; `Values` and `MangoSet`; `ControlClient`.
4. Done: proofs of the invariants of `ControlClient`, `SocketBridge`,
   `HyprlandAdapter` (`ScriptsFollowLines` included), `MangoState`
   (`MirrorsCompositor` included) and `MangoSet`, and of what the liveness of the
   adapter actor, the daemon and the Wayland thread rests on.
5. Left: client counts, the keyboard layout and the scale factor of mangowc; loading
   the configuration; arrays and fractions in `Values`.
