# dualink: specifications, model checking and proofs

dualink (package `dualink`, a fork of lan-mouse) shares one mouse and keyboard between
computers. Each device runs the same daemon. At each edge of its screen a device may have a
*client*: another device that is controlled once the pointer crosses that edge. This directory
specifies the daemon's core logic in TLA+, checks it with TLC on small instances, and proves
its main invariants with TLAPS for every value of the constants.

Paths below are relative to the repository (`src/...` in `PROJECT.json` is its root, so that
`src/src/capture.rs` is the daemon's `src/capture.rs`).

## 1. The system

### 1.1 Components

| Component | State | Operations | What makes it correct |
|---|---|---|---|
| **Service** (`src/service.rs`) | `client_manager`, `incoming_conns`, `incoming_conn_info`, `next_trigger_handle`, `capture_status`, `emulation_status` | one `select!` loop: requests of frontends, events of capture, emulation, DNS, clipboard, configuration watcher, Ctrl-C | what it wants captured is what the capture task captures; one active client per edge; an address has one incoming device |
| **ClientManager** (`src/client.rs`) | slab of clients: position, host names, addresses, active flag | add, remove, activate, deactivate, move | handles stay unique; at most one active client per position |
| **Capture task** (`src/capture.rs`) | `captures`, `active_client`, `state` (WaitingForAck, Sending), the coalescer, the release bind | `run`, `do_capture`, `create_captures`, `do_capture_session`, `handle_capture_event`, releases | input goes to the client it was captured for; the release bind always returns control; it ends when cancelled |
| **InputCapture** (`input-capture/src/lib.rs`) | `id_map`, `position_map`, `pending`, `pressed_keys` | `create`, `destroy`, `release`, `poll_next` | one backend barrier per position with handles; each handle of a position gets every event of it |
| **Layer-shell capture** (`input-capture/src/layer_shell.rs`) | `outputs`, `active_positions`, `active_windows`, `focused`, pointer lock, queued events | create, destroy, release; every wayland event | a barrier on each outer edge that is watched, and nowhere else |
| **macOS capture** (`input-capture/src/macos.rs`) | `active_clients`, `current_pos`, the hidden cursor, the channel of producer events | the event tap's callback, in a thread of its own; the task that takes producer events | the cursor is hidden while, and only while, input is grabbed |
| **Windows capture** (`input-capture/src/windows*`) | `CLIENTS`, `ACTIVE_CLIENT`, displays, the buffer of updates, a bounded channel | the hooks and the message loop in a thread; requests by posted messages | updates arrive; the drop ends |
| **libei capture** (`input-capture/src/libei.rs`) | active clients, the portal session, tasks, two channels of capacity 1, `Notify`s and cancellation tokens | `do_capture`, `do_capture_session`, `terminate` | a release is heard; a request ends the session and the next one serves it; it terminates |
| **Event coalescer** (`src/event_coalescer.rs`) | accumulated `dx`, `dy`, deadline | push, flush | nothing moved is lost, nothing is sent twice |
| **ListenTask and EmulationProxy** (`src/emulation.rs`) | `last_response`, `emulation_active`, `exit_requested`, the request channel | messages of devices, a 5 s timer, requests of the service | a silent device is removed and its keys released |
| **Emulation task** (`src/emulation.rs`) | `handles`, `next_id`, `key_remap`, the session's engine | `run`, `do_emulation`, `create_clients`, `do_emulation_session`, `wait_for_termination` | handles agree with InputEmulation; it ends when told |
| **InputEmulation** (`input-emulation/src/lib.rs`) | `handles`, `pressed_keys` | `create`, `consume`, `destroy`, `terminate`, `release_keys` | what is down will be released |
| **Emulation backends** (`input-emulation/src/{macos,macos_vhid,windows,x11,wlroots,libei,xdg_desktop_portal}.rs`) | the repeat task, counts of modifiers, devices and keyboards per handle, the cursor | `consume`, `create`, `destroy`, `terminate` | a key is down only while a device holds it; no call waits for ever |
| **Key remapping** (`src/keymap.rs`) | scancode map, pressed remapped modifiers | `remap_key`, `reset`, `drain_pressed` | press and release of a key are remapped alike |
| **Outgoing connections** (`src/connect.rs`) | `conns`, `connecting`, `ping_response`, `active_addr` | connect over several addresses, ping/pong, receive loop, disconnect | a client has one live connection; a dead one is noticed |
| **Listener** (`src/listen.rs`) | accepted DTLS connections, authorised keys | accept, verify, read loops, reply | only authorised devices are heard |
| **DNS resolver** (`src/dns.rs`) | cancellation token per handle | resolve, events | addresses belong to the present host name |
| **Clipboard sync** (`src/clipboard_sync.rs`, `src/clipboard/`) | a bounded channel of events, the watcher's last content | accept, answer a request, pass on what was sent | what is sent is passed on; it never blocks the service |
| **Configuration** (`src/config.rs`, parts of `src/service.rs`) | `config_toml`, the file, `last_config_reload`, the watcher's channel | load, write back, reload, `SetKeyRemap` | what is in effect is shown, and what is shown and valid is in effect; a save survives a restart |
| **Protocol** (`lan-mouse-proto`, `input-event`) | none | encode, decode | decode inverts encode; bad bytes are refused |
| **Frontend IPC** (`lan-mouse-ipc`) | connected frontends, line buffers | accept, requests, broadcast | a lost frontend does not stop the others |
| **Frontends, CLI, start, certificates** | user interface, arguments, files | | outside this project |

### 1.2 How they interact

```
 frontends ──requests──▶ Service ──CaptureRequest──▶ capture task ── InputCapture ── backend ── OS
     ▲                    │  ▲  ▲ ◀─ICaptureEvent──────  │
     └────notifications───┘  │  │                        └─ ProtoEvent ─▶ connections ─▶ network
                             │  │ EmulationEvent
                     DNS, clipboard, config      network ─▶ listener ─▶ ListenTask ──ProxyRequest──▶ emulation task
                                                                          ▲ ◀─ProxyEvent─────────────  │
                                                                          └ Ack, Pong, Leave           InputEmulation ── backend ── OS
```

All of it runs on one thread (`tokio`, current thread, `spawn_local`). Shared state is reached
through `Rc<RefCell<..>>` and `Rc<Cell<..>>`; tasks interleave only at `await`. Channels are
unbounded and first-in-first-out. Each task is a loop around `select!`, which polls its arms in
random order and drops the futures of the arms that lost.

### 1.3 What is hard

* The service runs ahead of the capture task by a whole channel of requests, while devices come,
  go, are moved and deleted.
* Both directions between two devices are datagrams: an `Enter`, `Leave`, `Ack` or any input may
  be lost or late, and an `Ack` does not say what it acknowledges.
* Input is queued in the backend, in `InputCapture.pending` and in the coalescer while the client
  it was meant for is deactivated or replaced.
* Backends fail, are made anew on request, and can be cancelled while they are being made.
* Keys are held down on one machine on behalf of another one that may vanish.
* Backends live between two worlds: a callback of the OS or a compositor on one side, the runtime on
  the other, each with its own idea of which edges are watched and who has the input.
* Wake-ups (`Notify`) reach only who waits at that moment; bounded channels block, or drop input.
* The configuration is changed by the file's editor, by `--remap`, and by frontends, and saved by
  truncating the file.
* A release bind must work in each of these states: it is the user's only way out.

`PROJECT.json` lists the hazards, each at its line with the properties that would see it go
wrong, or the reason why none does yet.

## 2. Modules

| Module | Models | State and actions |
|---|---|---|
| `CaptureChannels` | the two channels between service and capture task | `requests`, `capture_events`; handles split as in the code: clients below `ENTER_HANDLE_BEGIN`, incoming devices above |
| `ClientRegistry` | `Service` with `ClientManager` | one action per arm of `Service::run` that concerns clients or incoming devices: `AddClient`, `RemoveClient`, `ActivateClient`, `DeactivateClient`, `UpdatePos`, `EnterNew`, `EnterAgain`, `Disconnected`, `TakeLeave`, `ReleaseNotify`, `EnableCapture`, `ServiceCaptureEvent`, and `Boot`, which activates the configured clients one after the other |
| `CaptureTask` | `CaptureTask` and `InputCapture` | `run`'s phases are the variable `phase` (a panic is one of them, and so are `stalled` and `hung`: a call of the backend that never returns, raced with the token or not); one action per arm of each `select!`; `poll_next` is `PollPending` and `PollBackend`; the backend and the acknowledging peer are external actions |
| `Device` | the sending half of a device: `ClientRegistry` with `CaptureTask` | composition, fairness, the properties |
| `KeyRemap` | `KeyRemapEngine` | operators: an engine is a record of its scancode map and its pressed modifiers |
| `EmulationTask` | `EmulationProxy`, `EmulationTask`, `InputEmulation` | `ephase` is where `run` is; one action per arm; the backend's success or failure is a choice |
| `Emulation` | `ListenTask` with `EmulationTask`: the receiving half | `HearEnter`, `HearLeave`, `HearKey`, `HearOther`, `HearPing`, `Tick`, `RequestReenable`, `RequestUpdate`, `RequestTerminate`, `Report` |
| `ClientAddresses` | the `ClientManager`'s host names, ports, addresses and flags | `slab`: an entry or `None` per slot; what `set_active_addr` and `set_alive` do to it |
| `Resolver` | `dns.rs` and the service's part of it | `dns_requests`, `lookups` (one per handle), `dns_events`; `AddClient`, `RemoveClient`, `Resolve`, `SetHostname`, `SetFixIps`, `SetPort`, `TakeDnsEvent`, `TakeRequest`, `LookupEnds` |
| `Connections` | `connect.rs` | `connecting`, `conns`, `ping_response` as in the code; `attempts` (pending calls of `connect`), `conn` (a connection with its two tasks), `sending`; one action per stretch between two awaits of `send`, `connect_to_handle`, `ping_pong`, `receive_loop`; the other device is external |
| `Link` | `Resolver` with `Connections`, which share `slab`: from a host name to a connection | composition, fairness, the properties of both together |
| `CaptureBackend` | what `InputCapture` relies on: the abstract specification of a capture backend | `watched`, `events`, `open` (positions of captures whose input may still come); a capture begins only at a watched position, input carries the position of an open capture, and a closed one is opened again by a `Begin` only |
| `CaptureStream` | what all capture backends share | the queue of events for `InputCapture`; `poll_next` takes one |
| `LayerShell` | `layer_shell.rs` | one action per request and per wayland event that changes state; windows are records, alive as long as an `Arc` to them is; the compositor is external |
| `MacCapture` | `macos.rs` (capture) | the tap's callback (under the mutex: one action) and the task's arms; a channel of producer events between them |
| `WindowsCapture` | `windows.rs`, `windows/event_thread.rs`, `windows/display_util.rs` | the hooks, the message loop, posted messages and the buffer of updates; blocked sends; the drop, step by step |
| `LibeiCapture` | `libei.rs` (capture) | `do_capture` as `loop`, its session's three joined futures (`upd`, `cap`, `ei`), each with one action per await; a libei event stands for one to `PerEiEvent` input events, sent one after the other; the portal is external and may never answer a call |
| `CaptureBackends` | `input_capture::create` | the backends side by side, fairness, and `KeepsPromise`: each implements `CaptureBackend` |
| `EmulationBackend` | what `InputEmulation` relies on: the abstract specification of an emulation backend | `held`, `down`, `ended`: keys go down only while held, and none is down after the end |
| `EmulationSink` | `InputEmulation`'s calls into a backend, mouse speed and scroll factors; the desktop (external) | `calls` (the calls still to be made for one event), what devices hold, what the desktop takes to be down, and what was posted for a pointer event (`posted`) beside what it asked for; motion, continuous and discrete scrolling in fractions, cut as the casts of each backend cut them; `Input`, `Ending` |
| `QuartzPointer` | the pointer of both macOS backends | the cursor clamped to displays, buttons, scrolling |
| `MacEmulation` | `macos.rs` (emulation) | modifiers, the repeat task with its `Notify`, and `consume`, which waits for it |
| `VhidEmulation` | `macos_vhid.rs` | the readiness latch, HID keys; the daemon is external |
| `WindowsEmulation` | `windows.rs` (emulation) | the repeat task, `SendInput` tried again while another desktop has the input |
| `X11Emulation`, `WlrootsEmulation`, `LibeiEmulation`, `PortalEmulation` | the Linux backends | keys and pointer; virtual keyboards per handle and flushes that fail; any number of devices that the libei server announces, resumes, pauses, replaces and removes; a session the portal closes or never answers for |
| `EmulationBackends` | `input_emulation::with_backend` | the backends side by side, fairness, and `SinkKeepsPromise`: each implements `EmulationBackend` |
| `Configuration` | `config.rs` and the service's part of it | `disk` is the file; `Save` up to the truncation, `Written` after it; `Reload` with its debounce; `SetKeyRemap`; `Crash`, `Restart`; the tables as strings, which frontends are shown (`remap`), beside what the engine makes of them (`applied`): names have aliases, some are refused, and a role counts before its keys; the editor is external |
| `DeviceProofs`, `AgreementProofs`, `RoutingProofs` | | theorems about the sending half: types and registry; the channels; where input goes |
| `EmulationProofs`, `LinkProofs`, `ConfigurationProofs` | | theorems about the receiving half, the connections and the configuration |
| `CaptureBackendsProofs`, `SinkProofs` | | theorems about the capture and the emulation backends, their refinements included |
| `MCDevice`, `MCEmulation`, `MCLink`, `MCCapture`, `MCSink`, `MCConfiguration` | | the instances TLC checks |

Some definitions are not used by any specification and are called mutants in their comments.
Each is a definition of the module with one plausible mistake (a guard dropped, a request not
sent, an order swapped). `PROJECT.json` says which property refutes which one: it shows that the
property depends on what the code does.

The abstract specifications say what one module takes for granted of another. `Device` has the
capture backend as external actions: it grabs only a position with a barrier, and queues input for
the position it has grabbed. That is `CaptureBackend`, and the four backends are shown to implement
it under their own races. The refinement mapping: `watched` is the backend's own set of positions,
`events` the queue, and `open` depends on the backend. With layer-shell and on Windows it is the
position of the last `Begin` alone. On macOS it also has the positions of the `Grab`s in the channel and
`current_pos`: when the task comes to a `Grab` later than `EDGE_COOLDOWN` (200 ms), a second crossing may
have begun a capture by then, and what follows is input of the first. Through the portal it also has the
position of a libei event that is being sent: a scroll stands for two input events
(`input-event/src/libei.rs:88`), sent one after the other (`input-capture/src/libei.rs:554`), and `cap` may
put a new `Begin` between them. So on those two backends input of an earlier capture may arrive behind the
`Begin` of the next one. `Device` takes the strict promise, that of the other two: whom such late input
reaches is not among its properties. Likewise the
emulation task (`EmulationTask`) relies on keys being down only while they are pressed, and on none
being left down once the backend has ended: `EmulationBackend`, implemented by seven backends.

### 2.1 Modelling decisions

**Atomicity.** The handlers of the service do not await, so each is one action. The capture
task does await inside handlers (`release`, `send`), but in the middle of an arm of `select!`
that nothing else of that task can interrupt. The state those handlers read is the task's own,
so they are one action as well; what other tasks do meanwhile commutes with it. The exceptions
are the places where the code races an `await` against something else: the creation of a backend
against cancellation or termination, and the creation of barriers or handles one by one. These
are separate steps (`phase`, `ephase` `"new"` and `"create"`).

**Panics.** Where the code asserts or unwraps, the action leads to the phase `"panicked"` when
the condition is false. Nothing assumes the conditions; that they hold is `RequestsLegal` (proved) and
`IncomingAgree`, and where they do not is a finding or listed in section 3.2.

**Messages.** A message to a device is recorded in the history variable `sent` by what the
properties tell apart: its receiver, its kind, the handles whose input it carries, and who was
the active client at the time. `sent` holds what the last step handed to the connection. A send
either succeeds or fails, as `LanMouseConnection::send` may. Each successful `Enter` and `Leave`
adds to `unacked`; acknowledgements come late, in any number up to that, or never.

**Motion.** The coalescer in `CaptureTask` holds the set of handles whose motion has been
accumulated, empty when no deadline is set. How much was moved is left to its unit tests.

**Time.** Timers fire at any moment they are armed. For the 5 s timer of `ListenTask`, any set of
watched devices may have been silent long enough.

**Keys.** `Keys` is a set of scancodes; the modifiers are some of them. In `Emulation` everything
that is not a key event is one kind of input, and `held` is the history of what the remote
keyboards hold down according to the input passed on.

**Two slabs.** `ClientRegistry` has the part of a client's entry that decides about barriers
(position, active), `ClientAddresses` the part that decides where it is reached. No code reads
both to write either, except that an activation also asks for a lookup: `Resolve` may happen at
any time. `Device` sees of the connections that a send succeeds or fails and that
acknowledgements arrive or not; `Link` sees of the capture task that it sends, one message at a
time, for any client at any time.

**Connections.** A connection is known to others by its address only: `conns` and
`ping_response` have addresses as keys, so that an old and a new connection to one address
disturb each other. `conn[c]` says whose tasks these are. `open` is cleared when the code closes
it. Four pings and the sleeps between them are one step of `PingCheck`; an answer may come, be
late (any time while the connection is open), or be lost. A task that was spawned and has not
run yet (`connectors`) reads the client's addresses later than the send that spawned it.

**Threads.** The tap of macOS and the hooks of Windows run in threads of their own. The tap holds the
state's mutex for a whole callback, so a callback is one action, as is what the task does under the
mutex. The hooks run inside the thread's message loop, and share no state with the runtime but the
channel and the buffer of updates; a blocking send is two steps, with everything the runtime does in
between.

**Wake-ups.** A `Notify` reaches the futures that are waiting at that moment (`upd`, `cap`, `ei` and
the repeat tasks say where each is) and nobody later. A `CancellationToken` stays cancelled.

**The order of a future's first poll.** A task that has been spawned and not been polled yet is in
state `"new"`: it misses what is notified before its first poll.

**Keys of the backends.** In `EmulationSink` keys are evdev codes, since backends translate them and
their tables decide what collides: on macOS and Windows the translated code is compared with, or
used as, an evdev code in places. The tables have the modifiers and those other codes whose collisions
the instances show; a code they lack is a key that a backend does not know. The theorems hold for any
set of keys.

**The screen.** Outputs and displays are rectangles of whole numbers, small ones; the geometry code
is translated as it is (which edges are outer edges, where the cursor enters or is clamped).

**Fractions.** Motion and continuous scrolling come in parts of which `PerUnit` make a pixel or a unit, and
the factors are fractions of integers, so that products are exact; the code multiplies floats. What
happens then is modelled as it is: casts to integers truncate towards zero, the discrete wheel is rounded
and never to zero, clicks on x11 have a direction only.

**Names.** The tables of `[key_remap]`, `--remap` and frontends are strings. `FromConfigStr` gives the role of
a modifier's name, of which there are several per role, `KeyNames` are the names of scancodes, and other
names are refused with a warning (`src/config.rs:464`, `:480`, `:518`). What frontends are shown keeps
all of them, what is applied does not. Of several names of one role the entry that a `HashMap` yields
last counts, so any of them. The engine maps a role by its scancodes, over an entry of
`[key_remap.keys]` for one of these (`RoleKeys`).

**Calls that never return.** A call of a capture backend may hang in the capture task
(`BackendHangs`). Only the first `create`s are raced with the cancellation token (`src/capture.rs:252`); the calls
of a session, and `terminate`, are not. Calls to the portal wait for an answer, which is a step of
its own in `LibeiCapture` and `PortalEmulation`.

**External parts.** A backend's capture grabs a position when the pointer crosses a
watched edge; release and destruction of the barrier end the grab; events already queued are
still delivered. An emulation backend takes an event or fails; `broken` records that it failed to
release a key, since no code can promise anything about keys after that. The compositor, the portal,
the libei server, the Karabiner daemon and the desktop are external: each does what its protocol
lets it do, in any order, and takes requests in the order they were made.

### 2.2 Bounds

| Constant | Bounds | Why it is enough |
|---|---|---|
| `ClientHandles`, `Positions` (2 and 2) | clients and edges | eviction, moving and sharing an edge all involve two clients |
| `Addrs`, `MaxTriggers` (1, 2) | incoming devices and the barriers they ever get | an address that enters again, elsewhere, with a new handle while the old one's `Destroy` is on its way |
| `MaxRequests` (3) | the request channel | `UpdateIncoming` and moving a client send two requests; a third may be waiting |
| `MaxCaptureEvents` (1, 2) | the event channel | status and begin events racing each other |
| `MaxBackendEvents` (1, 2) | events the backend has queued | one being delivered, one behind it after the grab has ended |
| `MaxUnacked` (1) | acknowledgements still owed to one client | the late one of an earlier session next to the present one |
| `MaxIds` (2) | emulation handles given out | two devices, or one that goes and comes back |
| `MaxProxyRequests`, `MaxProxyEvents` (2) | the proxy's channels | input with a removal in front of or behind it |
| `MaxUpdates` (1) | changes of the remap configuration | keys pressed before it and released after it |
| `MaySilent` | devices that may stop sending for good | |
| `MaxDnsRequests`, `MaxDnsEvents` (1) | the resolver's channels | with the lookup itself three generations of one name are on their way |
| `Hosts`, `Ips`, `Ports` (2 each) | host names, one of them with two addresses, and ports | a change of each while it is in use |
| `MaxEvents` (1) | events a capture backend has queued | `Begin` or input in front of the next one |
| `OutputNames` (2), `Geometries` | outputs, which mirror each other or lie side by side | an edge that is outer for one output and inner for another, before and after a move |
| `MaxWlEvents` (1), `MaxKeyboards` (1) | events of the compositor on the way; keyboards | an event about a window that is gone by now |
| `MaxNotify` (2; 1 in `capture_backends_end`) | producer events on macOS | a Grab behind a Destroy or a Release of its position, and two Grabs when the task comes to the first after `EDGE_COOLDOWN` |
| `MaxMessages` (2) | messages posted to the Windows thread | an update behind a release |
| `PerEiEvent` (2; 1 in `capture_backends_end`) | input events per libei event | a scroll has one for each axis; a `Begin` can come between the two |
| `Scenarios` (10) | backend, devices and keys of the emulation instances | one for each idea: two devices sharing a key, a modifier whose translated code is another key, a special key, an unknown one |
| `MaxEiDevices` (2), `MaxEiServerEvents` (1) | devices the libei server announces, its events on the way | a device replaced by another while it is still there, so that a release goes to the other one |
| `PerUnit` (2), `EmMoves`, `Rolls`, `Wheels`, `MouseConfigs` | motion and scrolling in halves of a pixel, at half the speed and a quarter of the scrolling, natural | some are less than a pixel, a unit or a step after scaling, some more, in both directions |
| `Names` (7), `Roles` (3), `KeyNames` (2), `Remaps` (3 tables), `CliRemaps` (4) | the mappings | two names of one role, a key that belongs to a role, refused names; a `--remap` that overrides, that maps to itself and that is refused |
| `MaxNotices` (1) | notices of the watcher | a second one changes nothing that the first did not |
| `MaxEdits` (1), `MaxRestarts` (2) | edits of the file, starts | an edit before, between or after saves, a crash and a start from it |
| `ConnIds` (2) | connections whose tasks still run | an old one to the address of a new one; slots of connections that ended are used again |

The channels are unbounded in the code; in the model a sender whose channel is full waits.
That removes behaviours and adds none, except for fairness, see section 4. The proofs hold for
all values of the bounds.

The runs of `Link` have one slot: clients meet in it one after the other, since slots are reused.
What two slots could add is an address that two clients have in common; the theorems about `Link`
cover it.

`CHECK_DEADLOCK FALSE` is set in every configuration: both halves of a device really end (stopped
or panicked), a service that was told to stop takes no further step, backends end when they are
terminated or dropped, and a configuration whose starts and edits are used up stands still.

## 3. The runs

### 3.1 What holds

| Run | Instance | States | Shows |
|---|---|---|---|
| `registry` | 2 clients, 2 edges, 1 incoming device with 2 triggers, 3 requests; no input | 2.6 M | `TypeOK`; one active client per edge (`OneActivePerPosition`); the two maps of incoming devices agree (`IncomingAgree`); the capture task ends up with what the service wants (`CaughtUpAgrees`) |
| `routing` | 2 clients, 2 edges, 1 incoming device, a key, coalescing; clients settled | 2.4 M | only configured clients are controlled (`OnlyClientsControlled`); input is never sent to one client while another is active (`InputFollowsActive`); captured input, accumulated or not, reaches no other client (`MotionStaysWithClient`) |
| `release` | 1 client, 1 edge, 1 incoming device, a key | 322 k | liveness, while a call of the backend may hang at any point: the release bind ends the grab (`ReleaseBindFrees`), an event at an edge with no client behind it ends the grab (`OrphanFreed`), cancellation ends the task (`ShutdownCompletes`) |
| `emulation` | 2 devices, 2 modifiers, one remapped in one of two configurations, and a change of it | 2.0 M | `TypeOK`; handles of task and InputEmulation agree (`HandlesAgree`); what is down will be released (`NoStuckKeys`); the proxy's status is the task's (`EmulationStatusAgrees`); keys let go are up whatever the other device does (`ReleasedKeysUp`) |
| `silent` | 1 device that may fall silent, a key that is no modifier, remapped in one of two configurations | 179 k | who holds keys or has a barrier is watched by the timer (`InputWatched`); keys let go are up (`ReleasedKeysUp`); a silent device's keys go up and it is forgotten (`SilentReleased`); the task ends when told (`TerminateEndsUnlessSwallowed`) |
| `addresses` | 1 slot, 2 host names (one unknown to DNS), 2 addresses, 2 ports, 1 connection | 1.9 M | a client with a host name ends up with addresses of that name or none (`ResolvedAgrees`), and is not shown as being resolved for ever (`ResolvingAgrees`) |
| `connections` | 1 client with 1 address, 2 connections | 37 k | a send only finds a connection that is still received from (`ConnsReceived`); liveness: a task that connects ends and says so (`ConnectingEnds`), a session the other side has lost is closed (`DeadNoticed`) |
| `capture_backends` | 4 capture backends, 2 positions, 2 Wayland outputs, 1 or 2 Windows displays, 2 input events per libei event | 1.1 M | each implements `CaptureBackend` (`KeepsPromise`); layer-shell's barriers are where outer edges are watched (`BarriersOnOuterEdges`); the cursor on macOS is hidden exactly while grabbed (`CursorHiddenIffGrabbed`); updates reach the Windows thread (`WindowsUpdatesArrive`); a release is never lost on the portal's task (`ReleaseHeard`) |
| `capture_backends_end` | the Windows and the portal's backend, 2 positions, 1 display | 333 k | liveness: dropping the Windows backend ends (`DropEnds`), terminating the portal's ends (`TerminateEnds`), a position created while a session for the other one runs gets its barrier (`PortalCreateTakesEffect`) |
| `emulation_backends` | 10 scenarios on 7 backends, 1 or 2 devices, 1 to 3 keys, 2 displays, 2 libei devices | 232 k | each implements `EmulationBackend` (`SinkKeepsPromise`); modifiers applied are explained by keys or reports (`ModifiersExplained`); the cursor is on a display (`CursorOnDisplay`); motion and continuous scrolling lose less than a pixel or unit of each event, the wheel keeps whole steps, directions are kept, buttons are the ones asked for (`PointerKept`); liveness: what is let go comes up (`LetGoComesUp`), every call returns (`CallsReturn`) |
| `configuration` | 2 clients, 1 key, 3 roles, 7 names, 3 tables, 4 `--remap`s, 1 edit, 2 starts | 1.0 M | what is in effect is shown, and what is shown and not refused is in effect (`ShownIsApplied`); a complete save survives a crash and a start (`RestartKeeps`) |

Each takes from a few seconds to about four minutes with two workers.

`routing` is checked under `SettledSpec`: between two changes of the configured clients. Incoming
devices come and go in it. Across such a change the properties are not promised and do not hold:
a client that takes the place of the one being controlled is handed the next queued event without
a `Begin`, hence without the flush that a `Begin` causes, and gets the motion accumulated for the
old one with it.

**Exceptions.** Some properties name the cases in which the code does not do what they say:

* `ReleaseBindFrees`: `poll_next` returned `Pending` for an event at a position without handles
  after the backend had returned `Ready` (`parked`, see 3.2).
* `TerminateEndsUnlessSwallowed`: `Swallowed`, see 3.2.
* `ResolvedAgrees`: a client without host name, see 3.2.
* `DeadNoticed`: two connections to one address (`Shared`) share `ping_response`, so that answers on
  the live one count for the dead one. The dead one is sent on only as long as `conns` has it, which
  is until the live one was inserted.
* `BarriersOnOuterEdges`: between the removal of an output and the next event that builds the
  windows anew, its windows remain (`removed`).
* `ShutdownCompletes`, `ReleaseBindFrees`, `OrphanFreed`: a call of the backend that is not raced with the
  token and never returns (`"hung"`): `terminate` (`src/capture.rs:236`, `:243`), `release`, and
  `create` and `destroy` within a session (`src/capture.rs:302`, `:309`, `:312`, `:316`). A `create` of
  `create_captures` that never returns (`"stalled"`) does not keep a cancelled task.
* `ReleasedKeysUp`: keys that a change of the configuration has overlooked (`Overlooked`), see 3.2.
* `PointerKept`: what is cut is less than a pixel or unit of each event, and is not made up for by the next
  one, so that many small events come to nothing. Directions are kept for positive factors: the configuration takes
  any number, and a negative one turns the wheel round, as asked. x11 makes one click of any
  continuous scroll, and takes a button that it has no name for as the left one.
* `ShownIsApplied`: a name that is refused is shown all the same; a `--remap` that maps to itself
  (`SelfMapped`) or is refused (`Refused`) hides what the file says; a key's own entry is shown though it
  follows its role. All in 3.2.
* `DropEnds`: a hook that sends `Begin` when the receiver is gone aborts the process (`"aborted"`).
* `TerminateEnds`: `cap` waits for room to send a `Begin` that nobody makes any more (`"sending"`), or
  has failed while `ei` goes on (`"erred"`), which the join of the two never notices, or the portal
  never answers (`[]WaitsForPortal`).
* `PortalCreateTakesEffect`: the same failure, `InputCapture` waiting for room for a request while
  the task, which ends its session for an earlier one, waits for room for an event (`WaitingOnEachOther`:
  each waits for the other), a backend that is being terminated, and a portal that never answers.
* `ModifiersExplained`, `LetGoComesUp`: a backend has failed or discarded a release (`dropped`).
* `LetGoComesUp`: the libei server has announced another device, and a release goes to that one
  (`KeyboardReplaced`; `input-emulation/src/libei.rs:325-331`). The key stays down on the first one until the
  server pauses or removes it, or the session ends.
* `LetGoComesUp`, `CallsReturn`: the macOS repeat task has missed its notification (`CancelLost`: `select!`
  took its timer instead), and `consume` waits for its end for ever. Both are stated under `Answered`: the
  input desktop of Windows comes back and the portal answers, time and again. A portal that never
  answers, or never says `Closed`, keeps `consume` or `terminate` for ever.

### 3.2 What does not hold

One run shows where the code does something else than an assertion of it says; TLC finds the
violation. `no_such_capture`: `.expect("no such capture")` in `get_type` (`src/capture.rs:197`). When
a client and an incoming device share an edge, an event captured there is delivered to both handles,
the second one from `pending`. If the second handle is destroyed between the deliveries, `pending`
still has the event, and the task panics.

More properties are stated in the modules and not among the runs, since they do not hold; their
comments say why, and TLC finds a violation in the instance named:

* `Device!ReleaseBindAlwaysFrees` (the constants of `MCDeviceLiveness.cfg` with two positions, two
  clients, no incoming devices and `MaxBackendEvents = 2`; "Release bind (return control to host)"):
  `poll_next` returns `Pending` for an event at a position without handles after the backend returned
  `Ready`. No waker is registered, so events behind it, the release bind among them, wait for some
  other arm to fire.
* `Emulation!TerminateEnds` (`MCEmulationOne.cfg`; "allow termination event while requesting input
  emulation"): `create_clients` takes the `Terminate` request, returns `Ok(())`, and a session begins
  that nothing ends. `Swallowed` names this state.
* `Link!ActiveAddrOfClient` (`MCLinkAddresses.cfg`; "this automatically clears the active ip address
  and ips from dns", `src/client.rs:167`): it does, but a lookup under way is only aborted by the next
  request, and none is sent when the name is cleared; an attempt to connect that is under way makes
  the old host the active address as well.

Met while modelling, without a property of their own:

* `set_authorized_keys` (`src/config.rs:678`) sets `config_toml` to `Default::default()`, which is
  `None`, and then expects it to be there: the first `AuthorizeKey` without a file and without clients
  panics (the phase `"panicked"` of `Configuration`).
* Deleting the last client or the last key is not written down (`src/config.rs:662`, `:674`), so that
  it comes back with the next start; `RestartKeeps` says so.
* When the remap configuration changes, `src/emulation.rs:434-447` ("Release pressed modifiers using OLD
  mapping to prevent stuck keys") overlooks some keys: they are released on the handle of any
  device, which can be the wrong one, where `InputEmulation` drops the release of a key that is not pressed;
  keys that are no modifiers are not released; and the engine has forgotten its modifiers when another device
  was removed since (`reset`). `Overlooked` of `Emulation` names these cases; such a key stays down until
  the release of a key that is mapped to it comes, its device is removed, or the session ends.
* "so IPC state reflects CLI overrides" (`src/config.rs:593`): `--remap ctrl=ctrl` is shown and does not replace
  what the file maps `ctrl` to; a `--remap` with a name that is refused is shown in place of the
  file's valid entry, which stays in effect; an entry of `[key_remap.keys]` for a scancode of a role is
  shown, and the role's mapping counts. `ShownIsApplied` excepts each by name.
* An edit within 250 ms of a save or a reload is not looked at (`src/service.rs:647`), and nothing looks
  again later.
* On macOS the end of the repeat task gives `update_modifiers` the translated key code, which it takes for an
  evdev code, so that letting go of one key can clear the modifier that another one holds.
* `SetKeyRemap` is kept for the next save and undone by the next reload; a save overwrites what an
  editor has changed of any setting since the start.
* `README.md:49` has keys directly under `[key_remap]`, which the code looks for under
  `[key_remap.keys]` (`src/config.rs:73`).
* The clipboard's port is the configured one plus one, which overflows for 65535
  (`src/clipboard_sync.rs:72`).

## 4. Fairness

`Device.FairSpec`: weak fairness of polling the capture, of `create_captures`, of noticing the
cancellation, and of the service taking capture events, none of it while the task is in a call of the backend
that hangs: whether a call returns is not assumed. `select!` polls its arms in random order,
so an arm that stays ready is taken in the end. `WF` on the sum of `PollPending` and
`PollBackend`, not on each: both are one arm of the `select!`. Nothing is assumed of the user, of
the network (a send may fail for ever, an acknowledgement never come), or of the backend (it may
never report an event, and creating it may never succeed).

`Emulation.FairSpec`: weak fairness of the emulation task and of the proxy's event arm, and
strong fairness of the timer finding the silent devices. It is strong only because of
`MaxProxyRequests`: in the code the channel is unbounded and the timer's handler always possible;
in the model a channel that is full again and again disables it again and again. That calls to
the emulation backend return is part of the fairness of the task.

`Link.FairSpec`: weak fairness of a spawned task to begin (`Connect`), of each attempt to connect
to end (`connect` has a timeout of 5 s), of the check after four pings, and of `recv` failing on a
connection that was closed. Each is a task of its own that waits for a timer or its own socket.
Nothing is assumed of the other device: it may never answer, and lose its session without a word.

`CaptureBackends.BackendsFairness`: weak fairness of the Windows thread going on (`ThreadGoesOn`: the message
loop, and a blocked send when there is room) and of the owner that has begun to drop (`OwnerDrops`); of each
task of the portal's backend when what it waits for is there, and of `InputCapture` polling (`CallerGoesOn`).
Where a task waits for the portal (`WaitsForPortal`), nothing is assumed: the portal may never answer.
Strong fairness where a `select!` has several arms that come and go (`UpdateByRequest`, `CapCancelled`): it
polls them in random order. Nothing is assumed of the user, the compositor or the libei server.

`EmulationBackends.SinksFairness`: weak fairness of the backend's consuming a call, of the repeat
task being polled, and of `terminate`. Strong fairness of `SendInput` on Windows, which is tried again
without a pause. libei's `consume` writes to a socket that does not block, so that it always returns. Calls to
the remote desktop portal are assumed to return only where the code makes none (`PortalIgnores`). That the
portal answers and that Windows has its input desktop back is not fairness but the premise `Answered` of the two
properties that need it (`[]<>~input_blocked /\ []<>~WaitsForPortal`).

`Configuration` has no fairness: both of its properties are about steps and states.

## 5. Proofs

Each theorem holds for every value of the constants that satisfies the modules' assumptions: any
numbers of clients, edges, addresses, keys, devices, outputs and displays, and channels of any capacity.
The assumptions say that a bound is a number, that `None` is none of the values it stands in for, which
handles are clients', that a reload has something to load, and for the emulation backends that there are
finitely many devices and keys and that the cursor starts on a display (`ChannelAssumption`,
`RegistryAssumption`, `TaskAssumption`, `RemapAssumption`, `EmulationAssumption`, `ListenAssumption`,
`AddressAssumption`, `SlotAssumption`, `DnsAssumption`, `ConnectionAssumption`,
`ConfigurationAssumption`, `StreamAssumption`, `MacAssumption`, `WindowsAssumption`, `LibeiAssumption`,
`BackendsAssumption`, `SinkAssumption`, `QuartzAssumption`, `LibeiSinkAssumption`,
`ScenariosAssumption`). TLC evaluates each of them in a run. No theorem assumes more than these.

| Theorem | States | Argument |
|---|---|---|
| `DeviceProofs!TypeCorrect` | `Spec => []TypeOK` | per action; the helpers (activation, release, drop, delivery) have lemmas of their own that say what they return |
| `DeviceProofs!OneActive` | `Spec => []OneActivePerPosition` | with `ActiveConfigured` (active clients exist, and while the service starts only configured ones wait), since a client that is re-added or moved must not be active already |
| `DeviceProofs!IncomingConsistent` | `Spec => []IncomingAgree` | inductive as it stands given the types |
| `AgreementProofs!ChannelAgreement` | `Spec => [](CaughtUpAgrees /\ RequestsLegal)` | see below |
| `RoutingProofs!ControlsClientsOnly` | `Spec => []OnlyClientsControlled` | the type of a capture follows from its handle, in the channel as in the task (`Proper`) |
| `RoutingProofs!InputGoesToActive` | `SettledSpec => []InputFollowsActive` | see below |
| `RoutingProofs!MotionStays` | `SettledSpec => []MotionStaysWithClient` | see below |
| `EmulationProofs!EmulationTypeCorrect` | `Spec => []TypeOK` | part of `IInv` |
| `EmulationProofs!HandlesCorrect` | `Spec => []HandlesAgree` | see below |
| `EmulationProofs!NoKeyStuck` | `Spec => []NoStuckKeys` | see below |
| `EmulationProofs!StatusCorrect` | `Spec => []EmulationStatusAgrees` | see below |
| `EmulationProofs!InputIsWatched` | `Spec => []InputWatched` | see below |
| `EmulationProofs!ReleasedKeysAreUp` | `Spec => []ReleasedKeysUp` | see below |
| `LinkProofs!LinkTypeCorrect` | `Spec => []TypeOK` | per action |
| `LinkProofs!SendsAreReceived` | `Spec => []ConnsReceived` | inductive given the types |
| `LinkProofs!HostNamesAgree` | `Spec => []ResolvedAgrees` | see below |
| `LinkProofs!NotResolvingForEver` | `Spec => []ResolvingAgrees` | see below |
| `ConfigurationProofs!ShownApplied` | `ConfigSpec => []ShownIsApplied` | inductive with the type of `args`, see below |
| `ConfigurationProofs!RestartKept` | `ConfigSpec => RestartKeeps` | see below |
| `CaptureBackendsProofs!CursorFollowsGrab` | `BackendsSpec => []CursorHiddenIffGrabbed` | see below |
| `CaptureBackendsProofs!BarriersFollowOutputs` | `BackendsSpec => []BarriersOnOuterEdges` | see below |
| `CaptureBackendsProofs!WindowsUpdates` | `BackendsSpec => []WindowsUpdatesArrive` | see below |
| `CaptureBackendsProofs!ReleasesAreHeard` | `BackendsSpec => []ReleaseHeard` | see below |
| `CaptureBackendsProofs!BackendsKeepPromise` | `BackendsSpec => KeepsPromise` | refinement, see below |
| `SinkProofs!SinksKeepPromise` | `SinksSpec => SinkKeepsPromise` | refinement, see below |
| `SinkProofs!ModifiersAreExplained` | `SinksSpec => []ModifiersExplained` | see below |
| `SinkProofs!CursorStaysOnDisplay` | `SinksSpec => []CursorOnDisplay` | `ClampFacts`: a clamped point is on the display it is clamped to |
| `SinkProofs!PointerIsKept` | `SinksSpec => []PointerKept` | lemmas on the sign, the truncation and the rounding of the scaled value, per backend |

**Channel agreement.** The invariant is about each handle by itself: the requests about it
alternate between `Create` and `Destroy`; the first one fits what the capture task has; the last
one says what the service wants; without any the two agree. Sending appends a request that must
differ from the last one about its handle, which the service cannot see: what it can see is what
it wants, and the invariant ties the two together. So `CaughtUpAgrees` and `RequestsLegal` are
one inductive invariant, neither inductive alone. It rests on the types, on
`OneActivePerPosition` (an eviction destroys the barrier of exactly one client), on
`IncomingAgree`, and on `IncomingHandles`: registered incoming devices have handles below the
next trigger and no two the same. The lemmas `SendOther`, `SendAbout`, `ReceiveOther` and
`ReceiveAbout` say what appending or taking a request does to the requests about a handle; every
action of the service is a composition of at most two sends.

**Emulation.** `HandlesAgree` speaks of sessions only and is not inductive: the handles are
created one by one before, can be left half made by a failure, and removals are ignored while
there is no session. `IInv == TypeOK /\ ExitKnown /\ HandlesMade /\ HandlesDistinct /\ KeysKnown`
says where the handles stand in each phase (in `create`: the ones made and the ones yet to make
are those in use), that a `Terminate` in the channel means that exit was requested, that handles
are distinct and below the next one, and that keys are recorded as pressed only in a session and
for a handle that was created and is in use. `ReleaseKeysEffect` and `EndSessionEffect` say what
releasing the keys of a handle and ending a session leave behind, including a backend that fails
half-way.

**Resolver.** `ResolvedAgrees` and `ResolvingAgrees` speak of a client about which nothing is on its
way, so the invariant has to say what is on its way. `LastIn(q, S)` is the last element of a
channel that is in `S`, `NoneIn(q, S)` that there is none. For each handle, `Latest` follows the
pipeline from its end: if a request is waiting, the last one has the present host name; else if
lookups run, they are for that name; else if a result is waiting, the last one has
that name's addresses or none; else the entry does. `Shown` says of the flag that without a lookup the
last event is a result, or the flag is already cleared. `AppendLast`
and `TailLast` say what sending and taking do to `LastIn`. A slot that is given to another
client needs nothing special: whatever is late for the old client is overtaken by the first
request of the new one.

**Configuration.** `ShownIsApplied` compares two computations: tables merged as strings and then shown, and
tables parsed to roles and keys and then merged. An override in either is decided by the last entry of `--remap`
that counts (`LastPlace`, `InsertedIs`); which entries count differs, and `RolesAgree` and `KeysAgree` say for one
role and one key how far the two agree, `MergeAgrees` for all. `RestartKeeps` is about a single step, but what it says of the file was true ever since the
save. `SavedInv` carries it: what a complete save has left in the file is what the service has of
clients and keys, except that none of either are not written down; while the file is being written
that holds of `config_toml`, which will be written. `SetBoth` says what the two setters of a save make
of the configuration.

**Routing.** Whom an input event reaches is decided long before it is delivered: events queue in the
backend, copies of them for several handles in `pending`, motion in the coalescer. `Proper` holds of
every configuration: a handle of an incoming device is never captured as a client's. Between two changes of
the configuration `RoutingInv` adds what is on its way. `Queued`: the only requests about clients are the
`Create`s the device starts with, ahead of all others. `Arriving`: `Begin` comes before the input of
another position (`Chain`), and nothing is captured where a client's barrier does not exist yet (`Fresh`).
`OneEvent`: what is pending is one event, for at most one client. `Routes` is the argument itself: wherever
the next input comes from, whoever is active or has motion accumulated (`Owners`) is the client of that
position, or nobody there hears it (`Deaf`), or the `Begin` for that client is pending and delivered first
(`Coming`). What is sent is then input of its receiver only.

**Status and watching.** `LastReport` is what the proxy will hold after it has read the reports on their
way; it is `"Enabled"` exactly where a session exists or is in the making (`StatusKnown`). `Watched` is
`InputWatched` without its premise that there is a listener: who is not watched has no input in the channel
and no keys down, or its `Remove` is in the channel behind all of its input. `ReleasedKeysAreUp` needs a
reason for each key that is down: some key that the engine maps to it is still held, or its release is under way,
behind the last press of it (`KeysExplained`, `PressesExplained`), unless the key is one that a change
has overlooked (`carried`). When the configuration changes, the one device that is not overlooked has all of
its keys known to the engine (`EngineSteady`), and they are released with the mapping they went down with.

**Capture backends.** Each has an invariant of its own, and a backend that is not in use stands still. macOS:
`CursorHiddenIffGrabbed` is inductive given the types. Layer-shell: the windows are those of outer edges after
each of the ways they are patched or rebuilt (`Windows`). Windows: the last update about a position in the
buffer decides (`LastIn`, `Watching`), and a buffer that is not empty has its message (`Buffered`). Portal:
each of the two tasks waits for room at most once and in this order (`TaskWaits`), and a capture that is
grabbed has activated its barrier (`CapKnown`). The refinement needs of layer-shell and Windows that the position their input will carry is
the one that began last (`FocusIsLatest`, `ActiveIsLatest`). On macOS an open capture is one whose `Begin`
was the last, whose `Grab` is in the channel, or which the task has taken: handling a `Grab` moves it from the second
to the third (`GrabTaken`, `GrabSent`). Through the portal at most two tasks wait for room (`WaitsInOrder`), and the
current position is the one that began last, unless its `Begin` still waits (`PositionIsLatest`). Each step of a
backend is then a step of `CaptureBackend` or leaves its variables alone (`LSKeeps`, `MacKeeps`, `WindowsKeeps`,
`PortalKeeps`).

**Emulation backends.** `FrontInv` is about the calls: they belong to one event, one release or the
termination, in order, and what a call says of its device is so until it has returned. On top of it each
backend keeps what it has down explained: a key that is down is held by a device or about to be released
by a call (`Explained`), and on macOS there are no others but media keys and the one the repeat task
types, which is why the state of that task and of its notification is part of the invariant
(`MacRepeats`). A modifier that is applied is explained by a handle whose keys or reports have it or whose
call clears it (`Explains`, `MacModifiers`, `WlrMasks`); wlroots has keyboards only for handles that exist
or are about to be destroyed. A call that fails drops the event's other calls but not the
destruction. Every step of a backend is then a step of `EmulationBackend` or a stutter.

**Model-checked only.** The liveness properties, since fairness and `ENABLED` are beyond TLAPS's backends:
`ReleaseBindFrees`, `OrphanFreed`, `ShutdownCompletes`, `SilentReleased`, `TerminateEndsUnlessSwallowed`,
`ConnectingEnds`, `DeadNoticed`, `DropEnds`, `TerminateEnds`, `PortalCreateTakesEffect`, `LetGoComesUp`,
`CallsReturn`. Every other property of the runs is a
theorem. What a recursive definition computes for every input cannot be proved (induction over data);
the modules that are proved about have no `RECURSIVE` operator.

## 6. What is not modelled

* **Service**: notifications of frontends, clipboard events, fingerprints' descriptions, hooks. No
  barrier and no client's activity depends on them.
* **ListenTask**: accepted and rejected connections, the port change and the replies to devices;
  the state here does not depend on them.
* **KeyRemapEngine**: the stateless remapping of modifier bit masks, the warnings of `validate`.
* **Connections**: `send_batch` and `send_raw`, which nothing calls; messages other than `Pong`,
  which are passed on. **DNS**: the resolver's termination.
* **Configuration**: settings read only at the start (ports, backends, speeds, the certificate), the
  wording of the file.
* **Capture backends**: buffers, sockets and the configure handshake of layer-shell; the displays'
  bounds and warping of the cursor on macOS; the geometry of zones in libei. `x11.rs` answers every
  call with an error, and the dummy keeps no state.
* **Emulation backends**: click counts and drag event types on macOS, the shape of posted events, the
  portal's token file; the dummy logs what it is given.
* **Event coalescer**: the sums and the deadline are arithmetic of single calls (its unit tests);
  whose motion is accumulated and when it is flushed is modelled in `CaptureTask`.
* **Listener**: it accepts, checks certificates and passes messages on, and no other part of the
  state depends on its table of connections. **Clipboard**: a server on a
  port of its own that answers one request at a time; nothing connects to it or broadcasts yet (a TODO at
  `src/clipboard_sync.rs:129`), so there is no exchange between devices to get wrong.
  **Protocol**, `input-event`: a codec and tables, pure data; messages are records here. **IPC**: lines of
  JSON over a socket; its requests are actions of `ClientRegistry`, `Resolver` and `Configuration`.
* **GTK frontend, CLI, start-up, diagnostics, certificates**: user interface and file I/O; what
  they ask for is the input of `ClientRegistry`.

## 7. Plan

1. *Done*: `Device` (registry, capture task, InputCapture), `Emulation` (ListenTask, emulation
   task, InputEmulation, key remapping) and `Link` (resolver, outgoing connections), each with
   runs and theorems.
2. *Done*: the capture and the emulation backends, each shown to implement the promise its front
   relies on; `Configuration` with its theorems.
3. *Done*: theorems for the safety properties of all runs and for both refinements, for every value of the
   constants.
4. `Handover`: two devices that may enter each other (`DOC.md:72`: events are either sent or
   received), over a network that loses and reorders, composed from an abstraction of `Device` and
   `Emulation`, since the product of two whole devices is out of TLC's reach.
5. `Clipboard`, once something broadcasts: echo between two devices.

The runs are to stay few: a new component takes the place of a run whose question another one
answers as well, or joins the configuration of one.
