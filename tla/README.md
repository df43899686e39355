# adbproxy-rs: TLA+ models, checks and proofs

This directory models `adb-hub`, `adb-hubd`, the per-user agents and `adb-proxy`:
who owns which device list, what a client is shown, where a session goes, which
process becomes the hub, what the config file and the policy read from it hold, and
what happens when processes die, channels fill up and requests overlap. Paths below are relative to the repository root; `PROJECT.json` gives
the source lines behind every definition.

## 1. Inventory

### The system

`adb-proxy` runs on a machine with phones and guards its ADB server with a pair
code. `adb-hub` aggregates a local ADB server and any number of paired proxies
into one ADB server for clients. On a machine with several users, one process
becomes the shared daemon (the data plane, which owns the listening port) and
every user has an agent, which keeps that user's pair codes and publishes that
user's devices to the daemon over a Unix socket.

| Part | State | Operations | Talks to |
|---|---|---|---|
| Multi-user daemon (`daemon.rs`, `tenant.rs`) | `agents` (uid to connection, RwLock), shared list and private lists (two locks), broadcast channel | accept, register, read loop, clean-up; list, track, forward | agents by messages, clients by sockets, TunnelManager by calls |
| Private streams (`daemon.rs`, `agent.rs`, `ipc.rs`) | `stream_tx`, `open_waiters`, mpsc channels, the agent's `streams` map | open, data, close in both directions; ten-second limit | daemon and agent over one multiplexed socket |
| Agent polling (`agent.rs`) | route table, compatibility cache, the config of the start | `refresh_and_publish` | config file, backends, daemon |
| Classic hub (`hub.rs`, `backend.rs`, `registry.rs`) | `shared` raw lists (mutex), registry (RwLock), broadcast channel, `kill` Notify | first poll, version gate, seed, watchers (track or poll), select loop | backends, client sessions |
| Client sessions (`session.rs`) | none of their own | dispatch, track-devices, forwarding | registry, policy, backends |
| Merging and routing (`registry.rs`, `session.rs`, `config.rs`, `policy.rs`) | registry, policy | merge, filter, find, pick | pure functions |
| scrcpy tunnels (`tunnel.rs`) | `listeners` (mutex held over an await), one task per listener, a chain of one-shots per connection | add, remove, remove_owner, accept, drain | daemon, sessions |
| Service start-up (`service.rs`, `local.rs`) | the port, the control socket's name or path, the side ADB server | become daemon or agent, stop, drop the side server | the operating system, other users' processes |
| Config file (`config.rs`, `bin/adb-hub.rs`) | one TOML file, its temporary file, a cached policy with a time stamp | pair, unpair, node, device; load, save, reload | command line, hub, agent |
| adb-proxy (`lib.rs`, `auth.rs`, `proxy_config.rs`, `main.rs`) | a policy file, its cache shared by all connections | authenticate, check, filter, forward | hubs, the host's ADB server |
| Version gate (`compat.rs`), framing (`protocol.rs`), identity (`peercred.rs`) | none | parsing, system calls | all |

### What is hard here

* Tasks of one user's old and new agent connection overlap (registration, late
  snapshots, clean-up under a lock held over two further calls).
* Notifications are sent after a lock was dropped, through a bounded broadcast
  channel, to trackers that read two lists under two locks.
* Two locks are held while waiting for room in a bounded channel.
* Lists are copied under one lock and published under another.
* Select loops drop futures, in one place in the middle of a frame on a socket that is shared;
  `notify_waiters` reaches only futures that exist.
* A write to a client or a backend has no time limit, and its task may be holding something others need.
* A listener is taken down, waited for and replaced under a lock while the
  kernel goes on completing connections for it.
* Time limits race answers; a peer may die between any two steps.
* Processes of several users share a port, a socket name, a socket file and a side
  ADB server, and decide by binding and releasing them who is the hub.
* A file is read in two system calls (time stamp, content) while others replace it,
  and verdicts and policies taken from it are cached.

Every such place is listed with its line under `hazards` in `PROJECT.json`,
together with the properties that cover it, or the reason why none does.

### What makes each part correct

* Daemon: the table points only at live connections; a published list survives
  other connections' clean-ups; nobody sees another user's devices; a tracker
  never misses a change and ends up with the current list.
* Streams: bytes arrive in order and completely as long as the frames are whole; the maps are left clean; a late
  answer reaches nobody; both sides of a session end.
* Classic hub: no lost wake-up; with polling, the registry converges to what the
  backends list.
* Agent: the snapshot follows the config file, and no route leads to a proxy that is
  too old, however the file changes between rounds.
* Config file: a command changes the document once or not at all; the file stays
  private; the policy in use becomes that of the file.
* Service: a serving daemon's ADB server and control socket stay usable; every process
  ends or is registered; nobody is turned away without a cause.
* adb-proxy: every answer follows a policy that was in force since the request.
* Routing: public serials are unique, every listed device can be reached by the
  serial shown, a name does not move to another device when one backend's list changes.
* Tunnels: no orphaned listener, sockets in order, queued connections not reset,
  every request answered.

## 2. Modules

A step of a model is what a task does between two points where another task may
run: an awaited lock, a channel, a socket, or the gap between dropping a lock and
the next shared access. Payloads are abstracted to what the properties tell apart.
Definitions whose comment starts with `Mutant:` are deliberately wrong
variants used to show that a property can fail; no specification uses them.

| Module | Models | Kind |
|---|---|---|
| `TenantDaemon` | daemon, tenant registry, trackers | state machine |
| `PrivateStream` | multiplexed streams of one control connection | state machine |
| `ClassicHub` | accept loop, poller, watchers, registry, trackers | state machine |
| `DeviceRouting` | merge, policy filter, lookup, choice of a device | operators, driven by a small state machine |
| `Tunnels` | listeners, their tasks and connections | state machine |
| `HubConfig` | the config document, the commands' effect on it, the policy in it | operators |
| `AtomicConfig` | what a user may expect of the config commands | abstract specification |
| `ConfigFile` | the commands over a file system; implements `AtomicConfig` | state machine, refinement |
| `PolicyReload` | `ReloadableHubPolicy` beside the commands of `ConfigFile` | composition |
| `AgentPoller` | the agent's rounds of polling over the documents of `HubConfig` | state machine |
| `ServiceStartup` | users' service processes: main, daemon and agent task of each | state machine |
| `ProxyConnection` | connections, policy cache and start of `adb-proxy` | state machine |
| `TenantDaemonProofs`, `PrivateStreamProofs`, `ClassicHubProofs`, `DeviceRoutingProofs`, `TunnelsProofs`, `ConfigFileProofs`, `ServiceStartupProofs`, `ProxyConnectionProofs` | theorems about the module of that name; `ConfigFileProofs` also about `PolicyReload` and `AgentPoller` | proofs |
| `MC...` | values of the constants for TLC | instances |

### TenantDaemon

| Code | Model |
|---|---|
| `DaemonState.agents` and its write lock | `agents`, `writer` |
| `TenantRegistry.shared` / `.private` | `shared` / `listed` (the keys), `private` |
| the socket from an agent | `wire[c]`; a dead agent's messages stay readable |
| position of `handle_agent(c)` | `task[c]` |
| position of `handle_adb_client(k)`, its snapshot, what was written | `client[k]`, `seen[k]`, `shown[k]` |
| `broadcast::Receiver` | `pending[k]` (at most `NotifyCap`), `lagged` |
| listeners of `TunnelManager` by owner | `tunnels` |

`InsertAgent` replaces whatever is registered and closes nothing, as
`handle_agent` does. `ReadSnapshot` writes the list of the connection's user
whichever connection is registered. `BeginCleanup`, `RemoveAgent`,
`NotifyRemoval` and `RemoveOwner` are the clean-up under the write lock, which
`InsertAgent` and `OpenPrivate` wait for. `SnapShared` and `SnapPrivate` are two steps
because `snapshot_for` takes two locks. `published` is a history variable, and so is `late`: the
connections that published while no agent of their user was registered, since the user's last clean-up.
The user behind a connection comes from the kernel: `UidOfConn`, `UidOfClient`.

### PrivateStream

`forward_private` is `fwd[s]` with one action per await; `agent_read_loop` is
`reader`, whose state `send` means that it holds a chunk and the lock of
`stream_tx` while it waits for room. The agent's main loop is `loop`, with the
same for `streams`; the bridging task of a stream is `bridge[s]`. The socket is
two bounded queues. Chunks are numbered, so order and completeness can be stated.
`TimedOut` is the ten-second limit (enabled at any time while no answer is there), `WriteFailed`
the failed write, which keeps the lock of the write half until the handler has returned
(`WriterHeld`), because the guard is a temporary of the `if let`. `ReturnError` is the early
return with `?`, which skips the removal of the sender. A write to a client is `Deliver` and then `Delivered` or
`ClientGone`, a write to a backend `ToUp` and then `ToUpWritten` or `ToUpFailed`; in between
the task reads nothing else, for as long as the peer likes.

A frame is written by several `write_all` calls. `FromUpPart` has written a part of it and holds the
lock of the write half. When the other half of the bridging task ends meanwhile, `select!` drops it there
(`DropFromUp`): what is left on the socket is the message `Cut(s)`. `ReadTorn` is
`read_message` on it: the frame that follows fills the length that was promised and is lost, what
comes out is any message about any stream, nothing (an unknown stream) or an error that ends the reader, and
the boundary may be missed again. `lost` is a history variable that records the first such read. Other writers are not
dropped in the middle of a frame: the main loop and `forward_private` write in the arm of their
select. `ControlClosed` is the agent whose connection the daemon has given up after such an error.
A crash of the agent loses what it has not read and leaves what it has sent.

### ClassicHub

`Gate`, `Seed` and the publication by `Seeder` are `run_backend_poller`;
`Probe`, `TrackConnect`, `TrackPacket`, `TrackLost` and `Poll` are a watcher.
`CopyLists`, `UpdateRegistry` and `NotifyTrackers` are `publish_shared` and
`update_from_backend_lists` with the two places where another task may run.
`accepting` and `killed` are the select loop and the `Notified` future of its current
turn. `SwitchNode` changes the config file; `TrackRead` reads the policy.
When the loop returns the watchers go on, because the poller's abort does not reach
detached tasks; the end of the process is the end of a behaviour. The registry is represented by the lists it was
merged from; merging itself is `DeviceRouting`. At the start the local ADB server is up,
because `LocalAdb::prepare` has waited for it.

### DeviceRouting

A serial is the sequence of its parts between colons, so a serial that already
looks like `backend:serial` is an ordinary value. `Merge` is
`merge_device_lists` with its conflict rule and its fallback; `FilterSnapshot`,
`LookupDevice`, `LookupOnline`, `PickPreferred` and `Route` follow `filter_snapshot`, `find`,
`pick_preferred` and `rewrite_upstream_service`. `Select` is a filter of an iterator. `HostSerial` splits what follows
`host-serial:` at its first colon, as the code does. `Update` gives the registry any lists of a set, of all the
backends at once: `publish_shared` copies them under a lock and publishes after it has dropped it, so that the registry may
jump over a report of one backend or go back to an older copy. `lists` is what the registry was given last. The policy changes in between. `Numeral` writes
an index as text; that no two indices are written alike is all that is assumed of it. The name of a
backend is one part: `default_backend_name` makes it so (`src/config.rs:427`); a name
with a colon given by hand is left out.

### Tunnels

A listener carries the name of the request that added it. `lock` is the manager's
mutex, held from `AddFirst` or `TakeDown` until the request is answered.
`ready` is the mark of tokio's I/O driver: `poll_accept` does not ask the kernel
without it, which decides whether a queued connection is seen by the last poll of a
listener that was told to stop. `late` is a history variable with the connections that
came after the request to remove the listener was read.

### HubConfig, AtomicConfig, ConfigFile, PolicyReload

A document is a record of `include_local`, the backends by name and the disabled devices;
it is `Absent`, or `Torn` when it does not parse. `Loads` is `from_toml_file`, which
refuses a document without any source of devices. `Results(c, d)` is the set of
documents command `c` may write when the file holds `d`.

`AtomicConfig` lets a command that runs commit once, in one step, to one of those
results, and return; a command that fails or is interrupted before has changed nothing.
`ConfigFile` does the same with the system calls of `save_file`: `Load`, `Open` (create or
truncate `config.toml.tmp`), `Write`, `Restrict` (mode 0600 by name), `Rename`, `Report`,
with `Interrupt` between any two and `WriteFails` for a full disk. An open file follows its
content: `fd[p]` says under which name it is found now, so that a process may write into
what another has renamed, and `Overwritten` says what is left when it does. The
refinement maps `document` to the content of `config.toml` and the positions of a process
to `running` and `committed`. Once two commands, or a command and an edit, have overlapped (`clash`),
the abstract specification promises nothing; section 4 says what may happen then.

`PolicyReload` adds `ReadStamp` and `Reload`, the two reads of `refresh`, with any step of a
command in between. `collided` is a history variable: a time stamp was used twice. `path` says whether the hub was
started from the file: `build_config` that finds no file, or one that does not load, goes on with
`local_only()`, which has no `config_path`, and `refresh` then returns the policy of the start for ever.

### AgentPoller

One round of `refresh_and_publish` is `LoadConfig`, `Gate`, `SwapRoutes` and
`SendSnapshot`, because backends are awaited in between. `inline` is the config of the
start, `NoConfig` for an agent started alone. `Source` and `Unusable` are the choice between the file, `inline` and the
default; `Gate` asks the proxies again only when the fingerprint of the
enabled backends has changed; `SwapRoutes` reads the policy from the file once more.
`LoadFails` ends the poller, or, in the round before the poller is spawned, only reports.

### ServiceStartup

| Code | Model |
|---|---|
| position of `run_shared_service`, of the daemon task, of the agent task | `main[p]`, `daemon[p]`, `agent[p]` |
| the listening port | `port` (a process, `Free`, or `Stock`: an ADB server started by a client) |
| the abstract name, the socket file | `named`, `path` with its owner and whether it still listens |
| the ADB server on the side port, `started_by_us` | `side`, `owned[p]` |
| the control connection of an agent | `hub[p]` |
| the agent is making its first snapshot or handling a message, away from its select | `busy[p]` |

`Start` and `Release` bind the port and give it back; `Prepare`, `Launch`, `BindControl` and
`BindPort` are the start of the daemon in the order of the code; `DropSide` is the `Drop` of
`LocalAdb`, which comes after the listeners are closed. `Crash` (SIGKILL, and SIGTERM, which
nobody catches) drops nothing. `Handle` and `Handled` are an agent that leaves its select for a
message and comes back to it; in between it sees neither the stop nor the end of its connection. `overlap` and `disturbed` are history variables: a
start while another process starts or stops, and a stop, crash, failure, slow start
or stock ADB server.

### ProxyConnection

`pc[c]` is `proxy_connection`. `Refresh` and `Reload` are `ReloadableProxyPolicy::refresh`
under the lock of the cache (`holder`), `Use` what a connection does with the table.
`LoadAtStart` and `StampAtStart` are `new`, in the order of the code. `some` and `all` are
history variables: devices enabled at some time, and all the time, since the request or, for a
tracker, since its packet was read.

## 3. Runs

Every passing run has the bounds that let its interesting cases happen; deadlock
checking is off because clients and agents may stop for good.

| Run | Checks | Instance | States |
|---|---|---|---|
| `tenant_reconnect` | `TypeOK`, `RegisteredIsServed`, `PublishedListKept`, `TrackerUpToDate`, `DisconnectRemovesDevices`, `OnlyDeadAgentUnregistered` | one user, two lives of the agent, a client, channel of one, a poll | 1.5 M |
| `tenant_users` | `TenantIsolation`, `TrackerConverges` (fair) | two users with one agent each, a client of the first, a channel of one that overflows | 0.2 M |
| `stream_session` | `TypeOK`, `NothingTruncated`, `NothingLeftBehind`, `DataInOrder`, `AnswerReachesWaiter`; `SessionTornDown`, `DisconnectNoticedUnlessStuck` (fair) | one stream, channels of one, socket of two, three chunks up and two down, crash, broken client, frames cut off | 0.35 M |
| `hub_devices` | `TypeOK`, `TrackerUpToDate`; `PollingConverges`, `DisabledNodeLeftOut` (fair) | a polled backend and one that is tracked or polled, a change, a flap, a policy change | 0.8 M |
| `routing_names` | `ListedIsReachable`, `PickIsPreferred`, `NameNeverRetargeted` | three backends, six lists with prefixed and repeated serials and one that looks like the last resort of the merge, every policy with one device disabled | 26 k |
| `tunnel_forwards` | `TypeOK`, `NoOrphanListener`, `OrderPreserved`, `QueuedNotReset`; `EveryRequestAnswered` (fair) | add, add again, remove, a second user with port 0, two connections, an owner leaving, accept failing | 1.2 M |
| `config_file` | `ReloadTypeOK`, `CachedIsCurrent`, `OwnerOnlyKept`; `AtomicSave` (refinement); `PolicyFollowsFile` (fair) | two processes, two commands of four kinds, an edit, one repeated time stamp; no file, a broken one, or a single backend without the local one; a hub started from the file or without it | 1.2 M |
| `agent_publish` | `OldProxySkipped`; `AgentFollowsConfig` (fair) | two names, two addresses of which one is too old, three changes, two flaps | 0.4 M |
| `service_start` | `SharedServerUp`, `ControlReachable`, `NobodyTurnedAway`; `EverythingSettles` (fair) | two users with a local ADB server, three starts, agents that are busy, control socket by name or path | 0.9 M |
| `proxy_session` | `AnswersFollowPolicy`; `TrackerFollowsHost` (fair) | two connections, two devices, two changes of the file, one plug | 1.9 M |

Why the bounds are enough: overlap of connections of one user needs two of them;
a third goes through the same states with respect to each of the others, and the
theorems of section 5 do not depend on the number. A channel of one element is
full after one message, which is the case the real 32 and 64 make rare. Three
chunks fill the channel, the reader's hand and the socket; two in the other direction fill the channel and the
main loop's hand, and the session's own `StreamClose` follows them.
Two streams have more than twelve million states with the smallest of the other bounds, which is out of reach of a run that is repeated
often; what needs two of them, a frame of one that swallows a frame of the other and the wait by way of the
write half, is in the module, and the theorems cover it. Two backends are needed
for publications to cross; three for a serial to conflict with two others. Two
commands overlap in every way two processes can, and the third writer is the editor. Three starts
let both users start, and one of them stop or crash and start again beside the other, while it serves or leaves too. Two connections share a cache in every way: one reloads while the other waits.

`SessionTornDown` and `DisconnectNoticedUnlessStuck` name the waits nobody ends (`Stuck`): a
lock held for room in a channel whose receiver waits for that lock, in the daemon and in the
agent; and, in the daemon, one whose receiver waits for the write half that a failed request holds while
it waits for the lock. Their premise `PeersRead` is that every client and backend goes on taking what is
written to it, or leaves in a way that ends the write: a peer that stays connected and does not read
blocks its task, through the full channel the reader or the main loop, and with it every stream of the agent.
Under that premise the run shows that one stream meets no other wait. `DataInOrder`, `NothingTruncated`
and `SessionTornDown` promise nothing once the daemon has read a frame that was cut off (`lost`).
`PollingConverges` holds when some watcher polls. With tracking watchers only, a
stale publication stays until the next packet (section 4); a tracked backend
that went down keeps its last list.
`DisconnectRemovesDevices` names the one way in which devices outlive their agent: an earlier connection, replaced and
still being read, published while nobody was registered, and no clean-up of the user has followed. That a
snapshot of a replaced connection may also overwrite the list of a live successor is not excluded by any
property; `PublishedListKept` is about the list being there.
`PolicyFollowsFile` is about a hub that was started from the file, `CachedIsCurrent` about every hub.
`EverythingSettles` has the premise that agents come back to their select again and again.
`SharedServerUp`, `ControlReachable` and `NobodyTurnedAway` are about processes that do not start
while another one starts or stops, however many crashed before; what happens in that case is
`service_race` and section 4.
`ListedIsReachable` has the precondition `Unindexed`: no listed serial ends in an index of the merged
list. The fallback name with an index is not looked up among the names in use
(`src/registry.rs:152`); when `lab` lists `local:x:2` and `local` lists `x` twice, two devices are called
`local:x:2`. The run reaches these lists, and every other one satisfies the property. `MaxDevices` is
six there, which no three of the lists exceed, so that the bound excludes nothing.
`ListedIsReachable` promises `transport` to a device that is online, and `host-serial` to one whose serial has no
colon; the others fail in the code (section 4). The run reaches them.
`NameNeverRetargeted` is about updates in which one backend's list differs: when two change in one update, which a copy
made under the lock may bring, a bare serial can pass from a device that left to another that came.
It is also about plain serials: one that already looks rewritten may take
the fallback name with an index, which depends on the place in the list, and then a
name can move.

### Fairness

Weak fairness of a task's steps: the tokio runtime runs every task that can go on.
Strong fairness of `Deliver` and `ReadClient`: `tokio::select!` polls its
branches in random order, so a branch that is ready again and again is taken.
Strong fairness of `AgentEnds` in `ServiceStartup` for the same reason: a stop or an end of file that is there each time
the agent is at its select is not passed over for ever. That the agent comes back there is not assumed but a
premise of `EverythingSettles`.
In `Tunnels` and `ServiceStartup` the remaining tasks share one weak fairness condition: some task
goes on as long as one can. That is enough, and is less than the runtime gives, because no
task goes round for ever in them, so that each one gets its turn.
`ReadStamp` and `Reload` are fair because clients ask again and again and every answer
refreshes the policy; `Round` because the poller sleeps and goes on and every query of a
backend has a time limit. The bounds on changes make every behaviour one in which the environment
comes to rest, which is when convergence can be asked for.
No fairness for what the code does not control: clients and backends, what they send and whether they
read, agents, and the agent's connection to a backend, which has no time limit. In `PrivateStream` the ends
of writes to peers have none, and the premise `PeersRead` says what is asked of the peers. Three modules
ask something of a peer in the fairness itself: in `ClassicHub` a connected client has sent its request and reads its
lists, in `TenantDaemon` a tracker reads its lists and the reader of a connection is not held up by a stream (what
`stream_disconnect` is about), and in `ProxyConnection` the hub reads what the proxy writes to it (`src/lib.rs:287`, part of
the step `Use`), without which the next packet would not be read.

## 4. Disagreements between documents and code

Two runs state what a document says and show a behaviour of the code that does not do
so. `PROJECT.json` quotes the lines.

| Run | Statement | What happens |
|---|---|---|
| `stream_disconnect` | a disconnect is noticed | the reader waits for room with `stream_tx` locked; the session that left waits for that lock with its receiver alive |
| `service_race` | races at the start are handled | both users find the port free; the agent of the one who gets it may have connected to the control socket of the other, is reset when the other gives up, ends, and its process stops the winning daemon |

More are behaviours of the models without a run of their own, which the properties that the runs check
name as exceptions or premises, or leave out as section 3 says.

* Ghost devices (`src/daemon.rs:449`). A snapshot still unread on a replaced connection puts devices back after
  the last agent was cleaned up, and nothing removes them. `docs/multi-user-design.md:99`: "If an agent
  disconnects, only that user's private devices are removed."
* Frames cut off (`src/agent.rs:420`). When the client leaves while the agent is writing a chunk to a full socket,
  `select!` drops `from_up` inside `write_message` (`src/ipc.rs:121`), and the `StreamClose` of
  `src/agent.rs:425` is written into the unfinished frame. The daemon takes the bytes that follow for the rest of it: frames are lost or read
  wrongly, for all streams of the agent, until an error ends the connection. What is read wrongly may look like a
  device snapshot too, and a real one may be swallowed, which the model leaves out.
* Peers that do not read. A client that stays connected and stops reading holds `forward_private` at `src/daemon.rs:782`; when its channel is
  full the reader waits with `stream_tx` locked (`src/daemon.rs:467`), every stream of the agent stands still, and the agent's end of file is not
  read. A backend does the same to the agent's main loop (`src/agent.rs:394`, `src/agent.rs:308`). The code sets no limit.
* The write half in an error path (`src/daemon.rs:726`). The guard lives until the end of the `if let`, so a failed `OpenPrivateStream` waits
  for `stream_tx` with the write half locked; the reader may hold `stream_tx` for a handler that is waiting to write.
* An agent that is busy (`src/agent.rs:194`). A message is handled inside the arm of the select. While that waits for a backend
  (`src/agent.rs:343`, `src/agent.rs:359`) or for room with `streams` locked (`src/agent.rs:307`), the agent
  sees neither the stop nor the end of its connection, and the main task waits for it (`src/service.rs:208`, `src/service.rs:225`).
* Idle sessions (`src/daemon.rs:779`). A session that is idle when its agent crashes is woken by nobody.
  `docs/multi-user-design.md:305`: "An agent crash removes only that user's private devices and sessions."
* Stale peers (`src/backend.rs:325`). Two tracking watchers publish in the other order than they
  copied. `src/backend.rs:151`: "Seed shared from a fresh poll so partial watcher publishes never wipe peers."
* Disabled nodes (`src/session.rs:382`). A waiting tracker is not told of the policy and shows the node until
  some device changes. `README.md:231`: "When a node is disabled, none of its devices appear in the aggregated list."
* Serial conflicts. `docs/multi-user-design.md:92` says that they are rewritten for every user
  view; `snapshot_for` appends the private list to the shared one, and a private device
  with the serial of a shared one cannot be selected (`RoutedPrivate`).
* Public serials (`src/registry.rs:152`). A device whose serial ends like the fallback of another one has the same
  public serial (section 3, `Unindexed`). The comment at `src/registry.rs:151`: "Extremely unlikely, but keep public serials unique."
* `host-serial` (`src/session.rs:201`) is split at its first colon, so `host-serial:office:ABC123:get-state` looks up
  `office`, and so does every serial of the form `host:port`. `README.md:116`: "the hub rewrites them to `name:serial`";
  `README.md:291` lists "`host-serial:*` forwarding".
* `host:kill`. The comment at `src/session.rs:34` says that it stops the hub; a kill handled between two turns
  of the select loop, or in a turn that accepts a connection, reaches no future (`Kill`, `NextTurn`, `SelectAccept`).
* Overlapping commands (`src/config.rs:236`). Two of them lose an update, rename a file the other has just
  truncated (an empty config), or leave text that does not parse. `src/config.rs:228`: "Write config
  atomically (temp file + rename)."
* The temporary file of a command has the mode of the umask from its creation to `set_permissions` (`src/config.rs:237-243`),
  and keeps it when the command is interrupted there. `src/config.rs:229`: "On Unix, the file mode is set to owner-only (0600) because it may
  contain pair codes." `OwnerOnlyKept` is about `config.toml`.
* A hub that finds no config file, or one that does not load, has no path to reload from (`src/config.rs:398`,
  `src/bin/adb-hub.rs:442`): what is disabled later has no effect on what the classic hub shows until it is started
  again. `src/config.rs:358` says only that the policy is reloaded.
* Unpairing the last backend of a config without the local one leaves a document that does not load;
  every later command fails on it, and the agent falls back to the config of its start, which still has the backend
  (`src/agent.rs:213`). The comment at `src/agent.rs:211` says "Prefer live file when present so pair/unpair takes effect".
* A poller that fails once ends (`src/agent.rs:168`), and the list is frozen while the agent stays registered.
* `adb-proxy` checks `host:transport:<serial>` only: `host:transport-any` and `host-serial:<serial>:...`
  are forwarded unchecked, a tracker is not filtered again when the policy changes, and a policy file that does not
  parse enables everything. `README.md:191`: "Disabled devices are omitted from `host:devices` /
  `track-devices` and cannot be transported. Changes apply without restarting the proxy."
* A policy file replaced between the load and the time stamp of the proxy's start (`src/proxy_config.rs:111`) is
  taken for the one that was loaded until the next change.
* Processes that start together: the loser's `Drop` stops the side ADB server that the winner has adopted
  (`src/local.rs:67`). A crash or SIGTERM leaves the server running; the next daemon adopts it and never stops it.
  A server that comes up after the time limit of `wait_until_ready` belongs to nobody.
* A stock ADB server on the port makes the service an agent, which finds no control socket and
  exits after five seconds. `README.md:94` says that the hub "frees `:5037` for itself"; `README.md:45` asks the
  user to stop the server first.
* An ADB server that takes longer than five seconds to start makes the agent give up, which stops its own daemon.
* The fallback socket file in `/tmp`, once left behind by another user, cannot be removed in a sticky directory,
  and the daemon fails to bind.

## 5. What is proved

The theorems hold for every value of the constants: any number of users, connections,
clients, streams, backends, requests and processes, every capacity and every bound.

| Module | Theorem | Property |
|---|---|---|
| `TenantDaemonProofs` | `TypeCorrect` | `TypeOK` |
| | `RegisteredIsServedAlways` | `RegisteredIsServed` |
| | `PublishedListKeptAlways` | `PublishedListKept` |
| | `OnlyDeadAgentUnregisteredAlways` | `OnlyDeadAgentUnregistered` (action property) |
| | `TrackerUpToDateAlways` | `TrackerUpToDate` |
| | `TenantIsolationAlways` | `TenantIsolation` |
| | `DisconnectRemovesDevicesAlways` | `DisconnectRemovesDevices` |
| `PrivateStreamProofs` | `TypeCorrect` | `TypeOK` |
| | `NothingLeftBehindAlways` | `NothingLeftBehind` |
| | `AnswerReachesWaiterAlways` | `AnswerReachesWaiter` (action property) |
| | `NothingTruncatedAlways` | `NothingTruncated` |
| | `DataInOrderAlways` | `DataInOrder` (action property) |
| `ClassicHubProofs` | `TypeCorrect` | `TypeOK` |
| | `TrackerUpToDateAlways` | `TrackerUpToDate` |
| `DeviceRoutingProofs` | `ListedIsReachableAlways` | `ListedIsReachable` |
| | `NameNeverRetargetedAlways` | `NameNeverRetargeted` (action property) |
| | `PickIsPreferredAlways` | `PickIsPreferred` |
| `TunnelsProofs` | `TypeCorrect` | `TypeOK` |
| | `NoOrphanListenerAlways` | `NoOrphanListener` |
| | `OrderPreservedAlways` | `OrderPreserved` |
| | `QueuedNotResetAlways` | `QueuedNotReset` |
| `ConfigFileProofs` | `SaveIsAtomic` | `AtomicSave` (refinement of `AtomicConfig`) |
| | `OwnerOnlyKeptAlways` | `OwnerOnlyKept` (action property) |
| | `ReloadTypeCorrect` | `ReloadTypeOK` |
| | `CachedIsCurrentAlways` | `CachedIsCurrent` |
| | `ReloadSavesAtomically` | `AtomicSave` and `OwnerOnlyKept` under `ReloadSpec` |
| | `AgentTypeCorrect` | `AgentTypeOK` of `AgentPoller` |
| | `OldProxySkippedAlways` | `OldProxySkipped` of `AgentPoller` |
| `ServiceStartupProofs` | `SharedServerUpAlways` | `SharedServerUp` |
| | `ControlReachableAlways` | `ControlReachable` |
| | `NobodyTurnedAwayAlways` | `NobodyTurnedAway` (action property) |
| `ProxyConnectionProofs` | `AnswersFollowPolicyAlways` | `AnswersFollowPolicy` |

`ServiceStartupProofs` and `ProxyConnectionProofs` prove a `TypeCorrect` as well, on which
the rest is built.

### Assumptions

Each is a named `ASSUME` of the module that declares the constants, and TLC evaluates it
in the run of that module. They say that the markers for "none" (`NoConn`, `NoReq`, `Nobody`,
`NoFile`, `NoStamp`, `Free`, ...) are none of the values they stand beside, that capacities are positive
and bounds are natural numbers, that the user of a connection and of a client is fixed, and that
constants given as sets are of what they are sets of. `NumeralAssumption` of `DeviceRouting` says that two numbers are not
written alike, `BodyAssumption` that a line of a list has a serial (`parse_device_line` skips the others). One is about the configuration:
`OrderAssumption` of `ClassicHub` has at least one backend and no name twice, that of `DeviceRouting` no name twice, because `run_hub`
refuses to start without a backend (`src/hub.rs:79`) and `pair` replaces a backend of the same name (`src/config.rs:252`); a file
edited by hand to have a name twice is left out.

### The arguments

None of the properties is inductive alone.

`TenantDaemon`

* `TableInv` strengthens `RegisteredIsServed` and `PublishedListKept`. A published
  list could be removed by the clean-up of an older connection of the user. That
  cannot happen because a connection that is cleaning up holds the write lock
  (`CleanupHoldsLock`: it is `writer`, and its user has no registered agent), so
  nobody registers meanwhile; and a connection that is not yet reading has published
  nothing (`NothingPublishedYet`), so that registering it creates no obligation.
* `CleanupAfterEof`: a task that is at its clean-up has read all and its agent is
  down. With it, the only step that empties an entry is the clean-up of the registered
  connection itself, which is the action property.
* `TrackInv` follows a list from the registry to the client: what a tracker has
  read of the shared list and of the private one is current, or a notification is unread,
  or the task that changed it is about to send one (`SharedCurrent`, `PrivateCurrent`), and
  what was shown is what was read (`ShownIsSeen`).
* `IsolationInv`: messages on a wire and lists in the registry contain only
  the user's own serials (`WireIsOwn`, `ListsAreOwn`), which carries
  `TenantIsolation` through every snapshot.
* `CauseInv`: a connection that still reads while its user has no registered agent was replaced
  by one whose clean-up has begun (`ReaderWasReplaced`), so a list without an agent is about
  to be removed, or a reader has put it back since the last removal and is in `late` (`ListHasCause`).

`PrivateStream`

* `TypeInv` bounds the numbers of the chunks and separates the messages of the two directions.
* `SafeInv` is `lost`, or `CtrlInv` and `DataInv`: until a cut frame is read, the two hold; a cut frame that is still in
  the socket carries no data and disturbs neither. `WaitInv` is what holds even afterwards, whatever the reader takes the bytes for.
* `CtrlInv` is what the maps, the two queues and the positions of the tasks say of each other,
  stream by stream. Before `forward_private` has written its request nobody knows the stream (`NotBegun`);
  before the agent has granted it nothing has moved on it (`NotOpened`); a request is in the socket, in the
  main loop's hands or granted, and only one of these (`OpenedOnce`); `StreamClose` is the last
  message of a stream in its direction (`ClosedLast`); a waiter has no answer yet, and whoever holds one of the two
  locks holds it for a stream that is in the map (`MapsInv`). `NothingLeftBehind` and `AnswerReachesWaiter` follow from `WaitInv`.
* `DataInv` follows the chunks of one direction from end to end (`UpInv`, `DownInv`): what the client has got,
  then the channel without gaps, then the chunk in the reader's hand, then the data of this stream among the
  messages in the socket (`InFlight`), up to what was read at the other end. Once the sender is gone from the map,
  the channel holds all there is, because `StreamClose` came after the data: that is why the drained channel
  means a complete transfer. An end that has closed is no longer followed, since writes to it succeed or fail
  without telling. `EndInv` records what each end had done when it ended the session.
  `InFlight` speaks of one stream in a queue of many, which is what the queue lemmas at the start of
  the module are about; so the theorems cover streams that share the socket, which the runs do not.

`ClassicHub`

* `RoundInv`: the seeding task has a backend to look at in each of its rounds, and no watcher runs before it is done.
* `TrackInv` extends `TrackerUpToDate` to a tracker that is writing what it has read: it has the
  registry, an unread notification, or one that some task is about to send.

`DeviceRouting`

* The operators are recursive functions over sequences. What they compute is derived first: `InductionTo` is induction up to a number, from the
  least element of a set of counterexamples; `RecursionTo` shows that a recursion over an interval has a
  solution; `SelectPlaces` says that `Select` keeps exactly the positions whose elements are in the set, in their order,
  `FlattenFacts` that the parsed lines are those of all the lists, `NamesFacts` that each device has the name the rule gives it after
  the ones before it.
* `MergedInv`, the registry is the merge of the lists it was given last, is then all the invariant that is needed (a lemma: it
  holds by `Update`'s assignment, and says nothing of how lists get there).
  Two equal public serials would make the later one the fallback, whose last part is an index; the last part of the
  other one is that of a listed serial, which `Unindexed` excludes, or another index (`PublicsUnique`). A lookup
  in the filtered list therefore has one hit.
* Among plain serials the length of a public serial tells how it was made (`PlainPublic`). A rewritten one carries its backend.
  A bare one is in no conflict, before and after; as the property is about updates in which one list differs, one of the two devices is in both lists, and
  two backends would be a conflict (`TargetKept`).
* `pick_preferred` walks the backends in the order of `Preferred` (`WalkFacts`), which is asymmetric because no name is
  twice in the order; so the first with a device online is the one no other is preferred to (`PickCases`, `BestIsChosen`).

`Tunnels`

* `MapInv`: a listener in the map is bound to the port it is found under, and a request that has not been
  answered has bound none; so replacing and removing find the right one.
* `QueueInv` and `OrderInv`: a connection is in one place of one queue; behind one that is still being opened all
  others wait. That each task waits only for the one before it is enough because of this.
* `LateInv`: what is left in the queue of a listener that is going to stop, and that the driver has not
  marked, came late.

`ConfigFile` and `PolicyReload`

* `SaveInv`: until two commands overlap, at most one runs, and what it has in hand is a result of the document that is still in
  the file: first in memory, then in the temporary file, which is its own and is restricted before the rename. The steps up to the
  rename map to stutters of `AtomicConfig`, the rename to its commit, every failure to its failure.
* `StampInv`: no stamp is from the future, and a temporary file that would load has a stamp that neither the file nor
  the cache nor the reader has; so a rename always brings a stamp the cache does not know.

`AgentPoller`

* `GateInv`: every name in the cache passed the gate at the one address its fingerprint has for it, and between the gate and the
  route table the cache is that of the round.

`ServiceStartup`

* `SocketInv` (the port's owner and the listeners), `QuietInv` (without overlapping starts one process at a time is
  daemon, about to be or about to stop being it, and it has the side server and the control socket) and `CalmInv` (undisturbed,
  nobody is on the way out, and somebody is daemon or about to be). `NobodyTurnedAway` is an action
  property and follows from all three.

`ProxyConnection`

* `CacheInv`: a cache with the file's stamp has the file's table, and whoever holds its lock is about to use it.
  `ConnInv`: the histories of a request that is being served contain the policy in force, and what was decided stays
  within them.

Each of these invariants was checked by TLC on the instance of its run before it was proved.

### What is only model-checked

* All liveness: `TrackerConverges`, `SessionTornDown`, `DisconnectNoticedUnlessStuck`, `PollingConverges`,
  `DisabledNodeLeftOut`, `EveryRequestAnswered`, `PolicyFollowsFile`, `AgentFollowsConfig`, `EverythingSettles`,
  `TrackerFollowsHost`, and the two properties of section 4. Liveness under fairness is outside the
  prover's reach.

Every other property of a passing run is a theorem.

## 6. What is not modelled

* Framing (`protocol.rs`), comparing versions, TOML, argument parsing and the listing commands: sequential
  conversions with unit tests. The models exchange whole messages and documents.
* `SO_PEERCRED`, `/proc` and `inet_diag` (`peercred.rs`): the kernel's answers are constants.
* Pair codes as text: authentication succeeds or fails; in the config a code goes with its address.
* The legacy config locations and the options `--backend`, `--config` and `--no-local` of the hub: other ways to the
  same config in memory.
* The wrap of `next_stream_id` (`src/daemon.rs:720`) after 2^32 streams: beyond any bound.
* Head-of-line blocking between two streams of one agent: the module allows it and the theorems of
  `PrivateStreamProofs` cover it; the runs, and with them the liveness properties, use one stream.
* A device snapshot among what the daemon makes of a cut frame: `PrivateStream` has no lists, and `TenantDaemon` takes the messages of
  an agent to be whole.
* A device in `AgentPoller` and `ClassicHub` is not told apart from its backend where only the backend's
  flag matters; device policies are `DeviceRouting` and `HubConfig`.

## 7. Plan

Order so far: the daemon first, because users' isolation rests on it; then the streams it carries;
the classic hub, routing and tunnels; the config file with its refinement; the agent's polling; the service's
start; the proxy; then the proofs of every safety property of the runs. What is left:

1. `ClassicHub` and `TenantDaemon`: an abstract "tracked list" that both implement, so that the two
   proofs of `TrackerUpToDate` share their argument.
