# mowang: a verification development

mowang is a C++ server framework with a small strategy game on top. This
directory holds TLA+ models of the parts that carry its logic, TLC
configurations that check them on small instances, and TLAPS proofs of the
properties that matter most. The models follow the code under `src/`, function
by function; `PROJECT.json` gives for every definition the lines it stands for.

## 1. The system

A deployment is a set of processes (`exe/config/game.ini` wants two
db_managers, three games and three gates):

| process | state | operations | talks to |
|---|---|---|---|
| gate (`gate/`) | `m_client_2_process` (which game serves a client), delayed kicks | route a websocket client's `login`, `create_role`, economy commands; tell the game of a disconnection; re-route after a relay | clients (websocket), games (TCP) |
| game (`game/`) | account and role entities, `m_client_2_entity`, database callbacks, on game 1 the `roll_stub` maps | login, registration, relay, disconnection, economy | gates, games, db_managers, http_client |
| db_manager (`db_manager/`) | per-table queues, MySQL connections | query, insert, update, delete | games |
| http_client (`http_client/`) | pending etcd requests | register, refresh, list, watch | etcd, every process |
| robot (`robot/`) | test clients | log in and play | gates |

All of them stand on `share/src`: one **net thread** (libevent, sockets,
framing) and one **logic thread** (timers, handlers), with one mutex in the
socket manager between them; **remote calls** by name to a process
(`rpc_stub`), to an entity (`rpc_entity`) or to a singleton found by its
mailbox (`call_stub`); **discovery** through etcd (`etcd_listener`,
`etcd_manager`, `mailbox_manager`); a **timer wheel**; memory pools. Vendored
code (boost, libevent, openssl, websocketpp, the MySQL client, tinyxpath),
`http_server` (a boost example) and `game_manager` (superseded by etcd, not in
the build) are left aside.

### What is hard in it

* **Login races.** Several devices of one user log in at once through
  different gates and games. The only arbiter is `roll_stub` on game 1, and
  its answers, the accounts' and roles' calls to each other, the database
  answers and the disconnections overlap in any order. A hand-over ("relay")
  takes five messages between up to four actors.
* **Objects that go away.** An account is destroyed by a disconnection or a
  relay while answers for it, bound to its `this`, are on their way.
  Nothing cancels them; only a delay protects the memory.
* **Two threads.** Sockets and packets are passed back and forth in vectors;
  kicks and closes race with packets.
* **Buffers that grow, wrap and move.** Bytes pass through two rings and a
  packet buffer, whose indexes wrap at different places; lengths are cached,
  pointers outlive a move, sockets take what they like.
* **Connections found by three maps.** A process knows a client by socket, by
  process and by address; two games may dial each other at once, and a game
  calls itself over a connection of its own.
* **Partial failure.** A database error is reported as an empty result;
  a request whose connection has gone is dropped without an answer.
* **Stale keys.** Routes, client maps and proxies outlive what they name.

`PROJECT.json` lists each of these under `hazards`, at its line, with the
properties that cover it.

### What makes each part correct

| part | correct when |
|---|---|
| login, relay, `roll_stub` | a user is never served by two roles; one newcomer at a time is promised a role; the old device is told before it is replaced; a relay ends and a login is answered |
| gate | what a client says goes to the game that holds its role |
| entity manager | a callback finds its own object; memory is released once, not too early and not too late |
| the two threads | each socket and packet is in one place and freed once; `handle_init`, packets, `handle_close` in this order; kicks and closes are not lost |
| streams and framing | packets arrive whole, once and in order while the connection stands; what is unsent gets sent |
| remote calls | a map never names a deleted client; what is said over a sound link is heard once, in order |
| db_manager | the requests of a table from one game run in order; every request of a sound connection is answered |
| discovery | one stub per server; dead processes disappear; watches go on |
| timer wheel | a timer runs once, when it is due |
| economy | resources are never negative; what a building makes is counted once, at the speed of the level it had |

## 2. Modules

| module | models | by |
|---|---|---|
| `Login` | account, role, `roll_stub`, the client maps of gate and game, the two tables | one action per handler |
| `LoginProofs` | theorems about `Login` | |
| `EntityManager` | the life of an account's memory, on an explicit clock | one action per part of `do_loop`, per callback and packet |
| `EntityManagerProofs` | theorems about `EntityManager` | |
| `NetThreads` | the net thread and the logic thread of one process | one action per critical section or step between two |
| `NetThreadsProofs` | theorems about `NetThreads` | |
| `SocketStreams` | the rings of `socket_input_stream` and `socket_output_stream` | operators |
| `PacketBuffer` | the packet buffer of a `packet_handler` | operators |
| `PacketChannel` | what a connection promises: packets whole, once, in order | one action per packet written, arrived, and the fall of the connection |
| `TcpConnection` | one direction of a connection, from `send_packet` to `m_read_packets` | one action per socket event, per read and per packet unpacked |
| `TcpConnectionProofs` | theorems about `TcpConnection` | |
| `RpcWrapper` | `rpc_wrapper` and `rpc_client` of every process, calls between games, the executors of the db_managers | one action per call, handler, packet and `update` |
| `RpcWrapperProofs` | theorems about `RpcWrapper` | |
| `TimerWheel` | the timer wheel of one process | one action per node of a slot, per second, per `update` |
| `TimerWheelProofs` | theorems about `TimerWheel` | |
| `Discovery` | registration in etcd, listing and watches, mailboxes, the start of the stub | one action per handler, per request and answer |
| `DiscoveryProofs` | theorems about `Discovery` | |
| `RoleTables` | the tables of the economy, and what `role.cpp` reads from them | operators |
| `RoleProduction` | what the economy promises: buildings that work second by second | one action per thing that happens |
| `RoleEconomy` | resources and buildings of one role | one action per command of a client |
| `RoleEconomyProofs` | theorems about `RoleEconomy`, and that it implements `RoleProduction` | |
| `MC...` | instances for TLC | |

### Login

State: `route` is the gate's `m_client_2_process`; `c2e` is each game's
`m_client_2_entity`; `account` and `role` are the entities by name (the n-th
made for a client); `acct2mb` and `role2mb` are the two maps of `roll_stub`;
`accrow` and `rolerow` are the tables. Messages: `up` (gate to game), `down`
(`update_client_process_info`), `wire[g, h]` (entity and stub calls between
games, FIFO because they share one TCP connection per ordered pair), `db`
(requests, a set: they go to random db_managers and come back in any order).
`told` collects what a websocket client was sent.

The logic thread of a process runs one handler to its end, so a handler is an
action with all its calls. `Init` includes tables with rows from earlier
runs. `m_account_id` and `m_role_id` have no initialiser: `CreateAccountEntity`
gives them any ids. `create_account` writes the constant ids 1; `NewId` is that
constant. `role::logout` has its body in a comment, so the timers that only
call it do nothing and roles are never destroyed.

Gates are one actor: they share nothing that the games see. A client's
messages after login are `create_role` and the disconnection; the economy
commands do not touch this state.

### EntityManager

`clock` is the system time, `now` the reading of the last turn: `update` runs
before the turn's reading, so a sweep can act on a time one turn old. An
account's slot is taken from the pool's free list, flagged by `destroy()`, put
on `m_delay_destroy_ids`, moved to `m_destroy_ids` by the next sweep, released
by the one after. A callback carries the slot it captured, and runs on
whatever is there. Handlers are modelled by what they can do to this state
(call again, destroy, neither): `Login` has their logic.

`AnswersAreTimely` (`Latency + Frame < Period`) states what the ten seconds in
`entity_manager::update` are for: an answer is not under way for longer than
the period less one turn. It is an assumption on the environment, and with it
the code is right; without it a callback meets freed memory.

### NetThreads

Vectors are bags counted per socket. Nothing the code does depends on the
order between sockets, and within one socket the vectors are only appended to
and taken whole. The net thread passes through the stages of
`tcp_manager::update` and `socket_manager::update`; the logic thread alternates
between `swap_net_2_logic` and `swap_login_2_net` with the handlers in between.
`Say` and `KickSocket` may happen at any point of the logic thread's turn.
`handler` is the state of the packet handler of a socket; the counters
`unpacked`, `handled`, `released`, `said`, `returned`, `freed` are history.

A connection comes from the listener or from `start_connect`, which the logic
thread runs and which puts the socket into `m_sockets` itself, without the
mutex: a data race with the net thread's loops over that vector. `StartConnect`
has the outcomes in which the vector survives it.

### TcpConnection

The layers are modules of their own: `SocketStreams` has what the two streams
do to a ring (write and resize, flush, fill, read), `PacketBuffer` what
`socket_handler` does to the packet buffer, `TcpConnection` the control of
`tcp_manager` and `socket` over them. A byte carries its packet, its place in it
and the length of its packet, so anything lost, doubled or displaced shows in
`delivered`; the kernels are `wire`, a bounded pipe that takes and gives any
part of what it is asked. `KeepsItsPromise` says that all of this implements
`PacketChannel`.

Three behaviours are modelled as they are. A flush that would block returns
without renewing `m_output_len`, so that the cached length says more than is
left, never nothing (`UnsentIsScheduled`). A turn of the net thread fills in all
that has arrived and unpacks at most 30000 bytes of it: a sender that keeps
this up fills the input to its limit and is disconnected. And whatever ends a
connection, an end of file too, drops what was read and not unpacked, while
`del_socket` flushes what is unsent once. So the promise is about connections
that stand.

`packet_handler::buffer` would overwrite unread bytes if it ever wrapped. It
does not, because of the sizes in `base_util.h`: `BufferAssumption` states what
they give, and `BufferNeverWraps` what follows.

### RpcWrapper

A connection has two ends; an end stands for the socket, the handler and the
socket index. `queue` is what the logic thread of an end will find there: of the
threads below the model keeps what `NetThreads` shows (`handle_init`, packets,
`handle_close`, in this order) and of the bytes what `TcpConnection` shows (a
prefix arrives). `client` are the `rpc_client`s, named by the end or the address
they were made for, `bySocket`, `byProcess` and `byAddress` the three maps.
A *link* is what one process says to another about one thing: the entity calls,
or the requests for one table. `said`, `heard` and `answered` are history, and
`cut` is how much had been said when the link first failed.

Modelled as they are: a game calls its own entities over a connection to itself
and owns both ends; a refused connection leaves a client that waits for ever;
`register_handler_info` follows a null pointer when the socket has gone already
(`NullSocket`, after which the process is down); the second connection to a
db_manager whose key was lost and came back may overtake the first; `executor`
drops the requests of connections that have gone. `update` runs every queue of a
db_manager to its end; the threads of the MySQL connections are not modelled.

`HeardInOrder` is what `Login` takes for granted with its FIFO `wire`, and
`EverySayingIsHeard` what its fairness asks of it.

### TimerWheel

The four layers of slots (`Slot`, a layer and an index), each slot a list
threaded through the nodes (`wheel` holds the head of each slot and each node's
`pre` and `next`, so that what `del_timer_core` writes into a neighbour is
written in the model too). `Moves` is the loop that takes a slot's nodes to the
layer below, turn by turn. `Update` takes the seconds since the last call, for each
of them `ProcSecondNodes` advances the indexes and moves the nodes of the upper layers
down, and `ProcNode` runs one callback, which re-adds a repeating node or
frees it: callbacks run while the slot is being walked and add timers to it.
The only repeating timer of the code is `etcd_manager`'s refresh; a process
without etcd (the robot) has one-shot timers of any length. The system clock
is assumed not to go back. `del_timer` finds nothing, as `m_timer_id_2_node`
is never filled.

`add_timer_core` adds the indexes layer by layer and drops the carries, so
timers of a minute or more may run early: `EarlyByCarriesOnly` says by how much
at most (a minute, an hour, a day, or their sums) and when not at all,
`NeverLate` that none runs late.
A repeating timer beside one-shot timers *longer than its period*, other than
the one `etcd_manager::init` adds with it, would break `ListsAreSound` (a moved
node is still named by its old neighbour), and timers would be lost; no process
of the repository adds such timers, which is what `ServerAssumption` says. The
delays are those in `etcd_listener.cpp:33`, `etcd_manager.cpp:19` and `:22`, and
`game/src/role.cpp:116`.

### Discovery

`store` and `history` are etcd: the value under each process's key, and the
events a watch can ask for by index. `puts` are the registrations under way,
in the order they were made. `chain` and `answer` follow one listing or watch
of a process from the request through the http_client back to the handler,
which applies it and asks for the next; a failed request ends the chain, as
nobody tells the process. `mailbox` is the entry for `roll_stub`; a value names
the start of game 1 and the stub of that start it stands for. Game 1 counts the
db_managers that register over the connections it opens (`dialled`, `dbNum`)
and starts the stub. A start, a crash and a restart of any process, the loss
of a key and of a connection may happen between any two steps.

### RoleEconomy

One role of `role.cpp`: `resources` and `buildings` are those of `m_role_data`,
`now` is the system time, `down` the building whose command followed a null
pointer. Roles share nothing here, so one is enough. The commands are one
action each, with the checks and everything `on_..._success` does.

Nothing runs each second. A building keeps the time it was last accounted for
(`start`), and `on_building_changed` adds what it made since, at the speed of
its present level. `RoleProduction` is what that is meant to come to: every
second every building makes its product at the speed of its level, a
collection brings home all of it, once per interval. `LazyIsEager` says that
`RoleEconomy` implements it, where `Site` reads what a building holds off its
stock and its start.

A role starts in one of two ways. Made by `create_role`, it has the resources
of the common table and no buildings. Loaded from its row, it has the buildings
that `create_role` wrote, of level 0 and never started, and no resources: the
insert leaves that column out and `role::save` has no caller. The round trip of
the buildings through `binary_string.h` is taken to return what was written.

`check_income_resource` does not look whether the table has a row for the level,
so `IncomeWithoutRow` takes the process down. `OnlyGapsTakeItDown` says for
which buildings: those of a loaded role, and those of a type with a price in
the last row. The table files are not in the repository. `TablesAssumption`
asks of them that a type makes one resource at all levels (`read_row` takes it
from the first entry of the *cost*; if that differed between levels, an upgrade
would relabel the stock), and a cost is a function, so it names no type twice
(the code would check its parts one by one and could go below zero). Amounts
are taken to fit in `TResourceNum_t`.

## 3. Runs

Every cfg has `CHECK_DEADLOCK FALSE`: the inputs are bounded, so each instance
stops when they are used up.

| run | instance | question |
|---|---|---|
| `login` | 2 games, 2 clients of one user, one login and one create_role each | all safety properties, and with fairness `RelayEnds` and `LoginAnswered` |
| `login_faults` | 2 ids, two logins of one or two devices, failed and lost requests, a connection index equal to a client id | the inductive invariant, which implies `OnlyRegisteredRoleIsActive` and `RelayNeverKicksRole`, under faults and when a device logs in again |
| `login_route` | as `login` | finding: `GateReachesRole` is violated |
| `entity` | 2 slots, 2 accounts, 3 calls, period 3, frame 1, latency 1 | memory is released once, in time, and never under a callback |
| `entity_packet` | the same | finding: `PacketsFindTheirAccount` is violated |
| `timer` | 3 nodes; minutes of 3 seconds, hours of 3 minutes, days of 2 hours, 2 days; stalls of up to 2 seconds, 23 seconds in all | the lists stay sound and every timer runs once, never late, early only by dropped carries |
| `discovery` | game 1, one db_manager, 2 faults | every change is told once, the mailbox is etcd's, the stub is found |
| `discovery_stub` | the same | finding: `OneStub` is violated |
| `net` | 1 socket, accepted or dialled, 2 reads, 2 writes, 2 kicks | nothing is lost, freed twice or out of order; with fairness kicks take effect and closed sockets are released |
| `stream` | 3 packets of 2 or 3 bytes; rings of 4 bytes that may grow to 8 and 9; a packet buffer of 10, reads of 2, moved from 5 | packets pass whole, once, in order; none is stuck; nothing is overrun |
| `rpc` | two games, or a game and a db_manager; 2 connections, 2 calls or requests | no stale client in a map; calls and requests are heard once, in order, and answered |
| `economy` | 2 places, 3 types, 3 resources, 6 seconds, a new and a loaded role | no debts, no lost or doubled production, a process goes down only by gaps in the tables |

**Bounds.** Two games are enough for every difference between a call inside a
game and one between games. A relay has a holder and a newcomer (2 clients).
One create_role per client makes two role entities of one id compete. In
`login_faults` the constraint `TwoLogins` lets the two logins be of one device,
on a connection that has an account or a role already. Two slots let a released slot be reused while
another is in use; period 3 against frame 1 and latency 1 is the smallest
instance of `AnswersAreTimely` in which sweeps and callbacks interleave, and
14 seconds are three sweeps. In `net` two kicks of one socket are the double
kick; that a kick, close or packet of one socket never counts for another is
left to the proofs, which are for any number of sockets. In `stream` three
packets wrap both rings and the packet buffer's indexes pass its move forward
size; the output reaches its limit with all three unsent, and the input when
the receiver does not unpack. In `rpc` two connections are two games that dial
each other at once, one that breaks and its successor, or a game's own and
another; two calls are the least that can be overtaken, and the second may be
made before, while or after the first waits for its connection.
The wheel is scaled down so that 23 seconds cross every boundary, second to
day, and the day layer itself; its delays include one below, at and above each
boundary. In `discovery` two faults are a crash and a failed request, or two
crashes, of either process; each process may be started again after each.
In `economy` "farm" can be upgraded past the table, "mill" runs out before it and
stops producing, and nobody starts with what "mine" makes; 6 seconds see builds,
upgrades and collections at unequal times, with turns of one and of two seconds.

**Fairness.** The processes' loops run for ever (`service::loop_run`), so each
connection with a packet is served, each request is executed and each callback
runs: weak fairness per connection and on the database. Clients, disconnections
and the connection's failures owe nothing. In `TcpConnection` both net threads
are weakly fair, event by event, as `event_base_loop` serves every event that is
due; in `RpcWrapper` every end with something to serve and every db_manager's
`update`, and nothing is asked of callers and connections. In `NetThreads` both threads are
weakly fair and neither peers nor handlers are. In `Discovery` the loops of the
processes and of the http_client are weakly fair; nothing is asked of starts,
crashes, lost keys, connections and failures.

## 4. Findings

1. **`GateReachesRole`** `update_client_process_info` uses the socket index of
   the game's connection as a client id, so after a relay the gate keeps
   sending the client to the game of its destroyed account. Websocket and TCP
   indexes of a gate are drawn from the same range, so the same call can
   re-route a stranger; `login_faults` has such an index.
2. **`PacketsFindTheirAccount`** `rpc_entity::m_proxys` and `m_client_2_entity`
   keep released accounts, so a packet of their client runs on freed or reused
   memory.
3. **`OneStub`** `on_game_start` runs for every registration of a db_manager
   once the desired number is reached, and the count never goes down: a
   db_manager that restarts makes game 1 create a second `roll_stub` with empty
   tables, which takes over the name of the first.

`doc/login.txt` registers the role before it loads it and the code does the
reverse; the model follows the code, and no property depends on the order.

## 5. Theorems

For every value of the constants that satisfies the named assumptions:

* `LoginProofs!TypeCorrect`: the types of `Login`.
* `LoginProofs!CallsKeepTheirPromise` proves `IInv`, and from it
  `ActiveRoleIsRegistered`, `EntryIsRegistered`, `RelayKicksNoRole`,
  `CallsAreReceived`. The properties are not inductive: that a role in NORMAL
  is registered depends on what the call that made it so carried. `IInv` says
  what each call under way may rely on (`CallOK`): a relay is directed at an
  account that exists or at a role that is registered, an accepted
  registration names the registered role. Registration is never undone
  (`unregister_role` has no caller), which is why a promise, once true, stays
  so. The proof has one lemma per action and needs no assumption on the
  database.
* `LoginProofs!RelayIsPromisedOnce` proves `OneRelayAtATime`. The right to
  take over a role is a thing that is in one place: in one entry of `acct2mb`,
  or in one call under way. `OneFor` says so of any map and queues, and lemmas
  say what sending, receiving and entering do to it (`PlacesOf` are the places
  in the queues); each handler is then a few of these steps. It rests on `IInv`:
  a role that somebody has a right to is registered, so an accepted
  registration gives its role the first right.
* `LoginProofs!ReplacedClientWasKicked` proves `KickedBeforeReplaced`. `KickInv`
  says that the client of a role in a hand-over has been sent "kick" as soon as
  the hand-over is under way (`KicksAreSent`); that the call which replaces the
  client is the only one rests on `OneRelayAtATime`. The same invariant gives
  `UnkickedDevicePlays`: a client told "success" and not "kick" plays a registered
  role.
* `LoginProofs!OneDeviceOfAUser` proves `OneDeviceUnkicked` of every behaviour in
  which the roles of a user have one id (`OneRoleIdPerUser`): the roles of two
  such devices would be registered for the same id. The hypothesis is needed: a
  SELECT that fails is taken for a user without a row, who gets a second role id;
  with failures and two ids TLC finds the user's two devices playing.
  `OneDeviceIsUnkicked` has no such hypothesis, for `create_account` gives every
  account the id 1 and tables that hold no other.
* `EntityManagerProofs`: `ManagerKeepsTime` proves the inductive invariant
  (clock readings are ordered, an entity on a list was destroyed at a time
  that bounds when it leaves the list, a call under way is bound to its
  entity), and from it `CallbacksAreSafe`, `SlotsAreSafe`, `DestroyedAreFreed`,
  `NobodyIsFreedEarly`. `CallbacksAreSafe` is where `AnswersAreTimely` is used.
* `RoleEconomyProofs`: `EconomyIsSound` proves the inductive invariant and from
  it `EconomyTypes`, `NoDebtEver` and `OnlyGaps`. Why a row is missing can only
  be told from the type and the level of a building, so the invariant keeps every
  building `Grounded` before any of them is asked for. `EagerRefinement` proves
  the refinement: time adds to `Site` what it adds to the production
  (`HeldGrows`), and a command accounts first (`HeldNow`), so the new level,
  stock or place changes nothing that was already made. It rests on
  `TablesAssumption` and `RoleAssumption` and needs no bound on time.
* `NetThreadsProofs`: `Invariance` proves the inductive invariant of the two
  threads for any sockets, and from it `TypeCorrect`, `SocketsHaveOnePlace`,
  `PacketsHaveOnePlace`, `PacketsMeetHandlers` and `CloseIsLast`. The invariant
  adds to the properties which vectors are empty at which stage (`Stages`), that
  what is handled goes back (`HandledGoBack`), that a close is only taken when
  the packets before it have been (`NothingIsLeftBehind`), and that a start is
  under way before anything else is (`StartedFirst`).
* `TcpConnectionProofs`: `ConnectionIsSound` proves the invariant of a
  connection for any packets, sizes and pieces, and from it `TypeCorrect`,
  `BufferHasRoom`, `UnsentIsSent` and `DropsAreEarned`. The buffer has room
  because less than a packet is left in it between two turns and the read index
  is at most at the move forward size; `BufferAssumption` is what `base_util.h`
  says of the sizes.
* `TcpConnectionProofs!BytesStayInOrder` follows every byte from `send_packet`
  through both rings, the kernel and the packet buffer: what is read next is what
  was written next, wherever the rings wrap and whatever is moved forward. With it
  `ConnectionIsAChannel` proves that the connection implements `PacketChannel`:
  packets arrive whole, once and in order.
* `DiscoveryProofs`: `ViewsFollowEtcd` proves the inductive invariant and from it
  `MailboxFollowsEtcd` (`MailboxIsCurrent`). A process knows of game 1 what etcd
  had at the index it has seen (`ViewsAgree`), and an answer under way is either
  all there was at its index or the event after the index seen
  (`AnswersAreSound`); a mailbox that is older than a restart of game 1 is told
  apart by the start it belongs to (`StoredInOrder`). `StartsAreCountedOnce`
  proves `CountsStartsOfDbs`: for each db_manager, the starts counted, the
  connections under way and the starts game 1 can still be told of are together
  no more than its starts (`DbsAreCounted`). `TypeCorrect` gives the types. They
  need `DiscoveryAssumption`, with a finite set of db_managers, and
  `NullAssumption`, that no value is the empty one.
* `RpcWrapperProofs`: `MapsAreSound` proves the invariant of clients and maps for
  any processes and bounds, and from it `NoPointerDangles`. A client made for an
  end has that end for its handler; one made for an address is its entry for as
  long as it lives (`NamesFit`); a game that dials a game waits for it and does
  not dial it again (`DialersWait`). So `handle_init` takes over a client no
  other socket knows, and `unregister_handler_info`, which erases the first
  match, erases the only one.
* `RpcWrapperProofs!TypeCorrect` gives the types (`TInv`); that no number exceeds
  the bound needs that a sum of counters bounds each of them (`SumBounds`).
* `RpcWrapperProofs!CallsKeepTheirOrder` proves `HeardInOrder`. Whatever is on the
  way of a link is an item with a place and a position there: in the queue of an
  end, in an executor (ahead of the queue its request came over), or in the cache
  of a client that waits. `OInv` says that the items of a link that were said
  before anything broke are in one place, in order, and without gaps after what
  was heard (`InOrder`, `Tracked`), and that the calls of a link that was never
  cut are where the map of addresses says (`Together`). Each action then moves
  items without overtaking (`Moved`), adds one behind the others (`SaidMore`), or
  takes the first. It rests on `SInv`: a connection that broke has cut its links,
  an end that is closed was read, only a client that waits keeps calls
  (`CachesWait`), and the requests of a game to a db_manager have one connection
  until they are cut.
* `EntityManagerProofs!TypeCorrect` and `RoleEconomyProofs!EconomyTypes` are the
  type invariants of their modules.

* `TimerWheelProofs`: `Invariance` proves the inductive invariant of the wheel,
  and from it `ListsStaySound`, `ArmedTimersRun`, `NoTimerIsLate` and
  `CarriesOnlyAreLost`, all that the run checks of it. The sizes of the layers,
  the number of timers, the delays, the stalls and the time are any.
  - A node's slots stand for one second, the first from now on at which the
    index of its layer and of each below is the slot the node keeps (`RunsAt`,
    `Near`). `TimerPlaced` says that where `add_timer_core` puts it, that second
    is the one it is due in but for the carries that were dropped (`Lost`), and
    comes before the layer has gone round.
  - The lists are sound (`Lists`): every node that waits has a slot and a rank,
    the number of nodes behind it, and the links agree with both. What
    `ListsAreSound` says of the walk along a slot follows, as no list is longer
    than there are nodes (`ListsAreShort`). `NodeAdded`, `FirstTaken` and
    `NodeDeleted` say what the operations do to it, and `MovedDown` what the loop
    of a cascade does.
  - When a second passes, the layers that wrap hand down, the highest first,
    after which each layer holds only nodes of later turns (`CascadeHands`), but
    for the slot whose turn it is: there they run now (`RunsNow`).
  - While `proc_node` walks a slot, its list starts at the node whose turn it
    is, not at the head (`Heads`). The refresh is then already in another slot,
    and `del_timer_core` of a node that followed it writes into its `next`
    (`Again`). It is last in its slot, where the last node of the walk leaves
    NULL; it is last because no more than one other timer is longer than it, so
    at most one node waits where it goes. `Servers` carries that use of the
    timers, and `ServerAssumption` is what the code registers.

The library's induction theorems take an operator, which no installed prover
instantiates. The proofs get their inductions from statements about sets
instead: a set of numbers that is not empty has a least element (`LeastNat`), and
what passes to each set from its proper subsets holds of every subset of a finite
set (`EverySubset`). That a recursive function over
`0..n` has the values its definition gives is proved in the same way
(`TableExists`). Each proof module that needs these lemmas states them itself.

Every invariant and action property of the passing runs is proved. Only
model-checked: liveness, and ENABLED with it (`RelayEnds`, `LoginAnswered`,
`ClosedIsReleased`, `EverySayingIsHeard`, `StubIsFound`, and the liveness half of
`KeepsItsPromise`, whose safety half is `ConnectionIsAChannel`).

## 6. Not modelled, and the plan

| next | module | about |
|---|---|---|
| 1 | `GateKicks` | the gate's list of delayed kicks (`kick_socket_delay`, `do_loop`) |
| 2 | `SingleSession` | what login promises, abstractly, and `Login` implementing it |

Not planned: parsing, logging, the socket API wrappers and MySQL itself (I/O);
the websocket library's threads; the memory pools, whose free lists
`EntityManager` has where they matter; `sequence.cpp`, whose callers are
commented out; `robot`, which is the environment.
