# A TLA+ verification project for tgChatServer

tgChatServer is a C++ server framework: processes on one machine exchange
messages through rings in shared memory, machines are joined by forwarding daemons
(`busd`) over TCP, a centre (`center`) keeps the list of running services, and
`connd` is the gateway that clients connect to. This directory holds TLA+ models of
its components, the TLC configurations that check them and TLAPS proofs.

All source paths below are relative to `src/server/`. `PROJECT.json` lists the
components, every run with its properties, the mutant that shows that each property can
fail, the source lines behind each definition, and every hazard at its line.

## 1. Inventory

| Component | State | Operations | Talks to |
|---|---|---|---|
| ring buffer (`core/shm/shm_ringbuffer`, `shm_spinlock.h`, `shm_lock.h`) | `head`, `tail`, slots, a process-shared mutex | `Push`, `PushFront`, `Pop`, `Peek`, `Drop`, `Reset`, construction | every bus client, in several processes |
| shared memory and slab (`core/shm/shm.cpp`, `shm_slab`, `common/Helper.cpp`) | objects of the kernel, a header, pages, a free list per size class | `Open`, `Alloc`, `Free`, the packages around them | message bodies of the bus |
| hash map and epochs (`core/shm/shm_hashmap`, `shm_epoch.h`) | buckets, a second table during a rehash, an LRU list, epoch slots | `Put`, `Get`, `Erase`, `RehashStep`, reclamation | nothing uses it |
| bus (`core/bus/IBus.cpp`) | receive ring, pending coroutines | `SendMsg`, `Request`, `HandleResponse`, `IoLoop` | ring, scheduler |
| routing (`core/bus/IBusNet`, `BusClientNet`, `BusdNet`) | routing tables by id and by name, `ready_`, connections to remote daemons | register, update, send, forward | registrar, TCP, rings |
| coroutine scheduler (`core/coroutine`) | run queue, task table, per task `waiting`, `timeout_enabled`, `timed_out`, `resume_value` | `schedule`, `yield`, `resume`, worker threads, timeout thread | bus |
| TCP client and timer (`core/network/TcpClient`, `common/Timer`) | one connection, an event thread; a queue of tasks, one worker | `start`, `stop`, `send`, `checkHeartbeat`; `runEvery`, `cancel` | IBusNet, TcpServer |
| TCP connection and server (`core/network/TcpConnection`, `TcpServer`, `EventLoopWrapper`) | partial-send buffer, receive ring; connection table, descriptors | send, read, accept, heartbeat, kick | registrar, connd, busd |
| WebSocket and KCP listener (`core/network/WsListener`, `KcpListener`) | tables of connections or sessions by descriptor or conversation and by id | handshake, frames, datagrams, `send`, `close_conn` | dispatcher |
| registry (`center/ServiceRegistry`) | instances, expirations, one queue of changes per subscriber | register, renew, deregister, clean up, subscribe, pop | registrar |
| registrar (`center/TcpRegistrar`) | three maps keyed by connection | `onRegist`, `onUpdateServiceStatus`, `handleDisconnect` | TcpServer, registry, IBusNet of every process |
| session manager (`connd/SessionManager`) | `sessions_`, `user_to_conn_` | `on_connect`, `on_auth_ok`, `on_disconnect` | dispatcher, listeners |
| dispatcher (`connd/ConndMsgDispatcher`) | none of its own | `handleLogin`, forwarding | session manager, listeners, bus |
| load balancer (`common/LoadBalancer`) | counters, weights of nodes | pick an instance | IBusNet |
| database proxy (`dbproxy`) | pool of connections, open transactions | acquire, release, begin, commit, time out | MySQL |
| account service and JWT (`account`, `connd/auth`) | the secrets | sign, verify | connd, client |
| application frame (`core/app/IApp`, `ConfigManager`, `SignalHandler`) | run and reload flags, the configuration and its file, a queue of signals | start, reload, stop | every program |
| terminal, settings, command line (`core/app/TerminalInterface`, `JsonParser`, `CommandLineParser`) | threads and clients; a document; argument values | commands; get and set by path; parse | application frame |
| client (`client/main.cpp`) | one socket | connect, apply, auth, heart | connd |
| migration tool (`tools/dbmigrate`) | files, a version table | migrate, rebuild, truncate, create, import | MySQL |
| logic modules, HTTP server, `JsonConfig`, slab templates | none | answers from a message; not started; unused | |

What is hard in them, and what would make each correct (section 3 says where the code does not
keep it):

- **Ring and slab.** Several processes run the operations, and any may die inside one. No
  unread item may be overwritten, no reader may meet a slot nobody wrote, the ring must
  be a FIFO queue, a block has one owner, and no block is lost but with its owner.
- **Scheduler.** A coroutine is handled by the worker that ran it, the thread
  that brings its reply and the timeout thread. It must not be lost, not be run
  on two workers, must get its own reply, and must wake up when no reply comes.
- **Registry, registrar, node.** The centre tells each subscriber everything once and
  changes afterwards. Registration, lease expiry, reconnection and the heartbeat timers of
  both sides overlap: what a subscriber was told must agree with the registry, an instance
  that ended must be forgotten, and a node must be registered again after its connection
  was lost, and learn of the others.
- **Sockets.** Packets are cut up, descriptors are closed on one thread and given out
  again on another, and an edge-triggered event comes once. Packets must come out whole and
  in order, tables must lead to their own descriptors, nothing may stay unread.
- **connd.** Each listener has its own thread and they log users in at the same time,
  kicking each other's connections between two calls into the session manager. One
  connection per user, no mapping that points to a stranger, no session lost by an
  open connection, and handlers that return.
- **Database proxy.** Transactions outlive requests and keep a connection of the pool;
  late statements, the client's commit and the roll-back for the deadline run on different
  threads. No connection may be lost, lent twice or come back with a transaction open,
  and a commit that succeeds must stand for all of its work.
- **Migration tool.** It may be killed between any two statements, and two may run at once.
  What is recorded must be what was run, in order, and a second run must be able to finish.
- **Application frame, terminal.** Signals, edits of a file and commands come at any time.
  The process must end when told to, lose no reload, and leave no thread behind that uses
  what is deleted.
- **Settings, command line, balancer, client.** Sequential, but with corner cases that add
  up over several calls: a path created through arrays and nulls, a value taken from the
  next word, weights that change, an answer that comes after its request was given up.

## 2. Modules

| Module | Code | Role |
|---|---|---|
| `BoundedFifo` | none: the abstract specification | a bounded queue whose calls take effect at one instant |
| `ShmRingBuffer` | `core/shm/shm_ringbuffer.{h,cpp}`, `shm_spinlock.h`, `shm_lock.h` | the ring, step by step |
| `ShmSlab` | `core/shm/shm.cpp`, `shm_slab.cpp`, `shm_lock.h`, `common/Helper.cpp` | the opening of an object of the kernel; the allocator in it and the packages made of its blocks |
| `CoroutineScheduler` | `core/coroutine/CoroutineScheduler.cpp`, `Request` and `HandleResponse` of `core/bus/IBus.cpp` | workers, replies, timeout thread |
| `ServiceRegistry` | `center/ServiceRegistry.cpp` | the registry's operations, each one step (they hold `mu_`) |
| `TcpRegistrar` | `center/TcpRegistrar.cpp`, the connection table of `core/network/TcpServer.cpp`, requests of `core/bus/IBusNet.cpp`, heartbeat of `TcpClient.cpp` | composes registry, registrar, connections and clients |
| `TcpClient`, `IBusNet` | `common/Timer.cpp` and `core/network/TcpClient.cpp`; `core/bus/IBusNet.cpp` | a node's timer and its link to the centre; the node, which extends it |
| `TcpConnection` | `core/network/TcpConnection.cpp` | both ends of one connection |
| `TcpServer` | `core/network/TcpServer.cpp`, `EventLoopWrapper.cpp` | connection table and descriptors |
| `WsListener`, `KcpListener` | `core/network/WsListener.cpp`, `KcpListener.cpp` | the other two listeners of connd |
| `Shm`, `Sockets` | | ring and slab side by side; TCP connection, WebSocket and KCP listener side by side |
| `SessionManager`, `ConndMsgDispatcher` | `connd/SessionManager.cpp`; `ConndMsgDispatcher.cpp`, the accept and close paths of the three listeners, `ConndService.h` | the session maps; sessions, listeners and logins composed |
| `MySQLConnectionPool`, `TransactionManager` | `dbproxy/MySQLConnectionPool.cpp`, `MySQLConnection.cpp` (MySQL is external); `TransactionManager.cpp`, `DBProxyHandler.cpp`, `DBProxyService.h` | the pool; pool, transactions, handler threads and the tick thread composed |
| `SQLGenerator`, `MigrationEngine` | `tools/dbmigrate/{XmlParser,SQLGenerator,MigrationEngine,main}.cpp` | what a file means to the database; the tool's commands |
| `SignalHandler`, `ConfigManager`, `IApp` | `core/app/SignalHandler.cpp`, `ConfigManager.cpp`, `IApp.cpp` | signals; hot reload; the process that has both |
| `TerminalInterface` | `core/app/TerminalInterface.cpp` | the terminal's threads |
| `JsonParser`, `CommandLineParser` | `core/app/JsonParser.cpp`, `ConfigManager.cpp`; `CommandLineParser.cpp` | settings by path; argv |
| `LoadBalancer` | `common/LoadBalancer.cpp` | the nine balancers |
| `JwtToken`, `ConndClient` | `account/AccountService.cpp`, `connd/auth/JwtAuthProvider.cpp`, `common/Helper.cpp`; `client/main.cpp` | tokens, as operators; a client against connd, bus and account service |
| `*Proofs` | | theorems about the module they are named for, and: `CoreProofs` about `CoroutineScheduler`, `IApp` and `CommandLineParser`, `SocketsProofs` about `IBusNet`, `TcpServerProofs` about `TerminalInterface`, `ConndMsgDispatcherProofs` about `JwtToken` and `ConndClient`, `ShmRingBufferProofs` about `ShmSlab`, `MigrationEngineProofs` about `LoadBalancer` |
| `MC*` | | instances for TLC: constants, symmetry, and the composition of parts that do not interact; `IApp`, `TcpServer`, `IBusNet`, `CoroutineScheduler` and `TransactionManager` need none, their `MC*.cfg` gives the constants. `MCIBusNet.cfg` asks for liveness and has nobody who sends, `MCParts.cfg` the safety of a node that sends |

A module that is extended (`ServiceRegistry`, `SessionManager`, `MySQLConnectionPool`, `TcpClient`,
`SignalHandler`, `ConfigManager`, `SQLGenerator`, `JwtToken`)
declares its own variables and operations; the module that extends it adds the callers.

Three modules hold parts that do not interact and are checked in one run: `Shm` (ring,
slab), `Sockets` (TCP connection, WebSocket listener, KCP listener) and `MCParts` (balancer,
command line, settings, client, terminal, and a node whose threads send while its tables change). A variable `side` is chosen in the initial state and
says which one runs; the others keep one initial state. Their states are therefore
the sum and not the product, and a property of one part is checked on its states only.

### How code and model correspond

**ShmRingBuffer.** `Invoke` is the entry of an operation, `Acquire` the `TryLock` that
succeeds in the guard's loop. `Refuse` is the early return after the check of
`Used()` or `Available()`. `Copy` and `CopyWrapped` are the two `memcpy`s (`Start` and
`FirstPart` compute where they go), and `Commit` the assignment to `head` or
`tail` with the unlock. `NewTail`, `NewHead` and `FrontHead` are the index expressions
as the code writes them. `Crash` ends a process at any point. `PeerOpen` and `PeerOpened`
are the two stores of the constructor in a second process, which happen without the
lock; only `SharedSpec` has them. A slot holds a model value: nothing depends on the
content. A batch of 0 returns before shared state is touched and is left out.

**ShmSlab.** `Open` to `Truncate` are the steps of `SharedMemory::Open`: an object
exists, then has its size, and only then does its creator fill it in. `LockAttached`,
`InitMutex`, `SlabAttached`, `SetMagic` to `ClearList` are the two constructors,
one step per store that another process can tell apart. Blocks are numbered; a page
is cut into a fixed number of them whatever its class, and `next` is the offset in a free
block. `Want` is a message that needs a block of some class; `NoPack` and `NullWrite` are the
two ways Helper takes a refusal: it returns nothing, or writes through the null pointer and the
process dies. `Kill` is a kill at any point; a mutex whose holder dies is `Dead` for good.

**CoroutineScheduler.** `WorkerPop`, `WorkerResume` and `WorkerAfter` are the three parts
of `worker_routine`. `Send` is `Request` up to `yield`; `SendFails` are its early returns, without a
reply and without a yield (no bus, no shared memory, nobody to send to, `IBus.cpp:193-212`). `Mark`,
`Arm` and `Park` are the parts of `yield` before the switch, `YieldReturn` the part after it with the end
of `Request`, which throws when `yield` returns null. In `Return` the handler then makes its next
request or ends. `ResumeClaim` merges `find_task`, `is_completed` and the exchange
of `waiting` (a task that completes between them is not waiting, so the exchange fails
and the outcome is the same). `ResumeStore` and `ResumeEnqueue` follow. The timeout thread
collects under the mutex of `all_tasks_` and works through what it collected
afterwards, with the same three parts (`TimeoutClaim`, `TimeoutStore`, `TimeoutEnqueue`).
The coroutine library (`cotask`) is external:
that a coroutine which runs is not entered again is its guard, and nothing is claimed about it.

**TcpRegistrar.** A handler is one step for each lock it takes: `pc` is where the accept thread
is. `Read` takes a request from a connection; which one a client sends depends on `ready_`, as
in `regist2Center` and `updateServiceStatusReq`. `StatusLookup` is the lookup in
`fd_to_inst_`, `Renew` the renewal from that cache, `Find`, `RenewFound` and `MapFound`
the search of a snapshot, `Resubscribe`, `Reregister` and `Remap` the new registration, then
`Pop`, `Respond` and `Cleanup`. `BeginDisconnect` and `EndDisconnect` are
`removeConnection` with `handleDisconnect`; in between `conn_mu_` and the server's
`conn_mutex_` are held, and steps that need them are `Locked`. `TimerPick` and `TimerRemove` are
`checkHeartbeats`, which collects any number of silent connections and removes them one by one. Each message on a connection carries the id of its owner, so an
instance is its id. The load figures in a message are left out. The history variables are
`told` (what the answers to each client add up to when its changes are applied in order) and
`disturbed` (instances to which one of the events that `DeltasComplete` excludes has happened).

**TcpClient, IBusNet.** One timer thread runs the tasks that are due, in order; a task is out
of the table while it runs. `at[t]` is where thread `t` is in `stop()` and, for the timer's, in
`start()`: `StopCheck` reads `joinable()`, `StopJoined` is the end of `join`, `StopClose` closes
`conn_`. A second join of one thread throws (`JoinThrows`): the timer catches that
(`Timer.cpp:90`), on the main thread it ends the process. `checkHeartbeat` is the stop and start of a
silent connection. `link` is the connection: up, cut by the peer, dead, or closed by this side.
The centre is drawn with one step per request (`Handle`), since `TcpRegistrar` has its threads;
its memory of this node is `registered`, `slot`, `cached`, `mapped` and `got_full`, and of
earlier connections only how many of them it has not seen end (`stale`). `StoreMap` and
`StoreNames` are the two stores of an answer. A sender loads the two tables one after the other as
well (`IBusNet.cpp:219` and 242): `PickByName` takes an instance from the names, and `sendMsgTo` looks
it up in the other table, `Refused` when it is not there. `seen`, `mislaid` and `replaced` are history.

**TcpConnection.** Bytes are units `<<p, i>>` of packet `p`. `SendMsg` is `send_impl` up to the
partial write, `Save` and `Arm` what follows when the socket was full; `onWritable`,
`Clear` and `Disarm` are the event loop's side: what it writes, the `clear()` of the buffer after the last
unit, and the switch of its interest. The peer reads what `ReadMax` allows into its ring and
`processRecvBuffer` takes packets out of it. `overlap` is history: a packet was sent while
units of an earlier one waited.

**TcpServer, WsListener.** The kernel is explicit: `owner` says whose a descriptor is, and the lowest free
one is given out, also to the rest of the process (`Other`). `removeConnection` has a step for each
of close, removal from epoll, removal from the maps, and the callback. Events are
edge-triggered, reported in a batch, and handled one after the other; an event's
descriptor may have another owner by then. In `WsListener` a client sends the units of a script,
and what has arrived, was read and was parsed are positions in it.

**KcpListener.** `mu_` is held over the handlers (`dispatchKcpData`); a handler that sends or
closes on this listener waits for itself (`HandlerReplies`). `ikcp_update` drives KCP and collects the
idle conversations, `removeSession` removes them one by one. `udpFd` is the set of threads in
which `tl_udp_fd` is set. KCP (`ikcp`) is external.

**ConndMsgDispatcher.** `pc[l]` is where the thread of listener `l` is in `handleLogin`: first
`on_auth_ok` (`Auth`), `close_conn` of the old connection (`Kick`, which removes it from its
table, and `KickCloseHandler`), `on_disconnect` once more (`Drop`), second `on_auth_ok`
(`Rebind`), answer (`Reply`). `Unlink` and `CloseHandler` are the two halves of a close by
the peer or by silence. The TCP and the KCP listener close from a timer thread, the
WebSocket listener from the thread that handles messages. `Unlocked` is
`mu_` of the KCP listener, which `processUdpPacket` holds over the handlers of all messages of a
datagram (`MaxBatch`, `NextMessage`). A token that verifies is the user it names; the other
messages that are answered without touching a session are `Message(c, Anonymous)`. The history
variable `switched` holds connections that logged in as a second user.

**MySQLConnectionPool and TransactionManager.** `pc[t]` is where thread `t` is. `Acquire` is one
turn of the loop in `acquire` (idle connection, growth, wait); `CreateSucceeds` and `CreateFails`
are the turn after `createOne`, which runs with the mutex free; `AcquireTimeout` is the
deadline. A connection is a `shared_ptr`: `Drop` is the end of one reference, and
returns the connection when no thread and no transaction has another. `GetConnection` copies
a transaction's reference. `FinalizeTake` is the critical section of `finalize`, `FinalizeRun`
the COMMIT or ROLLBACK after it, `Leave` the end of its scope. The COMMIT or ROLLBACK may fail on a
connection that lives (`EndFails`: the server refuses it, or a result nobody fetched has put
the handle out of step, `MySQLConnection.cpp:165`): the session is then still in the transaction, and the
connection goes back to the pool like any other. `HealthTake`, `HealthTry` and
`HealthReturn` are `healthCheck`, `Collect` and `Sweep` `checkTimeouts`, both on the
thread of `onTick`; the health check comes every thirtieth time, in the model when it likes.
What the proxy cannot see is external: `session[c]` says whether the server has a transaction
open on `c`, and `Lose` breaks a connection in the middle of one (the client library then refuses
one call, and reconnects unseen outside transactions). `pending`, `doubt` and `unended` are history
variables: who has work in an open transaction, whose work was undone without an error
to the client, and on which connections a COMMIT or ROLLBACK has failed and nothing has begun anew since
(`StartTransaction`; a session that is lost; the reconnect of a health check, `Renew`). A statement is one step, also when two requests of one transaction
use the handle at once, which the library does not allow.

**SQLGenerator, MigrationEngine.** A file is a sequence of operations; `parseMigrationFile` says
whether it is accepted, `Statements` what it becomes, and the operators of the server (external) what a
statement does to tables and rows. An engine is a process: `Load`, `Check`, `Apply`, then `Run` for
each statement, `Record`, `Commit`. MySQL commits before a DDL statement
(`ImplicitCommit`), so that the transaction around a file covers its last INSERTs only.
`Fault` kills a process or breaks its connection. `expected` (what the contents whose checksums are recorded
make, `Given`), `half` (the files that were begun and not recorded) and `disturbed` (what `Converged` excepts) are history.

**SignalHandler, ConfigManager, IApp.** `frame[t]` is a signal handler that has interrupted thread
`t`: SIGTERM clears the flag on the spot, SIGHUP is pushed to the queue under `signal_mutex`. The
monitor compares the file's time (in whole seconds) with the last one, loads, and reads the time
again (`MonitorLoad` and its neighbours). `pc` is where the main thread is from `initialize` to the
destructors. A content of the file is a number; callbacks of the application end.

**TerminalInterface, CommandLineParser, JsonParser, LoadBalancer, JwtToken, ConndClient.** The terminal has
a location for each thread; `accept` on a socket that another thread closes goes on. A word of the command line
is its dashes, name and value. A document is a function from paths to kinds of nodes; `Index` is what
`std::stoul` makes of a token. A balancer is one that is kept; `picks` counts since the last
full turn. Tokens are sequences of bytes and sextets, and the hash an injective record. `signJwt` escapes
nothing, so `parsePayload` gives the account back only if it has no quote, backslash or control character
(`PlainText`), and of another one anything. `ConndClient` has one client; of the others' logins it
keeps the accounts they have (`held`, `othersLogin`). `handleLogin` then kicks, and `rebind` is the second
`on_auth_ok`, whose result nobody looks at (`ConndMsgDispatcher.cpp:111-122`); `raced` remembers when it failed. The
client's five seconds are `recvFails`, at any time that nothing has come.

## 3. Runs

| Run | Question | Properties |
|---|---|---|
| `shm` | Two threads call everything on a ring of 4 slots and may die inside a call. Is it a FIFO queue, is nothing unread overwritten, is nothing unwritten read? Two processes open one slab, allocate and free, and are killed anywhere. Has each block one owner, and is none lost but those of a killed process? | `FifoSpec`, `UnreadKept`, `NoJunkRead`, `BlocksAccounted`, `TypeOK` |
| `coroutines` | Two handlers with one request each, two workers, replies early, late or never: is any coroutine lost, and does every request end? | `NoLostTask`, `YieldReturns` |
| `coroutines_reply` | Two requests one after the other: does each return its own reply? | `OwnReply`: violated, the finding |
| `registrar` | Instances register, renew, reconnect, end, restart; leases lapse, connections are kicked. Do registry and subscribers agree, and is an instance that ended forgotten? | `DeltasComplete`, `Forgotten` |
| `logins` | Two users on three connections of a TCP and a WebSocket listener log in, again, and as each other, while connections close. | `OneSession`, `NoStaleMapping`, `OpenKeepsSession`, `ClosedForgotten`, `TypeOK` |
| `transactions` | Two handler threads and the tick thread, two transactions, a pool that grows from one connection to two, connections that break, COMMITs and ROLLBACKs that fail: is every connection in one place, does a transaction hold the work of one, and does a commit that succeeds stand for all answered work? | `OnePlace`, `PoolBounded`, `Separate`, `CommitMeansAll` |
| `migrate` | Up to two migrators are killed between any two statements, and a file is added. Are files run in order, is everything applied in the end, and are tables and rows what the recorded contents give? The last only where engines ran one after the other. | `Converged`, `NoGap`, `Completes` |
| `app` | A process starts, reloads and stops while signals, terminal commands and edits of its file come at any time. Does it end when told to, is no deleted timer used, is no reload lost? | `StopEnds`, `TimerOutlives`, `ReloadsHappen` |
| `server` | Connections are accepted, kicked, reset and removed on three threads while descriptors are closed and given out again. Do table, descriptors and epoll agree, and is what arrives dealt with? | `MapsAgree`, `Served` |
| `node` | A node registers and keeps its tables over a connection that is cut, dies, or is given up twice. Does it end up registered, and does it learn of each instance that stays? | `Rejoins`, `Discovered` |
| `sockets` | Packets over a socket that takes a part at a time; a WebSocket and a KCP listener. Do packets arrive whole, in order, once; do tables and callbacks agree; is what has come handled? | `Delivered`, `Arrives`, `Listed`, `ListenersServe` |
| `parts` | Do weighted balancers pick instances as often as they weigh, options mean their last value, settings read as they were set, a login that returned true stand for one at the gateway unless another came in between, does `stop()` of the terminal leave no thread it waited for? A thread looks up an instance while answers replace the tables: when is one it has found by name refused? Does `start()` ever replace an event thread that nobody has joined? | `Shares`, `Parsed`, `SetGet`, `Accepted`, `StopWaits`, `NodeTypeOK` |

`DeltasComplete` is claimed of instances that never had two connections at a
time, whose lease never lapsed, and that were not kicked while one of their messages was
being handled: for the others it does not hold (claim 3 and two of the hazards). Where
another property has an exception, the exception is a state the code does reach, and is named
in the property and listed below or in section 5.

The exceptions of `Converged`: two engines at once, a rebuild that was cut, a file that is edited
between being read and being recorded (claim 14), and anything executed while another file, or another
content of the file, is half done. `Completes` speaks of files whose statements a second run can repeat: the
tool itself runs a half-done file again from its first statement, and a file with, say, a `drop_column` then fails for
ever. `Shares` holds of smooth weighting as long as no node has changed its weight (claim 12) and none has come or
gone while another was owed a pick. `Separate` says nothing of a connection on which a COMMIT or
ROLLBACK failed (claim 5), until its session begins anew.

### Finding

**A reply answers the next request** (`core/coroutine/CoroutineScheduler.cpp:237`). A worker
queues a coroutine again when `waiting` is already false, besides `resume()`, so `yield` can
return before the value is stored, and the value is there for the next `yield`. It needs two
yields of one coroutine; `Request` has no caller in the repository yet, so it concerns the
promise of the API rather than a deployed path.

### Other claims TLC refutes

These are claims of comments, names or common sense that were written down as
properties and are refuted. They are no runs of their own: add the name to the cfg to see
the counterexample (13 and 14 have a cfg of their own, in which it already is).

| | Claim | Module, cfg | What happens |
|---|---|---|---|
| 1 | `LockRecovered`: a waiting process gets past a holder that died (`shm_lock.h:194`) | `ShmRingBuffer`; `FairSpec` with `N = 2` | `TryLock` takes every error of `pthread_mutex_trylock` for "held" (`shm_lock.h:123`). What is more, the robust attribute is never set: `PTHREAD_MUTEX_ROBUST` is an enumerator, so the `#ifdef` in line 196 is false. |
| 2 | `FifoSpec` under `SharedSpec`: the ring stays a queue when a second process constructs it | `ShmRingBuffer`; `N = 3` | The constructor stores `head = tail = 0` without the lock also when the segment exists (`shm_ringbuffer.h:132`), and senders construct the receiver's ring by name. |
| 3 | `LapsedAnnounced`: an instance whose lease lapsed is announced again when it renews | `MCTcpRegistrar.cfg` | The renewal from the connection cache re-registers without announcing (`TcpRegistrar.cpp:146`). |
| 4 | `SuccessMeansAuthed`: a connection that is told success is logged in | `MCConndMsgDispatcher.cfg` | The second `on_auth_ok` is not looked at (`ConndMsgDispatcher.cpp:121`): another listener logged the user in meanwhile, or the kicked connection had switched users and its old mapping stays. |
| 5 | `PoolClean`: a connection in the pool has no transaction open, as each transaction has one of its own from the pool (`TransactionManager.h:10`) | `MCTransactionManager.cfg` | `finalize` drops its reference whether COMMIT or ROLLBACK succeeded or not (`TransactionManager.cpp:71`), and the deleter puts the connection back as it is. A result that `execute()` leaves behind (`MySQLConnection.cpp:165`), or a late statement on the same handle, is enough to make them fail. |
| 6 | `YieldReturns` with two requests | `MCCoroutineScheduler_reply.cfg` | The second half of `resume()` switches off the timeout of the next `yield` (`CoroutineScheduler.cpp:140`). |
| 7 | `StaysKnown`: an instance that stays registered and was in the table is still in it (`IBusNet.h:98`) | `MCIBusNet.cfg` | Both tables are replaced by what an answer holds, also when it holds changes only, or nothing (`IBusNet.cpp:201`). Routing is lost within a second of each registration; this is why `Discovered` says "was known once". |
| 8 | `OnTarget`: a WebSocket send reaches the connection it was given | `MCSockets.cfg` | The descriptor is looked up under the lock and written to after it; it may belong to another connection by then (`WsListener.cpp:452`). |
| 9 | `Answers`: what is sent to a KCP client reaches it | `MCSockets.cfg` | The output callback sends on `tl_udp_fd`, which is set on the receiving thread only (`KcpListener.cpp:33`). |
| 10 | `RestIsSent`: what waits in the send buffer gets sent, though no packet is sent over another (`TcpConnection.cpp:146`) | `MCSockets.cfg` | The event loop has cleared the buffer and not yet switched its interest in writing off (`TcpConnection.cpp:88`) when a sender saves the rest of the next packet and switches it on: then it is off, and the rest stays until somebody sends again. |
| 11 | `AllStopped`: once the run flag is cleared all terminal threads end | `MCParts.cfg` | `stop()` returns at once when something else has cleared the flag (`TerminalInterface.cpp:63`). |
| 12 | `WeightsFollow` (an action property): a balancer that is kept follows changed weights (`LoadBalancer.cpp:127`) | `MCParts.cfg` | For a node it knows only `weight` is set, and what is added and compared is `effective_weight` (`LoadBalancer.cpp:140-144`). |
| 13 | `HandlersReturn`: a message handler that answers returns (`IListener.h:40`, whose `send` returns 0 or a negative number) | `MCConndMsgDispatcher_kcp.cfg` | `processUdpPacket` holds `mu_` over the message handler, and `send()` locks it again on the same thread (`KcpListener.cpp:134`). `ConndApp` starts the listener and every answer goes this way, so a login over KCP hangs it; a login on another listener that kicks a KCP connection then waits as well. |
| 14 | `RecordedIsRun`: a row of the version table is a migration that was applied (`MigrationEngine.h:9-15`) | `MCMigrationEngine_edit.cfg` | The checksum is computed from the file on disk after the statements of the parsed one have run (`MigrationEngine.cpp:269`). A file saved in between is recorded with the checksum of a content nobody has executed, and no later run looks at it again. |

More behaviours are excepted in properties and reachable in the runs. A thread of
`TcpServer` that fails to send inside `conn_mutex_` removes the connection itself, which takes the
same mutex (`TcpServer.cpp:310`; excepted in `Served`). A packet that is sent while units of another wait is written
past it or replaces it (`TcpConnection.cpp:142`; excepted in `Delivered` and `Arrives`). A signal handler may wait for the mutex that the thread it has
interrupted holds (`SignalHandler.cpp:114`; excepted in `StopEnds` and `ReloadsHappen`). An edit of the configuration
during its load, or in the same second, is not seen (`ConfigManager.cpp:370`; excepted in `ReloadsHappen`). A connection that has
switched users leaves the first user's mapping behind (`SessionManager.cpp:47`; excepted in `NoStaleMapping`). And every reconnection of a node adds a
heartbeat task, every registration answer a status task (`TcpClient.cpp:53`, `IBusNet.cpp:125`):
their number grows for ever, and the run bounds it with `MaxTasks`.

## 4. Bounds

Every bound is a CONSTANT.

- **shm.** `N` = 4 slots hold three items, so that batches of two (`MaxCount`) wrap in both
  directions, end exactly at the end of the ring and fill it to the last free slot. The theorems
  hold for every `N` and `MaxCount`. Two items tell an order from its reverse. The slab has two
  classes and one page of two blocks, so that a class can find the page taken; a process holds at
  most two messages and two processes start three times in all, so that one comes after a kill. A run
  with two pages (9,260,685 states) shows the same. Symmetry: threads, items, processes; none of
  the properties is a liveness property.
- **coroutines.** Two tasks, two workers and one delivering thread, so that a task can be on a
  worker, in the queue and in the hands of a deliverer at once. With one request `OwnReply` could
  not fail, so it is not claimed there; with two, `YieldReturns` fails (claim 6).
- **registrar.** `MaxConn` connections per instance (`a` two, `b` one), `Mortal` (only `a`
  may end), and `MaxMishaps` = 2 in all of lapsed leases of running instances, slow first
  answers, requests in flight on a connection that is given up, and connections that are kicked: two may be kicked in
  one go. One
  reconnection is enough for an old connection to be closed after the new one is in use.
- **logins.** Two TCP connections and one WebSocket connection and two users, so that two listeners
  can kick each other's connections, and a connection can switch users. `conn_id`s are
  used once, as the listeners count them up. The theorems hold for any number. The cfg of claim 13 has one TCP
  and one KCP connection and batches of one message.
- **transactions.** Two transaction ids, two workers, `PoolSize` 1, `MaxPool` 2 and one connection
  object more than the pool may have, so that exceeding the maximum would show. Two threads can hold
  one transaction's connection while the tick thread ends it and another transaction wants one.
- **migrate.** Two engines, three files, two of them with one version; one wipe, one fault, one
  edit. A fault in the middle of one file, with the other engine in the middle of another, is in. The cfg of claim 14
  has one engine and one edit.
- **app.** A queue of one signal, three events in all from signals, commands and edits. A fourth
  event finds nothing the third does not: one to be handled, one queued, one that comes while they
  are.
- **server.** Two descriptors, two connections one after the other, two of them new (`MaxNews`), one
  descriptor taken by the rest of the process. With three of each (18.3 million states) both
  properties hold.
- **node.** `MaxTasks` 5, one request in flight, two losses (a lost connection and one
  given up by mistake), one other instance that changes twice, nobody who sends.
- **sockets.** Packets of 2, 4 and 3 units behind headers of 2, a socket that takes 3, a receive ring of
  5 and reads of 2, so that headers and bodies are cut in the middle; two descriptors and two WebSocket
  connections; two KCP conversations with two sessions, two messages and two calls. Also checked with
  three KCP sessions (177,905 states), and with longer WebSocket scripts (290,277).
- **parts.** Two nodes with weights 0, 2 and 3 that change twice; command lines of up to four words; three
  settings set one after the other, on 13 paths; two telnet clients; a client with as many calls as its
  answers can overtake. For the look-ups one sender and two other instances that change twice in all, so that an answer can take
  the picked one away and leave the other, with `MaxTasks` 3 and two losses; only safety is asked of it, so that the states with the sender stay in reach.

A run takes from 25 seconds (`coroutines`, 122,054 distinct states) to about three minutes (`registrar`, 1.8 million; `parts`, the
largest with 4.0 million) with two workers.

Deadlock is checked in `transactions`, where the tick thread always goes on. Elsewhere it is not: a bounded instance stops when its bounds are used up, and a
system to which nobody sends has nothing to do. That nothing hangs is claimed by the
liveness properties.

## 5. Fairness

Fairness is weak unless stated, and is assumed of what the operating system schedules and of
timers. Nobody has to connect, send, lose a connection, edit a file or stop.

- **Ring** (`FairSpec`, only for claim 1): every thread inside a call goes on. A spinning
  thread retries for ever, so weak fairness of its step is what the loop does. `Crash` is not fair.
- **Scheduler.** Worker threads, the two later steps of a delivering thread and the
  timeout thread go on, and deadlines pass. These are the threads `start()` makes: `IBus.cpp:75` makes the scheduler, and nothing in
  the repository calls `start()`, so `YieldReturns` is about a scheduler as its header describes it and not about a
  process of this commit, in which no coroutine ever runs. Nothing is assumed about replies: `Send` may
  never be answered, and `ResumeClaim` is not fair.
- **Registrar.** The accept thread handles what it has read and reads what is sent, a client that
  runs goes on asking (its periodic timer), a peer's close is seen, the timer thread removes
  what it picked, and the lease of a process that ended lapses. Nothing is assumed about starts,
  stops or kicks.
- **connd.** Handlers and pending close handlers go on.
- **Migration tool.** An engine that runs goes on; that somebody starts it again after a fault, and in the end
  one at a time over files that can be repeated, is assumed in `Completes` only.
- **Application.** The threads run, callbacks return. `StopEnds` counts on lines being typed at the
  terminal (its thread blocks in a read, and is joined), and on the signal coming after `start`:
  `IApp.cpp:310` sets `m_running` and so undoes an earlier SIGTERM.
- **Server and sockets.** The event loops and timers go on; the KCP half of `ListenersServe` is asked only while no handler
  replies (claim 13). The KCP listener's `ikcp_update`, its
  removals and the join in `stop()` are strongly fair: `mu_` is free again and again, and a mutex
  comes to each that waits for it.
- **Node.** The steps of the threads, the centre's answers and the clock are fair, `ConnectSucceeds` strongly
  (the centre is reachable again and again). A connection attempt outlasts a `stop()` of the main
  thread, and the steps of `stop()` and `start()` that do not wait take less than the 30 seconds of
  silence after which a connection is given up. `Rejoins` and `Discovered` except a node that is
  `Stuck`, which the code reaches: the main thread's `stop()` reads `joinable()` after the heartbeat
  has started a new event thread and joins it for ever (`TcpClient.cpp:65`), or a second join throws on
  the main thread and ends the process. `Discovered` also excepts a node whose queue of changes the
  centre drops while the connection in use is in its cache, because it sees the end of an older one (`mislaid`,
  `TcpRegistrar.cpp:63`): what comes after is not queued for it. Other races on the way there, which heal: a failed send on the
  main thread during `start()` clears `running_`; a late `stop()` closes the new
  connection; a start that failed leaves `running_` true; and sends on a dead link
  count as signs of life.
- **Ring and slab, transactions, parts:** safety only, no fairness.

## 6. Proofs

TLAPS checks the theorems for every value of the constants, under the assumptions named
in the modules (`RingAssumption`, `SchedAssumption`, `SessionAssumption`, `ListenerAssumption`,
`PoolAssumption`, `ServerAssumption`, `RegistrarAssumption`, `NoneAssumption`, `QueueAssumption`, `EventAssumption`,
`LengthAssumption`, `CapAssumption`, `WsAssumption`, `KcpAssumption`, `SlabAssumption`, `VersionAssumption`,
`BodiesAssumption`, `FirstDirsAssumption`, `TimerAssumption`, `ClientAssumption`, `NodeAssumption`,
`TokenAssumption`, `ArgsAssumption`, `BalancerAssumption`):
sizes and bounds are natural numbers, positive where the code's constants are, descriptors are
numbers, there are finitely many instances and file names, files consist of operations, characters and times fit a byte (as in the tokens), and distinguished values are not elements
of the sets. Modules that one proof module extends together prefix their `Init`, `Next` and `Spec` (`App`, `Node`, `Term`,
`Client`, `Args`, `Balancer`).

**ShmRingBufferProofs.** `TypeCorrect`, `NoJunkCorrect` and `UnreadCorrect` for `Spec`. The
invariants are not inductive alone: that an index stays in range depends on the check of the
room still being true when the header is stored. The inductive invariant is
`IInv == TypeOK /\ LockInv /\ CallInv /\ CopyInv /\ NoJunkRead`:

- `LockInv`: whoever is inside the critical section, dead or alive, holds the lock;
- `CallInv`: a thread past the check has an admissible call, and the check still holds;
- `CopyInv`: a push past its first `memcpy` has written the slots up to that point,
  so that `Commit` makes only written slots live.

The arithmetic is in `ModN`, `CopyBounds`, `NewIndex` and the three lemmas about arcs of the
ring (`PushArc`, `FrontArc`, `PopArc`), which need no invariant. `TargetsNotLive` is the heart of
`UnreadCorrect`: the slots a push writes are not among the unread ones. `RingIsFifo` is the refinement: every step of the ring maps to a step of `BoundedFifo`, or leaves the
queue alone, when the queue stands for the unread slots in order (`Contents`) and a call takes effect at
`Commit`. `DataInv` says what a copy has done so far: the slots of a push hold the first items of its batch,
and the locals of a pop are the front of the queue. `Run` is the queue as a function of head, length and buffer;
`PushPlaces`, `FrontPlaces` and `PopPlaces` say how each call moves its places, and `PushEffect`, `TakeEffect`
and `DropEffect` that the new queue is the concatenation `BoundedFifo` asks for.

`BlocksAccountedCorrect`, in the same module, is about the slab, for any number of processes, classes, pages and
blocks of a page, and processes that start and are killed anywhere. `BlocksAccounted` walks along
the free lists, and says nothing of a thread that is half-way through changing one. The inductive invariant is
`SlabInv == SlabTyped /\ StepInv /\ CreateInv /\ (slab_reset \/ Mutex /\ Apart /\ LocalInv /\ Listings)`:

- `StepInv` and `CreateInv`: what each step knows of its locals, and that one process makes the object and none cuts
  a page before its header says how;
- `slab_reset` is the exception the property has too: the second process initialised the mutex while it was held, and
  nothing is claimed of the lists afterwards;
- `Mutex`, `Apart`: one thread is between lock and unlock, and no block is in two hands; `LocalInv`: a thread that
  found the list empty finds it so until it unlocks;
- `Listings`: each class has a `Listing`, a sequence of different blocks that leads (`Chain`) from the list's head, or in the
  middle of a push or pop from where it will be (`Front`), to an end; it holds no block a process has, and a block of the class
  that is in no hand and not lost is in it.

`ListingKept` says which steps leave a listing alone; `SafePush`, `SafePop` and `SafeNewPage` give the new one. What the
recursive function `Walk` of the model computes along a listing is `WalkOfChain` and `WalkExists`, by `SetInduction`:
induction over the numbers for one given set, from the well-foundedness of `<`, which needs no operator
parameter.

**CoreProofs, the coroutine scheduler.** `TypeCorrect` for any number of coroutines, workers,
delivering threads and requests. `NoLostCorrect` proves `NoLostTask` for handlers that make one request (`MaxReq = 1`): with more, the finding's
second half (claim 6) makes it false. `KeptInv` is the property without the types, and needs
`LifeInv`: between `Send` and `Park` a coroutine is on a worker; it does not wait before its first `yield`; nobody has
claimed one that still waits; and from `Arm` on one that waits has its timeout on. `OneMoves` reduces
a step to the one coroutine it moves.

**CoreProofs, the command line.** `ParsedCorrect`, for any options and any words. `ValuesInv`: what an argument has is
the value of the last option for it among the words read so far, or its default. `WordsInv`: the k-th positional word is the
plain word of rank k, where the rank is the number of plain words up to it (`Plain`), so that the order needs no
recursion. A word that was taken as the value of the one before it is never read: the next word to read is never bound.

**ConndMsgDispatcherProofs.** `TypeCorrect`, `OneSessionCorrect`, `NoStaleMappingCorrect` and
`OpenKeepsSessionCorrect`, for any number of connections, users and listeners, KCP
included. `IInv == TypeOK /\ HandlerInv /\ UsedInv /\ Mapped /\ NoStaleMapping`. `OneSession`
follows from `Mapped` (whoever is logged in as a user is the one the user is
mapped to), and `Mapped` is inductive only because a `conn_id` is never given out
twice: `UsedInv` says that nothing refers to one that has not been. `HandlerInv` says what
`handleLogin` knows of its locals, in particular that the connection it
drops is out of its table, which is what `OpenKeepsSession` needs.

`AcceptedCorrect`, in the same module, is about the tokens one logs in with and the client that sends them, for any
accounts and keys. What `base64Decode` makes of what `base64UrlEncode` wrote is the text again (`RoundTrip`): a group of three
bytes is four sextets (`Sextets`), from which the three come back (`GroupBack`), and an incomplete last group likewise;
so `verify` finds the account, the time and the signature that `signJwt` put in (`TokenVerifies`). That two secrets
never give one signature is how `hmacSha256` is modelled, and the token is said to name its account only where JSON needs no
escapes (`PlainText`). The second half of the property, that
no late frame is taken for the success of another request, has `CcInv == TokensInv /\ WireInv`: whenever a frame that says yes to
`auth` is on the way over an open connection, a token was sent on it, and connd has the connection for that token's account or has lost
it to another login between the kick and the second `on_auth_ok` (`Bound`); and while a login is between the two, the
request it serves is still the first (`CcLogin`, `CcRebinds`, `CcOthers`).

**TransactionManagerProofs.** `PoolBoundedCorrect`, `OnePlaceCorrect`, `SeparateCorrect` and
`CommitMeansAllCorrect`, from `PoolAssumption` (thread names are no transaction ids there, as `SharedBy` is a set of both).
The inductive invariant is `TxInv == PoolInv /\ DbTypes /\ AskInv /\ ShareInv /\ WorkInv` with
`PoolInv == SizeInv /\ CtlInv /\ MakingInv /\ PlaceInv`:

- `SizeInv` adds to `PoolBounded` only that `all` is finite and `creating` an integer: a thread counts its
  connection under the mutex before it makes it, so a creation only moves one from `creating` to `all`;
- `PlaceInv`: no queue names a connection twice, and idle ones, those the health check has and lent ones part
  `all`, so the counts of `OnePlace` are 0 or 1. `CtlInv` says at which labels a thread has a
  reference and that an id not given out names no transaction; `MakingInv` that
  `creating` counts the threads that make a connection;
- `ShareInv`: threads share a connection only as requests of the transaction that has it, no two transactions have
  the same one, and the thread that ends a transaction is the only one that does;
- `AskInv`: who waits for a connection of the pool serves a request that names no transaction;
- `WorkInv`: an open transaction on a connection has an owner (`Own`: the entry of `active_txs_`, or the thread that
  ends it), or is one that a failed COMMIT or ROLLBACK has left open (`unended`), which nobody owns; work in it is the
  owner's, or was left behind by one that is over (`Stray`); and a transaction that lost work owns only a connection that is gone.

`OwnOne` (a connection has one owner, an owner one connection) carries the second half; there is one lemma per action,
and `QuietTx` for those that touch no connection.

**TcpServerProofs.** `MapsAgreeCorrect`, for any number of connections and descriptors. `MapsAgree` is not
inductive: that `erase` never takes an entry that meanwhile belongs to another connection rests on the mutex being
held from `close()` on, and that a descriptor no entry knows is nobody's on the accept thread being the
only one that opens any. `IInv == TypeOK /\ StepsOK /\ OpenInv /\ TableInv /\ EntryInv /\ HandInv`:

- `OpenInv`: an open descriptor belongs to one connection, which is in the table with its entry or still in
  the hands of the accept thread;
- `TableInv` and `EntryInv`: what is in the table is open or being erased, and an entry leads to a connection
  that has the descriptor, or had it and is being erased (`Erasing`);
- `HandInv`: what a thread knows of the connection and the descriptor it is at. In particular, the accept thread that
  met an unknown descriptor (`handleClientEvent` unlocks before it closes it) still has one without an entry.

`LeastIsOne` (the lowest free descriptor is a free one) is the only fact about data.

`StopWaitsCorrect`, in the same module, is about the terminal, for any number of telnet clients. `TermInv`: what `stop()` has
joined has ended and does not start again, and a client's thread that runs is in `m_client_threads`, which
only the server's thread adds to. So when that one is joined, the joins that follow miss nobody.

**TcpRegistrarProofs.** `DeltasCompleteCorrect`, for any number of instances, connections and mishaps. What a
client knows is a fold over the changes it was sent, so the proof begins with lists: `LastDecides` (the last change
about an instance decides), `ApplyTwice` (two lists, one after the other, are their concatenation) and `ApplyOneKind`.
`Registers`, `Withdraws`, `Subscribes`, `Unsubscribes` and `Pops` say what each operation of the registry does to what is
sent. The invariant is `IInv == Typed /\ StepInv /\ UsedInv /\ (\A i \in Quiet : InstanceOK(i)) /\ AnswerInv /\ KnowInv`,
where `Quiet` are the instances that have had none of the mishaps that `disturbed` names (claim 3 is
such a mishap: with a lapsed lease the property is false):

- `MapsOK`: the three maps agree on an instance, its connection is open or its end is being handled, and
  its slot for changes lives as long as a map names it;
- `RegisteredOK`: a registered instance has a mapped open connection, or the handler is about to map it;
- `HandledOK`: what is known at each step of `handle_regist` and the renewal of the instance they serve;
- `AnswerInv`: between `pop_deltas` and the answer nobody is registered, as both are on the accept thread;
- `KnowInv` is the property with the changes that were popped and are not yet answered.

**CoreProofs, the application.** `TimerOutlivesCorrect`, for any number of signals, commands and edits. `TimerOutlives` compares the timer
with three threads at once; the inductive invariant relates each of them to the main thread. `TimerInv`: the timer
exists from the end of `initialize` to the destructor. `TickInv`: ticks run only until their join. `StdioInv`: the terminal
runs until `stop()` of it, and its thread reads and executes commands only while it runs or is joined. So
a reload from the terminal after `exit` (which skips the join) is impossible, because nothing is read then. `SigKept`
and `CfgKept` are the types of the two modules below, and `StepsBelow` says that every step is one of theirs.

**SocketsProofs.** `DeliveredCorrect`, for packets of any lengths, any number of senders and any sizes of socket,
ring and read (`RoomAssumption`, that the ring holds any packet, is for `Arrives` only: a full ring ends the connection).
While no packet is sent over another (`~overlap`) the inductive invariant has four
parts. `Written`: between the write of the last unit and `clear()` the buffer is there, and nothing of it is left. `OneLeft`: what `sendmsg` left of a packet is in one place, a sender's own or the send buffer. `GotInv`: what came
out is the first packets that were sent. `FlowInv`: ring, socket, buffer and the sender's rest, in this order, hold the
units that follow them, up to the last packet sent. `AreUnits` describes these by their first unit, their last
and the successor `After`, so that nothing is proved by induction over a fold. `Move` covers the steps that
carry units over a boundary (`write`, `read`, saving a rest), `AppendUnits` sending a packet, and `HeaderFirst` and `DropUnits`
parsing one: the ring always begins with a header, and `FrontUnits` (by the least counterexample) says that the
units after it are the packet's.

`ListedCorrect`, for any number of connections, sessions and descriptors, is the invariant of the two listeners.
`WsHands`: a thread between the steps of `acceptLoop` or `removeConn` (`WsOwnSteps`) is the only one that
knows its connection, which is in no table and not told; before `close()` the descriptor is still that connection's. Hence
closing takes no descriptor from another, even when `removeConn` was called for a descriptor that has changed
hands. `WsMaps` adds to `MapsTrue` that a descriptor in `fd_to_conn_` is the connection's own, `WsOld` what is known of
numbers given out. `WsParses` counts a message when its last unit is parsed (`WsStream`). `KcpInv` is the same for the KCP
listener, whose tables change under `mu_` but whose ends are told outside it (`KcpHand`).

`NodeTypeCorrect`, in the same module, is about a node's link to the centre, for any number of instances, tasks and
connections. `NodeTypeOK` says besides the types that `start()` replaces no event thread nobody has joined, and that a
sender is refused what it has picked by name only when the tables were being replaced as it loaded the names, or have been
since. It cannot be that the tables differ only between two stores: the sender has loaded one long before the other. Its invariant is `TasksInv`, `ClientInv` and `StartInv` (the timer's
thread has joined the event thread before it closes the connection, so the `start()` that follows replaces none), `LinkInv`
(the centre knows a connection only while it is up, and each was made together with a heartbeat task), `TablesInv` (outside
a pair of stores the two tables are the same) and `SenderInv`, which rests on it.
The attempt corrected the model: a status request over a link that had fallen silent was
blocked, while the code's `send` succeeds into the socket's buffer.

**MigrationEngineProofs.** `NoGapCorrect` and `ConvergedCorrect`, for any files, statements and column names, any
number of engines, kills and lost connections, from `VersionAssumption`, `BodiesAssumption` and `FirstDirsAssumption`. The second includes
the types. `IInv == DataTyped /\ EnginesTyped /\ TableInv /\ AloneInv /\ EngineInv` is enough for `NoGap`, which is not
inductive: `FilesOK` says that a file an engine has found is recorded or still to do, and that those are in order, and `AloneInv` that
nothing that deletes records runs beside a migration.

`Converged` needs `MigInv == IInv /\ (disturbed \/ HalfInv)`. After a kill the database is no state of the replay: the next run
starts again from the first statement, over columns that later statements have already added and without the rows that
were not committed. `HalfInv` says that one file is half done, and `HalfDone` that there is a furthest statement `m`
any run of it has reached; `Agree(E, S, k, m, d)` compares the database `d`, `k` statements into a run, with the
stages `E` of the replay, table by table: a table dropped on the way is as it should be, every other as it was left at `m` but for what has been put
in anew. `AgreeNext` carries this over one statement that is repeated, `AgreeMore` over one that is new,
`AgreeFirst` and `AgreeBack` over a restart, and `AgreeFull` says that at `m` nothing differs, so neither does it at the end of the file. `OneGrows` and `Grows`: a table
that is not dropped stays, with its rows.

Data first: `Flattened` and `Kept` (what `Keep` selects, in order), `StagesIs` (the recursive function
`Stages` is well defined) and `BodiesTyped` (what a file becomes is a sequence of statements) by `SetInduction`. The proof attempt corrected
the model: the property had excused an edited half-done file only, and a file V2 that is cut, followed by a V1 that arrives with a merge and
runs first, then breaks it as well. `disturbed` now says so, that is, when anything is executed while
another file, or another content of the file, is half done.

*Load balancers.* The last part of the module proves `SharesCorrect`, from `BalancerAssumption`: finitely many instances, weights
that are natural numbers, and a `Cycle` that every length `idx_` is divided by divides (the code's counter wraps
at 2^64 instead, where a turn may be uneven once; the model leaves that out). A sum of weights is a number of pairs, so that
`SumSplit`, `SumScaled`, `SumMore` and `SumEqual` are facts about finite sets. The invariant is
`BalInv == policy \in Rotating => BalTypes /\ RingInv /\ SmoothInv`:

- `RingInv`, for the two that go round a ring: the picks of the turn are the last places of it (`Visited`), and once round
  gives each instance its share (`RingIs`, with `WheelIs` for the wheel of the weights);
- `SmoothInv`: as long as nothing has changed a weight, or come or gone at the wrong time (`even`), what the balancer keeps of
  a node's weight is what it weighs; what a node is owed is its weight for every pick less the whole turn for each of its own, and
  it never owes a whole turn, as the best of those that gained has gained something (`BestIsOwed`). After a turn no node
  therefore has more than its weight, and as the sums are equal none has less.

**Model-checked only.** `SetGet`, which follows a path of any length down a
document by folds. And
all liveness: `YieldReturns`, `ClosedForgotten`, `Forgotten`, `Completes`, `StopEnds`, `ReloadsHappen`, `Served`,
`Rejoins`, `Discovered`, `Arrives` and `ListenersServe`. No module with a theorem has a RECURSIVE operator.

## 7. What is not modelled

- **Ring:** `TryPush`, `TryPop` and the moves (no caller). **Slab:** failure of `mmap`, `Size`,
  statistics.
- **Scheduler:** `yield` without a timeout or outside a task (no caller), `start()` and `stop()`, `tick()`.
- **Forwarding between services** (`BusClientNet`, `BusdNet`, the rest of `IBus`): it does not work at this
  commit, and a model of it would have nothing to say. The registrar's answers do not carry the name of a
  ring (`TcpRegistrar.cpp:209`), so none is opened; `Reply` sends to `src_name_`, which nobody
  fills in (`IBus.cpp:236`, `AccountService.cpp:108`), with a type and a `co_id` of 0 that no waiting
  request has; `BusdService` drops messages from other machines; `SendToNode` never sets `dst_`; a block is
  freed by the receiver and the forwarder (`IBus.cpp:327`). In `ConndClient` this shows as
  `applyToken` that is never answered.
- **Routing:** an instance that registers and leaves between two answers stays in the tables
  (`IBusNet.cpp:165`, the changes are applied by kind and not in order); a new balancer is made for each message
  (`IBusNet.cpp:233`), so that rotating ones always pick the first. `LoadBalancer` models one that is kept.
- **Hash map and epochs:** nothing uses them, and the constructor overwrites the header of the slab
  (`shm_hashmap.cpp:98`), after which nothing can be stored.
- **Listeners:** `WsListener::stop` (it does not close the connections, though `IListener.h:36` says so) and
  `HEARTBEAT_TIMEOUT_SEC`, which is unused; the bytes of a WebSocket frame; retransmission of KCP; malformed
  TCP headers; `TcpServer::stop`. **Timer:** `cancel`, `runAfter` (no caller).
- **connd:** the forwarding of client messages, which changes nothing in connd; the mutex `conn_mutex_` of the
  TCP server there (held over callbacks that take only the session lock: it delays steps and
  forbids none).
- **Database proxy:** `shutdown` (`MySQLConnectionPool.cpp:159`), the rows of a result, and the start-up,
  where handlers are registered before the bus has a dispatcher (`DBProxyService.h:51`).
- **JWT:** `nbf`, the hash itself, and what becomes of an account with characters JSON gives a meaning: `signJwt` does not escape
  them, and `parsePayload` leaves open what is read back. The properties say nothing of such an account.
- **Settings:** merging and listing, the values and widths of numbers. `config set` answers "updated" also when
  `setValue` failed, and stores a string whatever was there.
- **Client:** frames that arrive in part, the automatic test, the prompt. **Migration tool:** `status` and
  `verify`, which only read. **Signals:** helpers without a caller (`SignalHandler.cpp:291` and after).
- **No state or no use:** the message dispatch table, the logic handlers, the HTTP server (not
  started), `JsonConfig`, the slab templates; vendored or generated code (`ikcp`, `tinyxml2`, `pb`); the
  tables `kssMsgNameToId` and `kcsMsgNameToId`, which are generated outside the repository.

**Details left out of what is modelled**, each with the reason:

- *Steps taken together.* `CoroutineScheduler.WorkerAfter` is `CoroutineScheduler.cpp:237-247` in one: only a worker looks at either
  container there, and a second erase of a task does nothing. `TcpRegistrar.Respond` takes several short locks: the heartbeat timer may remove the
  connection before or after them, not in between. `ConndMsgDispatcher.Kick` has the two locks of `WsListener::close_conn` in one; `WsListener`
  has them apart. `MigrationEngine.Check` reads the directory and compares checksums in one step: with one edit, an edit between
  them is one before or after. `TcpClient.Connect` sets `conn_`, starts the thread and adds the task: all on the thread that called
  `start()`; a connection that is lost in between is lost a step later. `IApp.DeleteTimer` includes the join of the timer's
  worker; that `Timer::shutdown` notifies without its lock, so that the worker may sleep on until its next
  task is due, or for ever without one, is not in the model. `TcpServer.onReadable` reads with the descriptor as it is then: `TcpConnection.cpp:35` copies `fd_`
  without a lock, and a read through a number that changes hands between the copy and `read()` is left out.
- *Branches.* `TcpConnection.SendMsg` has no error of `sendmsg` (`TcpConnection.cpp:151-155`, it ends the connection; `TcpServer` has the
  close that follows, and its self-lock). For the same reason `ConndMsgDispatcher.Reply` over TCP never fails. `TcpServer.Dispatch` leaves
  out lines 233-241, an id without a connection, which `MapsAgree` shows cannot be reached. `WsListener.Read` gives nothing for a
  descriptor that has changed hands, where `read` at line 204 could take the bytes of its new owner, and `WsListener.Add` does not
  add such a descriptor to epoll. `KcpListener.ioLoop` does not end on an error of `recvfrom` (113-117). `TcpClient.Receive` handles or drops
  what was read before the end of the stream is acted on, where the code calls `stop()` first: both orders end with the connection
  closed. `SQLGenerator.Fails` has the server errors the statements of the tests and files can meet, not all there are.
  `JsonParser` sets strings and lists: the setters for numbers and booleans differ in the leaf only. An
  index is a small number: a huge one extends an array until memory is used up, a negative one becomes one.

## 8. What could come next

- The forwarding between services and the hash map, once they work.
- When the code is corrected, the claims of section 3 as runs that pass: `NoLostTask` and `YieldReturns` for several requests (after
  `resume()`), `StaysKnown` (after the merge of answers), `PoolClean` (after `finalize`), `HandlersReturn`, `Answers`, `OnTarget` and `RestIsSent` (after the sockets).
- `TcpServer::stop`, `Timer::cancel` and the pool's `shutdown`: the end of a process, which only `IApp` models now.
