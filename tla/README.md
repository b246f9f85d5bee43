# A TLA+ verification of global_server_fk

`global_server_fk` (`src/fk`) is a framework for game servers and the servers
built on it: connection servers (`connsvr`) accept clients and register with
routers (`routersvr`), routers pass messages between the servers of a zone, and
transfer servers (`transfersvr`) pass them between zones.  All share a server
base (`commonlib`) and a library (`slience`) with sockets, timers and coroutines.

This directory holds TLA+ modules translated from that source, TLC
configurations for small instances of them, and proofs that TLAPS checks for
every instance.  `PROJECT.json` lists the runs, the mutants that show each property can
fail, which source lines each definition stands for, the findings, the hazards
and the theorems.

## 1. Inventory

A server process has one **main thread** (`ApplicationBase::Run`), several **io
threads** (`_svr_thread_cnt`, four by default, `ApplicationBase.cpp:23`), and
**database threads**.  The main thread loops: consume network messages, update
the timers, pick database responses.  Each of those may start or resume a
*transaction*, whose `OnRequest` runs in a coroutine on the same thread.

| Component | State | Operations | Talks to | Hard behaviour | What makes it correct |
|---|---|---|---|---|---|
| Transactions `commonlib/transaction` | active map, pools, id generator, per object id, random, response pointers | CreateTransaction, ProcessFrame, ProcessMysqlRsp, ProcessRedisRsp, TimerCallback, Wait, SendMsg..., MysqlQuery, RedisExecute | called by the main loop; calls timers, router connections, database threads | objects are reused, timers never cancelled, answers late | no event reaches the wrong transaction; pool and map agree; every wait ends |
| Timers `slience/base/time_pool` | wheel of buckets, cursor, next id | AddTimer, CancelTimer, Update | callbacks resume transactions | callbacks add timers in mid-sweep; the wheel turns over | each timer called back once, in order, on time |
| Database threads `commonlib/async` | a queue per worker, one response queue | Init, AddRequest, run, Pick | main thread | one condition variable for both sides, notify after unlock, full queues | nothing lost, order kept, nobody waits for ever |
| Network handler `commonlib/net_handler` | message lists, tables by descriptor | OnConnected, OnReceiveData, OnDisconnected, Consum..., CheckTcpSocketExpire, SendDataByFd, CloseFd | io threads push, main thread consumes | descriptors are reused | messages of a socket in order, contexts match connections |
| TCP sockets `slience/netio` | two send buffers, flags, receive buffer | SendPacket, Close, write and read handler, packet reassembly | any thread calls, io threads complete | buffers swapped under way, close during a write | the stream is intact, closes happen once and drained |
| Io service `slience/socket` | epoll sets, close requests | Accept, Connect, AsyncSend/Recv, Close | kernel | close before the socket has an epoll | every close is carried out |
| Registration `router_mgr`, `connsvr/transaction`, `routersvr/transaction`, `server_instance_mgr` | configured routers and their fds; the router's instances | Reload, ConnectRouters, TransClientIn/Out, TransRegisterServer, Login/LogoutInstance | two processes over TCP | cuts, restarts, retries, late messages | routes point to living connections; registration succeeds in the end |
| Router forwarding `routersvr` | policies, instances, transfers | RouterPolicy, ForwardPkg, transfer connections | all servers | choice of instance, stale fds | a message reaches the addressed instance or is reported |
| Transfer server `transfersvr` | routers, transfers, user logins | OnProc, ConnectTransfers, Tick | routers, other transfers | registration, listen types; forwarding is not written yet | a router that registers is registered |
| Coroutines `slience/coroutine` | coroutine and task pools, resume lists | create, resume, yield, doTask, addResume, resumeTask, clrTask | transactions, io threads | reuse of ids and wrappers, resumes from other threads | a resume reaches the task it is meant for |
| Server agent `server_agent` | instances, their scripts | OnProc, CheckAlive, AddInstance | shell | restarts | one instance per entry |
| Base utilities, logger, HTTP, synccall, Windows io, protocol and table generators, vendored code | | | | | not modelled, see section 7 |

The hazards, each at its line and with the properties that would catch it, are
in `PROJECT.json`.

## 2. Modules

| Module | Models | Source |
|---|---|---|
| `TransactionMgr` | transactions and the main loop that drives them | `base_transaction.{h,cpp}`, `transaction_mgr.{h,cpp}`, `ApplicationBaseExt.cpp` |
| `MCTransactionMgr` | a constraint for TLC: commands are interchangeable | |
| `TimerPool` | the timing wheel | `time_pool.cpp` |
| `AsyncMysqlMgr` | the database threads; `async_redis_mgr.cpp` is the same code | `async_mysql_mgr.cpp`, `condition.cpp` |
| `OrderedService` | abstract: requests answered once, in order per lane | |
| `NetIoHandler` | accepted sockets from the io threads to the main thread | `base_net_handler.cpp`, `net_handler.cpp`, parts of `ioaccess.ipp`, `tcp_socket.cpp`, `tcp_stream_socket.hpp` |
| `TcpBaseSocket` | the send side of a socket and its close | `tcp_base_socket.hpp` |
| `TcpStreamSocket` | a connection from `SendPacket` of one end to `OnReceiveData` of the other; extends `TcpBaseSocket` | `tcp_stream_socket.hpp`, `buffer.cpp` |
| `PacketStream` | abstract: packets come out whole, once, in order | |
| `CoroutineTask` | coroutines, and the tasks that run in them | `coroutine.cpp`, `coroutine_linux.cpp`, `courtouine_task.cpp` |
| `Tasks` | abstract: tasks that begin, wait, go on and end | |
| `Registration` | a server and its router, or a router and its transfer | `router_mgr.cpp`, `connsvr/` and `routersvr/transaction/trans_application.cpp`, `server_instance_mgr.cpp`, `transfer_mgr.cpp` |
| `MCRegistration` | symmetry of descriptors for TLC | |
| `RouterForward` | the router's tables and what it passes on | `router_svr.cpp`, `server_instance_mgr.cpp`, `server_instance_info.h`, `transfer_mgr.cpp` |
| `MCRouterForward` | servers, policies, symmetry and constraints for TLC | |
| `TransactionMgrProofs`, `TimerPoolProofs`, `AsyncMysqlMgrProofs`, `NetIoHandlerProofs`, `TcpStreamSocketProofs`, `CoroutineTaskProofs`, `RegistrationProofs`, `RouterForwardProofs` | the theorems about the module they are named for, and that of `TcpStreamSocketProofs` also about `TcpBaseSocket` (section 5) | |

In every module the variables carry the names of the members they stand for,
without the leading underscore, and the actions those of the methods.  A
variable marked "history" has no counterpart in the code: properties use it, or
it counts against a bound, and no action of the system depends on it otherwise.

**TransactionMgr.**  `running` is the transaction whose coroutine has the main
thread; the main loop steps only while there is none, as in the code, where a
resume returns only when the coroutine yields or ends.  `OnRequest` is arbitrary:
any sequence of one-way and two-way messages, queries and waits, up to
`MaxCalls`.  The timer pool appears as a set, with one detail kept: adding a timer
may fail silently (see the finding on `AddTimer`), which `unguarded` records.
Answers may arrive at any time, in any order, or never, also when the transaction
has long gone.  The random an answer carries is its request's only while its responder has
not waited: the reply takes that of `cur_frame()` (`base_transaction.h:239`), the last frame
the responder was resumed by.  A request may therefore be `nested`, and then be answered with
any random.  `SetTimer` loses the id, so no timer is ever cancelled.

**TimerPool.**  `Update` is several steps, one per bucket and per callback,
because callbacks may add timers in between.  The clock advances freely between
the steps, and `Update` works with the time it was called with.  The first
`Update` after the wheel has started over sweeps nothing: `skipped` holds the
nodes that were due then, which are the only ones the properties except.

**AsyncMysqlMgr.**  Locked sections are one step; the unlock, the notify and the
processing of a request are separate.  `wait` releases the lock, returns for a
notify or, up to `MaxSpurious` times, for nothing.  The wait is guarded by
an `if`, not a loop, so a queue may grow past its limit by one; `QueueBound`
says so precisely.  (The comment on `AddRequest` suggests the limit is strict.)
It implements `OrderedService`: a lane there is a worker, what it is asked lies in
the worker's hand and queue, and the answers are those picked followed by those in the response
queue.  A worker answers by pushing its response; the main loop's `Pick` only
moves a response along and is a stutter.

**NetIoHandler.**  `close()` and the push of `OUT` are two steps of an io
thread, as are the push of `IN` and joining an epoll; everything the operating
system may do with a free descriptor happens in between.  A socket the main thread closes
before it has joined an epoll is `"lost"`: its descriptor is closed on the spot, nobody
is told, and its context stays.  `crossed` holds the sockets that shared a descriptor in
the wrong order, that is where one was announced before the end of the other was pushed.
`IsConnected` is true from the announcement on, so the expiry check and `CloseFd` reach a
socket in every state.

**TcpBaseSocket, TcpStreamSocket.**  All operations of the sender hold
`_writer.lock` and are one step each; a round of the loop of `_CutMsgPack` is a
step of the receiver.  Bytes are numbered, so order, loss and duplication
are visible; a header is recognised by being the right bytes.  A read may end
anywhere, and `torn` records whether one has ended inside a header or a body: the
code handles whole packets right, a torn header so that at least the frames stay
in step, and a torn body not at all (see the findings).  A read may also fail at any moment,
or not be begun (`ReadFails`), which closes the receiver and which `rfailed` records.  What `_CutMsgPack`
then does with bytes that are no header, or with a buffer that has moved under
the pointer `header`, is left open.  Until a read tears a packet the connection
implements `PacketStream`.

**CoroutineTask.**  A task that yields leaves the id of its coroutine with whoever
is to resume it (`owed`), and that may be done by the thread itself or by another
one through `addResume`.  Two misuses are included, since the code around allows
them: a resume asked for twice (`synccall`'s handlers read the id without the lock) and
`clrTask`, which forgets to empty `gfreecovec`.  What holds only without them is
conditioned on `Broken`; `IdsExact` holds with them too.  The module implements `Tasks`.

**Registration.**  Two processes, a sequence of connections that are numbered as they are
made, and per connection two channels.  A cut keeps a prefix of what was under way; either
process may crash and start again.  The transaction part is the loop of `SendRegistCmd`
with its timeouts and `_req_random`; `"spin"` is the state of a main thread that never
leaves that loop again.  Connector events are delivered in order; their own races are
`NetIoHandler`'s subject.  A reload may take the router out of the configuration and
another may bring it back; `removed` remembers the first.  `ConnectOne` begins an attempt,
of which the server will hear, or none at all: `AsyncConnect` may fail at once and call nobody,
and `silent` says that it has.  With `KeepsBuffer` the module
is a router that registers with a transfer server, whose `TransferMgr` sends from a member
it never clears.

**RouterForward.**  The table by `type_inst`, whose entries of a type share one
`InstContainer`; the key is computed as in the code, so an instance id of `IdWidth`
(1024) or more meets the entry of the next type (`Aliased`).  `online`
is not kept: nobody reads it.  A registration is one step here; `Registration` is
about how it comes about.  A router has several io threads, so a descriptor may be announced
again before the end of its last connection (`NetIoHandler`): the table refuses the new
connection, which becomes a `stray` whose packets count for the context under its
descriptor and whose end erases that context.  `reused` holds the descriptors to which that
has happened.  `sent` is what the last frame led to: whom it was handed to (`over`), and
which of those refused it, because they are closing or their buffer is full (`full`).

The modules meet as follows.  `TimerPool` is the pool `TransactionMgr` keeps as a set:
`Accounted`, `AheadOfSweep` and `CallbackOrder` are what justifies that set and its fairness
within a turn of the wheel.  `AsyncMysqlMgr` is what `TransactionMgr` sees as `queries`:
`ImplementsService` justifies that each is answered at most once.  `CoroutineTask`
gives `TransactionMgr` its `running` and its resumes by id.  `TcpStreamSocket` gives
`Registration` its in-order channels as long as no packet is torn, `NetIoHandler`
its "OUT after the data", and `Registration` gives `RouterForward` its registrations
over living connections.

## 3. Runs

All passing runs end without deadlock checking: a server may rest when nobody
asks anything of it, and the bounds stop every model in the end.

| Run | Instance | Shows |
|---|---|---|
| `trans` | 3 objects, 2 commands, limit 1, 3 ids, 2 calls of the first transaction and 1 of the second, 2 randoms, nested responders; fair | active map, pools, addressing, the concurrency limit, guarded waits; a two-way call is resumed by its own answer or one with its random; every guarded wait ends |
| `timer_turns` | 3 buckets of 2 ms, 3 timers, clock to 11 ms: two turns | no timer lost, doubled, early, late or out of order, but for those due when the wheel starts over |
| `timer_samems` (violation) | 3 buckets, 2 timers | the second timer of a millisecond is never called |
| `async` | 2 workers, 3 requests of any order id, queue of 1, 1 spurious wakeup; fair | implements `OrderedService`; queue bound; every request is answered |
| `net` | 3 connections, 1 descriptor, 2 io threads, list of 2; fair | order per socket; no context outlives its connection; packets and ends find their own context unless descriptors crossed; closes are carried out |
| `net_bug` (violation) | 2 connections, 1 descriptor, 2 io threads | an `OUT` finds no context: the "big bug" line is written |
| `channel` | up to 3 packets of 0 to 4 bytes and headers of 2, 10 bytes in all, limits 6 and 7, read buffer of 6, read errors; fair | implements `PacketStream`; the stream, the close and its notification; everything arrives |
| `channel_split` (violation) | packets of 3 bytes in reads of any length | a packet in two reads is handed on with its header, without its end |
| `coroutine` | 4 tasks, 2 coroutines kept, 3 yields, 1 doubled resume, 1 `clrTask`; fair | implements `Tasks`; ids, wrappers and resumes agree |
| `reg` | up to 3 connections, 2 descriptors, one cut or refusal, one restart of each side, two reloads, one early timeout, attempts that fail at once | routes, registrations and connections agree |
| `reg_transfer` (violation) | 1 connection, 2 randoms, one early timeout; fair | with a buffer that is never cleared the registration may never succeed (with `KeepsBuffer = FALSE` the same instance passes) |
| `router` | 2 servers of one type, 1 of another, 2 descriptors, 1 stray connection at a time, 2 transfers, 2 configurations, 1 reload | frames reach whom they are for, also with reused descriptors; policies; users under MOD stay where they are |

**Why the bounds are enough.**  Each is chosen so that the case at issue happens
with something to spare.  Three transactions of two commands let an object be
recycled, for the same command only, while another is active at the limit.  Two calls and
two randoms let a late answer meet the next call, with its random or another one.  Three buckets and three timers let a callback add a timer
before, in and behind the bucket being swept, in either turn.  A queue of one is full after one
request.  Three connections on one descriptor, with two io threads, let a
descriptor be announced again before the end of its last connection, and a third connection
meet what that has left.  Packets with no body, one byte and as many as fit meet writes and reads of
any length, so that every header and body is torn at every place.  Four tasks in two
kept coroutines let one coroutine be kept, one end, and an id and a wrapper
be used again while an older task still waits.  Three connections of one server let the
router hear of an old, a current and a new one; two reloads take the router out of the
configuration and bring it back.  Three servers on two descriptors let a
descriptor pass from one server to another of the same and of another type, and be announced
to one while the other still has it.
Every bound is a constant named in its module.

**Symmetry and constraints.**  Descriptors are interchangeable in `Registration` and
`RouterForward`, and no liveness property is checked there.  `trans` checks one, so commands,
which are interchangeable too, are reduced by a constraint instead: the first transaction is
of the first command.  `RouterForward.cfg` has two constraints.
`Fresh`: no action reads `sent`, so what can follow a frame can follow where there was none, and
only states without a frame have successors; those after a frame are checked all the same.
`Explored`: servers and transfers share no variable but `sent`, so states in which both
sides are in motion are products of states that are explored; little is said of the
servers once every descriptor has been announced twice; and reloads and reused descriptors
are explored one at a time.  An instance id of `IdWidth` or more (`Aliased`) is not among the
servers of the run: nothing is said of what follows it.  The theorems need none of these
restrictions.

**Abstract specifications.**  `ImplementsService`, `ImplementsStream` and `ImplementsTasks`
are refinements: the abstract module is instantiated with a mapping, and its
`Spec` is a property of the run.

**Type invariants.**  Every module of a component states its types (`TypeOK`,
`StreamTypeOK`), and all of them are proved, as a conjunct of the inductive invariants of
section 5.  Only `trans` also checks them.

**Mutants.**  Each property of each passing run has a mutant in `PROJECT.json`:
a definition (`X_Forgotten`, `X_Never`...) beside the one it replaces, which
changes the code the way a slip would, and makes TLC report that property.

## 4. Fairness

- `TransactionMgr`: weak fairness of the running coroutine (nothing preempts it)
  and strong fairness of the timers of an id.  The main loop calls `Update` in
  every round, but a timer can only be called back while no coroutine runs, a
  condition that comes and goes; the loop reaches it every time.  No fairness
  is assumed of answers.
- `AsyncMysqlMgr`: every thread is scheduled, and the main loop picks.  No request need come.
- `NetIoHandler`: io threads finish what they are at and serve close requests;
  the main loop consumes.  Neither clients nor packets need come.
- `TcpStreamSocket`: a write operation ends, with an error if need be, and the io
  thread of the receiver reads what has come.  Nobody need send or close.
- `CoroutineTask`: a task that runs yields or ends; the io loop calls `resumeTask` in every
  round (strong fairness, since it does nothing inside a coroutine) and goes
  through its list.  Nobody need ask for a resume.
- `Registration` (run `reg_transfer`): both processes go on, an attempt that was begun is accepted
  in the end, and the router's configuration is corrected in the end.

`TimerPool` and `RouterForward` have no liveness property: `AheadOfSweep` says what a
call of `Update` owes, and a frame is passed on or dropped in one step.

## 5. Proofs

Every safety invariant, every action property and every refinement that a passing run checks is
also a theorem, for all values of the constants that satisfy the module's assumptions.
These only say what the constants are: null values are none of the values, sizes and
bounds are natural numbers, and what would be zero in no build (the number of workers, the
width of a bucket, the length of a header) is not zero.  No theorem assumes anything else; in particular there
may be any number of io threads.

| Module | Theorem | States |
|---|---|---|
| `TransactionMgrProofs` | `TypeCorrect` | `Spec => []TypeOK` |
| | `ActiveMapIsExact` | `Spec => []ActiveMapExact` |
| | `PoolsAreExact` | `Spec => []PoolExact` |
| | `NoCrossDelivery` | `Spec => []EventsBelong` |
| | `Concurrency` | `Spec => []ConcurrencyBound` |
| | `WaitsAreGuarded` | `Spec => []WaitGuarded` |
| | `AnswersAreOwn` | `Spec => OwnAnswer` |
| `TimerPoolProofs` | `TimersAccounted`, `SweepMissesNone` | `Spec => []Accounted`, `Spec => []AheadOfSweep` |
| | `CallbacksInOrder` | `Spec => CallbackOrder` |
| `AsyncMysqlMgrProofs` | `QueuesAreBounded` | `Spec => []QueueBound` |
| | `ThreadsImplementService` | `Spec => ImplementsService` |
| `NetIoHandlerProofs` | `OrderPerSocket`, `NoContextLeft` | `Spec => []SocketOrder`, `Spec => []EntryRemoved` |
| | `EachFindsItsOwn` | `Spec => []OwnContext` |
| `TcpStreamSocketProofs` | `SendSafety` | `StreamIntact`, `NoStranded`, `CloseDrains`, `DisconnectOnce` of `TcpBaseSocket` alone |
| | `ChannelSendSafety` | the same with the receiver composed |
| | `ChannelTypes`, `HeadersMayTear` | `StreamSpec => []StreamTypeOK`, `StreamSpec => []FramesInSync` |
| | `ChannelImplementsStream` | `StreamSpec => ImplementsStream` |
| `CoroutineTaskProofs` | `IdsAreExact`, `KeptAreUsable`, `ResumesReachTheirTasks` | `Spec => []IdsExact`, `[]KeptUsable`, `[]ResumeReachesTask` |
| | `CoroutinesImplementTasks` | `Spec => ImplementsTasks` |
| `RegistrationProofs` | `NoRouteIsDead`, `RegistrationsStay`, `LinkIsOne` | `Spec => []NoDeadRoute`, `[]RegisteredIsRouted`, `[]OneLink` |
| `RouterForwardProofs` | `RouterTypes` | `Spec => []TypeOK` |
| | `OnlyTheRightServer`, `EveryRightServer` | `Spec => []RightServer`, `Spec => []Reaches` |
| | `PolicyDecides`, `TransferOfUser` | `Spec => []ByPolicy`, `Spec => []TransferReached` |
| | `UsersStay` | `Spec => PlacementStable` |

Hardly any of these properties is inductive as it stands.  What each module adds, and why:

**TransactionMgrProofs.**  With `EventsBelong` alone a new transaction could be given the id of a
late event, or an object be handed out while it is still in use.  `IInv`
adds that every id in use or under way lies below the generator
(`IdsBelowGenerator`) and that an object in use was made by a bucket (`InUse`), and
takes `ActiveMapExact`, `PoolExact` and the types along, since each needs the
others: an object leaves a pool only because it is in no map, and so on.  The
steps split by action: most leave map, pools and ids alone (`QuietStep`), and the
two that do not, `NewTransaction` and `Finish`, have lemmas of their own.
`Concurrency` needs that the map is finite.  `WInv` adds for the last two theorems `WaitGuarded`,
that a two-way call awaits a random (`RandomAwaited`), and that what is on its way to an active
transaction was caused by an earlier call of it (`CausedEarlier`, which rests on `EventsBelong`);
`OwnAnswer` then comes down to what `Accepts` compares: the answer of a responder that has not
waited has its request's random.

**TimerPoolProofs.**  `WheelInv` says where a node may be (`Filed`: in the bucket of its
expiry; `Listed`: on the list of the sweep only when due), that the cursor and the time of
the last `Update` agree (`InStep`), and that what an earlier turn left behind was skipped
(`ThisTurn`).  `AheadOfSweep` then comes down to arithmetic: within a turn buckets are in
the order of times (`SameTurn`, from four lemmas about division), so a due node lies
between the cursor and the end of the sweep.  The one step where that fails, the start of
an `Update` after the wheel has turned over, is the step that fills `skipped`.

**AsyncMysqlMgrProofs.**  `Slack` bounds not the length of a queue but its length with the
worker's coming notify and the main thread's unchecked push, because those are what a
spurious wakeup can add up.  `Numbered` keeps requests apart for the refinement: an answer
already given cannot be among those still asked.  The refinement has a lemma per action
that is not a stutter (`PushAsks`, `ProcessAnswers`).

**NetIoHandlerProofs.**  `NetInv` is about the messages still to be applied, those of the
main thread's list followed by those of the io threads': a message names a socket that was
announced, an entry is filed under its descriptor with its `IN` behind it, and of a closed
socket the last message is its `OUT`.  Every io thread step pushes one message and every
main thread step pops one, or neither, so a few lemmas cover all.  `OneInv` is about the
sockets that did not cross (`Apart`): of two such sockets with one descriptor the end of one is
known, or nothing of it is left that should end (`OneOpen`, `Settled`), and in the list the `OUT` of the first
lies between their messages (`Separated`, `Emptied`).  A lost socket has no `OUT`, so
`Early` and `Known` say that it has no other message than its `IN` either.  An `IN` that
meets a context keeps the invariant because both sockets have crossed.

**TcpStreamSocketProofs.**  The send side needs that a closed socket is not writing and
that a drained close leaves nothing behind (`SendInv`).  It is proved for packets of every
length and used twice, alone and as half of the connection.  The receiver's `InSync`
places it in the stream: what `msgbuffer` holds is the start of the next packet, at most a
header, and what is left in the read buffer follows.  `Layout` says that packets cover the
stream without gaps, and `LastRead` ties `torn` to where the last read ended; together
they show that a round of `_CutMsgPack` finds the next header.  While no packet is torn
`Whole` gives the refinement of `PacketStream`.

**CoroutineTaskProofs.**  `CoInv` holds however resumes are used: ids are exact, wrappers
and coroutines point to each other somehow (`Placed`), and there is memory for every task
(`Supply`). `RuleInv` is what doubled resumes and `clrTask` destroy, so it is conditioned
on `Broken`: wrappers and coroutines are in pairs, a kept wrapper is idle, a left id is in
one place and reaches its task (`Sound`), and no task is in two places (`Single`), without
which a task could end twice in the refinement.  A resume may start a task, go on with one
or drop one; each of these is proved once and used for the four ways to get there.

**RegistrationProofs.**  `NoDeadRoute` is nearly inductive.  `OneLink` needs that the
connections made are the first few numbers (`Prefix`), what the ends know of each other
(`Ends`), and that the router stays configured until a reload takes it out (`OneLive`). `RegisteredIsRouted` needs that nothing is said on a connection before both ends
have it (`Unheard`), that no request is under way on one that was cut (`Quiet`, which is
what `late` means), and must already hold while the accepting answer is on its way
(`Routed`).

**RouterForwardProofs.**  `Entries` and `Containers` say what the tables are in terms of
who has registered (`seen`) and from where (`home`), and rest on `KeyInjective`, that keys
of ids below `IdWidth` do not meet.  `History` says that where a server is at home it is
connected, unless the descriptor was announced twice, and that every stray connection has such a
descriptor; an entry may disagree with `home` for these only (`EntryOf`).  `Links` is about the transfers.  `SentNow` says
that the last frame went by the tables as they are, so the four invariants are statements
about one lookup (`ForwardExact`, `PolicyChoice`).

Only model-checked: the liveness properties (`WaitEnds`, `AllAnswered`, `CloseEnds`,
`AllArrive`, `CloseHappens`, `ResumedGoesOn`), since fairness is out of the prover's
reach; and the three runs that show a violation.

## 6. Findings

1. `TimerPool::AddTimer` drops the second timer of a millisecond but returns an
   id for it (`time_pool.cpp:120`, run `timer_samems`); a transaction whose timer
   this was may wait for ever.
2. `_CutMsgPack` hands a packet that came in more than one read on with its header
   and without its last bytes (`tcp_stream_socket.hpp:137`), after it has counted the
   bytes collected before twice (line 124); run `channel_split`.  A packet longer
   than the read buffer of 4096 bytes always comes in more than one read.
3. `TransferMgr::SendMsgToTransferByFd` never clears its buffer (`transfer_mgr.cpp:146`), so
   that each message is preceded by all earlier ones, of which the receiver reads
   the first; a registration whose first answer is late never succeeds (run `reg_transfer`).
   `TransferInstanceMgr` of `transfersvr` has the same text.

4. `_DoClose` closes a descriptor before it pushes `OUT` (`ioaccess.ipp:399`), so with several
   io threads, four by default, the descriptor is announced again first.  The table refuses the new connection
   or loses its context, packets reach the wrong one, and "this is a big bug" is logged
   (`net_handler.cpp:327`); run `net_bug`.  In `RouterForward` the same reuse may leave
   an entry with a descriptor that another server has by then, to which frames go: `reused`.
5. An `AsyncConnect` that fails at once calls nobody, and `ConnectOne` does not look at its error
   (`tcp_connector.cpp:43`, `netio.cpp:73`): the server then has neither a connection nor an
   attempt, and as the router stays in its configuration no reload makes one.
   `OneLink` (run `reg`) states it: `silent`.
6. `POLICY_RANDOM` always takes the instance with the smallest id
   (`server_instance_mgr.cpp:122`); the definition of the policies says it is random
   (`routersvr_config.proto:6`).  While that instance is offline the frames are dropped.  `ByPolicy` (run `router`) states it.

Met while modelling, and part of the models, where properties except them:

- `TimerPool::Update` skips the buckets between the cursor and the end of the wheel once a
  day (`time_pool.cpp:58`): `skipped`.
- A socket closed between `OnConnected` and `_TryRecvData` is closed on the spot, without its
  handler (`ioaccess.ipp:129`): no `OUT` follows, although `netio.hpp:88` promises
  OnConnected, OnReceiveData, OnDisconnected for every socket, and the context under its
  descriptor stays for good: `"lost"`, which `CloseEnds` excepts.
- A responder that waits before it answers, replies with the random of the answer it got
  (`base_transaction.h:239`), from a buffer that may be in use again.  The caller takes the
  reply for a late one and times out, or takes a late one of an earlier call for its own:
  `nested`, which `OwnAnswer` excepts.
- `SendDataByFd` reports success for a frame that `SendPacket` has refused
  (`net_handler.cpp:63`): `full`.
- When the connection to the router breaks during the registration, `SendRegistCmd` loops
  without giving the main thread back (`connsvr/transaction/trans_application.cpp:41`):
  `"spin"`.
- A request of an old connection that reaches the router after a new one has registered
  logs the old one in again, and its end then logs the server out: `late`.
- A router taken out of the configuration while the registration with it is in progress
  keeps its connection, since `info.fd` is still 0 (`router_mgr.cpp:124`).  When a second
  reload brings it back, the server connects again, and registers on both connections: the
  router's entry follows the second, while the server counts both as registered.  This was
  found in the attempt to prove `RegisteredIsRouted`, which now excepts it: `removed`.
- An instance id of 1024 or more takes the entry of the next server type
  (`server_instance_info.h:28`): `Aliased`.  The policy of a type is read at its first
  login only (`server_instance_mgr.cpp:34`): `repoliced`.
- The fd of a transfer stays when its connection breaks, and frames may go to the transfer
  that has the number by then (`transfer_mgr.cpp:115`): `broken`.
- A task resumed twice, or `clrTask`, leaves wrappers in `gfreecovec` that are freed or
  name coroutines that are gone (`courtouine_task.cpp:208` and `74`): `Broken`.
  `doTask(func, p)` inside a coroutine drops its task without a word (line 54): `dropped`.

Outside the models: `SendMsgToTransferByFd` puts `dst_trans_id` into the frame as the
destination instance (`transfer_mgr.cpp:136`); `OnProc` of `transfersvr` does not pass
`CMD_REGISETR_TRANSFER_REQ` on, so transfers never register with each other.

## 7. Not modelled

- The connector half of `NetIoHandler` beyond what `Registration` has of it: there, and for the
  transfers of `RouterForward`, a connector's descriptor is used again only after its end was
  announced.  The order of the expiry check (`net_handler.cpp:44`).
- That the main thread sends over a socket before it joins an epoll, which the first send then does for it
  (`NetIoHandler` has `TryRecvData` only).
- The run `router` has no instance id that is too large; the models and the theorems have.
- `ConnectTransfers` with a changed configuration: as `ConnectRouters` in `Registration`.
- Heartbeats: no receiver acts on them.
- Of the transfer server: forwarding, the mesh and the user logins, which the
  code does not have yet or never reaches; the listen type of accepted sockets (`netio.cpp:158`).
- The server agent: a sequential loop around shell scripts that are not in the repository.
- 32-bit wraps of the transaction id, and the cast of milliseconds to `int` after
  24.8 days: `MaxTransId` and `MaxNow` stop before them.
- What a process does before its main loop runs: command line, files, the
  start of threads, with the race of `AsyncMysqlMgr::Init` and its first workers
  (`async_mysql_mgr.cpp:41`).
- Whether `_mysql_rsp` is read after `Run` has deleted the response (`base_transaction.cpp:87`):
  the pointers' state is in `TransactionMgr`, but what reads them is an `OnRequest`
  that the repository has in its test program only.
- Base containers, logging, strings, md5: sequential code used through its contract.
- HTTP, synccall, Windows io: not used by the servers on Linux.
- Protocol buffers, table and deployment tools, vendored code (most of the
  repository's lines): generated or third-party.

## 8. Plan

The components that carry the system's own logic are modelled, and what the runs check of
their safety is proved.  What is left:

1. Abstract specifications of the components that have none yet: the transaction framework as
   a server of requests, and the timer pool as a set of timers, with `Accounted`, `AheadOfSweep` and
   `CallbackOrder` as the steps of its refinement, so that `TransactionMgr`'s set of timers is
   justified by a theorem.
2. The mirror of `RegisteredIsRouted`: what the router keeps of a server whose
   connections have all ended, once both sides have heard of it.
3. `SocketOrder` across reconnections of the connector half, when it is modelled.
4. Liveness stays with TLC.
