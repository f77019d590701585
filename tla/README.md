# Portfolio server: TLA+ models, checks and proofs

The repository is a Windows game server in C++ on I/O completion ports: a network
core (`src/PServer/SCore`), a login server (`PGLogin`), a game server (`PGServer`) and
world data (`PGPublic`, mostly a skeleton). The models are of the parts that are
hardest to test: the objects of the network core that several threads share without
a lock, and the login server, whose requests cross four queues and three threads. File names below are relative to `src/PServer` unless they start with `src/`.

## Inventory

| Part | State it keeps | Operations | Interacts through | What makes it correct |
|---|---|---|---|---|
| Listener (`NetworkHostPO.cpp` 237-328, 651-673, `NetworkWorkerPO.cpp` 282-333) | pending accepts, their contexts and sockets | Listen, UpdateListener, Accept, ProcessAccept | controller and workers post the same contexts | as many accepts as configured, one owner of each socket, every client joined, recovers from failures |
| Host (`SCore/NetworkHostPO.cpp`) | socket, task counters, event sync, type, close reason, send lists | Connect, Receive, Send, Close, IsAlive, Update, Event* | pointer shared by controller, workers, services | one incarnation never touches the next; events in order; every close reported |
| Host pool (`NetworkHostPoolPO.cpp`) | free queue, active map, last ID | Allocate, Release, GetHost | lock | a free host is clean; IDs are unique |
| Controller (`NetworkControllerPO.cpp`) | message queue, host list, connector list | Process{Connect,Listen,Join,Close}, _UpdateHost, SendPacketToHost | message queue, host list under a lock | every attempt is answered; the lists agree |
| Worker (`NetworkWorkerPO.cpp`) | the completion port | Process{Accept,Connect,Receive,Encrypt,Send} | completion port | a completion reaches the host it was issued for |
| Send pipeline (`NetworkHostPO.cpp` 83-127, 431-577) | waiting list, work queue, send task counter | Waiting, BeginSendTask, Encrypt, Send, EndSendTask | services, controller and workers | order kept, nothing lost on an open connection, nothing stuck |
| Context pool (`NetworkContextPoolPO.cpp`, `NetworkContextPO.*`) | free list, reference counts | Allocate, Release, Reserve | every thread | never recycled in use, never leaked, in one operation at a time |
| Receive framing (`NetworkHostPO::Decrypt`, `NetworkContextPO`) | byte buffer, two offsets | Decrypt, Align, Resize, Read, Write | one completion at a time | every packet delivered once, whole, in order |
| Manager and registry (`NetworkManagerPO.cpp`) | list of used host IDs, statistics | Connect, Listen, Join, Send, Close, OnConnect, OnDisconnect, IsConnected | services, NES call-backs | an ID is listed exactly while it is connected |
| Services (`ServicePO.cpp`, `TimerPO.cpp`, `ObjectQueue.h`) | packet queue, handlers, timers | Push, Run, RegisterTimer | queue | every packet handled once, in order |
| DB services (`DBServicePO.cpp`, `DBServiceLoadBalancer.*`, `DBWorkerPO.cpp`) | queues, list of services, session | Push, Run, reconnect | queues | index in range, one service per worker ID, reconnects |
| Login (`PGLogin/LoginService.cpp`, `LoginPlayerManager.cpp`, `LoginDBService.cpp`) | players, states, kick list | OnCLAuthReq, OnUDBLAuthRes, _KickProcess | client packets, DB answers | one session per account, late answers ignored |
| Game server check (`PGLogin/GameServerCheckService.cpp`) | servers, waiting queues | _CheckConnect, OnHostConnect, OnHostClose | timer, network events | a lost server is connected again |
| Listen retry (`PGServer/LoginServerConnectService.cpp`) | two flags | _TryListen, OnListen, OnListenFailed | timer thread, controller thread | a failed listen is tried again |

How they interact. A service calls `NetworkManager` (Connect, Listen, Join, Send, Close),
which queues a context for the controller; the controller allocates a host and starts an
operation; a worker takes its completion and calls the host, whose event sync (NES)
pushes a packet to the queue of a service. `LoginService` hands a request to the DB thread
with `SendToUDB` and gets the answer through its inner queue.

Hard behaviours: hosts and contexts are recycled while other threads still hold
pointers to them; `Close` is several unlocked steps; task counters and reference
counts are the only protection of buffers; failures are reported by the side effect
of a closed socket; answers of the database come after the client has asked again, was
given a kick or has gone; kicks wait for a timer and are dropped for hosts that are not
listed. `PROJECT.json` lists each hazard at its line.

## Plan, and how far it came

Done, in this order: `HostLifecycle` with `Connection`; `ContextPool`; `SendPipeline` with `PacketChannel`;
`ReceiveFraming` with `FrameStream`; `Listener`; `LoginService` with `LoginSession`;
`GameServerCheck`. Each has its runs and its proofs. Open: what
"Not modelled" names. Liveness stays with TLC.

The modules do not extend each other: where two parts meet, each module keeps what it
needs of the other and says so in its head (`Listener` needs that reference counts are
exact, which `ContextPool` shows; `LoginService` needs the order of the callbacks and that
a closed host is reported, which `HostLifecycle` shows). The composed specifications are
the four refinements: `HostLifecycle` of `Connection`, `SendPipeline` of `PacketChannel`,
`ReceiveFraming` of `FrameStream`, `LoginService` of `LoginSession`. All four are proved,
for every value of the constants, fairness aside.

## Modules

### HostLifecycle and Connection

Threads are the controller (`Ctl`), the IOCP threads (`Workers`) and one service thread
that sends (`App`). The variables `hostId`, `socket`, `baseTask`, `sendTask`, `eventSync`,
`hostType`, `lastClose` are fields of every `NetworkHostPO`; `freeQueue`, `created`, `active`,
`lastHostId` are the pool; `hostList`, `connectorList`, `msgQueue` the controller; `ios` the
operations in the completion port; `kernelSocket` what Windows knows of a socket, which
is named by the host ID it was made for; `thread` the call each thread is in;
`callback` what a service was told of each ID.

* What runs between two accesses to shared fields is one action. `Close` is
  `TestSocket`, `CloseSocket`, `ClearSocket`; `EndBaseTask(false)` and `EndSendTask(false)` drop the
  counter in one step and enter `Close` with the next.
* A turn of `ProcessThread` updates every listed host (`sweep`), because the interval of
  its timer is 0, and then takes one message.
* `Issue` stands for `Connect`, `Receive` and `Send` of the host: the system takes the
  operation or refuses it. Any system call may fail.
* `Reset`'s `Close(Reset)` has no effect: `_UpdateHost` releases a host only if its socket is
  invalid. `ManyPacketInTime` is never reached: nothing sets `m_bUsePacketRecvCheck`.
* `Connection` is what a service may count on for each host ID: it is new, the controller
  takes its request once, it is listed until its end, the service hears of the connection
  while it is listed and of its end in the step that takes it off the list. The refinement
  maps the stage of an ID to the controller's list and queue (`Stage`): a request that waits,
  an entry in the list, or neither.
* Not in the model: Listener hosts and `Accept` (see `Listener`), re-use of socket handle values by
  Windows, the wrap of the ID counter, `DestroyNetwork`.

### ContextPool

Who may use a context. `refs` is `m_nReferenceCount`, `queued` and `port` count its places in
the message queue and in the completion port, `call` what each thread does with it.
A handler is `own`, then any number of `CountReference`/`StartOperation`, then `release`.
After an operation has started, the thread may be `late`: `Accept` calls `GetEmpty` and
`GetAcceptExSockaddrs` on a context whose accept is already pending (`NetworkHostPO.cpp:321`). It
holds a reference then, and no longer the context: another thread may have the completion.
So a context is in one operation at a time (`OneOperationOfAContext`), and not with one thread;
what the late thread does to the contents is in `Listener`.

`InitialRefs` gives each context the number its unset count reads: the constructor does not
set it (`NetworkContextPO.hxx:48`) and `Allocate` only increments it, so it may be any integer,
another one for each context. What holds of a context depends on its own number:
the count is exact, the context is never recycled in use and in one operation at most, if it
starts at 0 or above (`Sound`); it does not leak if it starts at 0 (`Zeroed`). A context that
starts below 0 is recycled while an operation uses it, one that starts above 0 is used once
and never again, and no other context suffers from either. Where the
heap hands out zeroed memory none of this shows. A number so near the largest `long` that the
count would wrap is left out.

### SendPipeline and PacketChannel

One connection, from `EventConnect` to the close of its socket. `Waiting` appends and may
kick; the controller's `BeginSendTask` is `TestWork`, `TestWaiting` and `Claim`, which are
three separate accesses in the code; `Encrypt` is `SwapLists` and `WriteBatch`; then `Send` and
`ProcessSend`. `PacketChannel` is what `NetworkManager::Send` promises: packets leave in
order, at most once, none after the close, and packets are lost only with a failure
that also closes the connection. Between that failure and the close, packets behind
the lost ones may leave: `EndSendTask` clears `m_lSendTaskCount` before it closes.
The refinement maps the channel's queue to the packets in the context of the sender,
in the work queue and in the waiting list, in this order. A packet is its size: the
largest one, `MAX_PACKET_BINARY_SIZE`, is exactly the buffer.

### ReceiveFraming and FrameStream

One connection, from its first receive. `Arrive` is `ProcessReceive` up to `Write`, `Deliver` one
turn of the loop of `Decrypt`, `Reject` its test of the size, `Receive` what comes after the
loop: `Align` and the next `WSARecv`. A byte is its position in the stream of the peer, so
that a lost, doubled or stale byte shows. What a size field reads is chosen for every
position in advance, because any bytes may be read as one; the arithmetic on it
(unsigned difference, then mask, then test) is the code's. `FrameStream` is the ideal reader:
it sees a stream, a frame when all of it has arrived, and no buffer. The
refinement maps its position to the number of bytes received less those unread, and
says that the buffer is never full when a receive is posted: `NETWORK_BUFFER_SIZE_SERVER`
is the largest frame, and a largest frame is always handed over before.
Not in the model: `EventReceive` drops frames when the event sync is gone (that is
`HostLifecycle`), and what LZ4 computes: it accepts data or does not.

### Listener

The one host that listens. `thread` is what the controller and each worker do with a
context: `accept` (they are about to call `Accept` on it), `parse` and `align` (AcceptEx is
pending, and `GetEmpty` and `GetAcceptExSockaddrs` come next), `join` (`ProcessAccept` has read
the socket). `UpdateListener` counts what is missing once (`left`) and `NewAccept` makes them
one by one, as the loop does; a worker whose accept fails ends its task (`RefuseAccept`) and
leaves it to the controller to refill. `ReleaseContext` resets the context when nobody holds it
any more; until then a worker may post the context it was given although other threads
are late in it. `AcceptAtOnce` is the case AcceptEx returns TRUE.

A late thread is in `Align`, which takes no lock. `BeginAlign` is its test finding `m_nReadSize` set,
which it is between the `Read` and the `ResetBuffer` of a worker. What it writes after that does no
harm in the buffer the worker has read, or has reset; written after the worker has posted the
context again, it clears the sizes over the next socket (`ClearNextAccept`, buffer `cleared`).
The next `ProcessAccept` then fails to read it (`ReadSocket`, socket `lost`) and joins
`INVALID_SOCKET`, for which `_AddHost` makes a fresh socket that no client is connected to
(`NetworkControllerPO.cpp:134`). `Align` may also move bytes or leave a size that is neither 0 nor
right, when it reads the sizes in between; that the socket read back is garbage, or none,
is one outcome here, `lost`. A write size that wraps below 0, for which `GetEmpty` returns no
address to write to, is left out. `ParseAddress` sets the address behind what the buffer
holds by then: the client's, or garbage.

### LoginService and LoginSession

The queues are those of `ServicePO` (outer and inner, each with its work list) and of
`DBServicePO`. `stage` is where `ServicePO::Run` is: `UpdateTimer` starts a turn with the timers
and takes the inner packets, `SwapOuter` takes the outer ones. A handler is one action:
`OnCLAuthReq` is `RefuseSecond`, `IgnoreClient`, `RefuseKey`, `AskPlatform` and `AskDB`, by what the
packet holds; `OnUDBLAuthRes` is `RefuseBlocked` and `Accept`. The DB thread is `TakeDBWork`, then
for each request `DropRequest` (no session yet), `FailRequest` (an exception, which is
caught) or `RunProcedure`, which is `spAccountLoginProcessSelect`: the row it leaves
(`TakenRow`) and what it returns (`ResultOf`). Packets are of a kind: `guest`, `platform`,
`badClient` (unknown client type), `badKey` (missing or invalid account ID), `unregistered`
and `broken` (cannot be parsed); `Kinds` says which of them each client may send. The timer
does nothing while no kick is reserved, so that time only passes (`Tick`) while one is. What is left out because the procedure never leads there:
the result `DuplicateLogin` and the sanction of an account (`OnUDBLAuthRes` 191-202, 213-264).

`LoginSession` is what the server promises to one client: it comes, may ask, may be
answered once, may be given notice to go, and goes; a client with a notice does go. The
refinement maps `phase` to what the client was sent and what its player does, and `notice`
to the hosts that are reserved for a kick or whose close waits for the controller.

### GameServerCheck

`_CheckConnect`, the events of each connection and `OnHostConnect`. `EventConnect` hands on port
0 and `GameServerCheckNES::OnClose` pushes `Host_Connect`, so that `OnHostConnect` never finds
a server and `OnHostClose` never runs. The module exists for what follows from that.

## Runs

| Run | Shows |
|---|---|
| `host_safety` | no operation, socket, callback or request of one incarnation of a host reaches the next; no host object is lost; the IDs implement `Connection` |
| `host_progress` | liveness: closed connections and failed attempts are reported |
| `pool_counts` | with counts that start at 0, 1 and -1: counting is exact, and only a context that starts below 0 is recycled in use, only one that does not start at 0 leaks |
| `pipeline_channel` | the send pipeline implements the ordered channel, the send task is a lock, an accepted packet leaves or the connection ends |
| `receive_framing` | receiving implements the ideal reader of frames, the half frame in the buffer is the stream, a whole frame never waits |
| `listener` | accepts are counted exactly, no context is in two, each socket has one owner until a late `Align` loses it; the listener recovers, all other clients are joined, a request to listen is answered |
| `login_service` | one look-up and answer per client, kicks that can be carried out and are not put off, answers the table agrees with, no request that vanishes between the queues; the server implements `LoginSession`, and a guest that asks is answered or closed |
| `host_wrong_packet` | finding: a packet is queued on a host that was recycled after the look-up |
| `pipeline_empty_send` | finding: a send task with nothing to send closes a healthy connection |
| `listener_lost_client` | finding: a client whose accept completes is not joined, because a late `Align` has cleared the buffer its socket was in |
| `login_double` | finding: two connected clients are logged in to one account, because the procedure returns 1 where the code expects 2 |
| `check_connected` | finding: a game server whose connection is up is never recorded as connected |

`CHECK_DEADLOCK FALSE` everywhere: a bounded system, or a closed connection, stops.

Three invariants are proved and in no run. `CallbackOrder` and `FramesTile` follow from the
refinements `ImplementsConnection` and `ImplementsStream`, and say at a glance what those say step
by step. `PacketsAreKept` adds to `ImplementsChannel` that each packet is put into the channel
once; it holds for every value of the constants.

Each property of a passing run has a mutant in `PROJECT.json`: a plausible bug in one
definition, written beside it in the module, that makes the property fail.

### Bounds

* Hosts: one object and two IDs, so that it is recycled once; two workers are needed for
  two late closes, and the controller and the sender take part in both. `host_progress` has
  one worker.
* Contexts: four, two of them reserved: two start at 0, one at 1 and one, reserved, at -1; two
  workers and the controller, so that two threads drop references while a third allocates.
  A context that is recycled in use could be in the free list and in the port any number of
  times; `MaxUses` stops it at one place of each kind, and no other context notices.
* Pipeline: four packets of which two fill the buffer, one fills it alone; two services and
  two workers; limit 2.
* Framing: a header of two bytes, up to two bytes of data, six bytes of stream cut in any
  pieces: up to three frames in one buffer, a half frame behind each; sizes that are too
  small, empty, largest, too large, and flagged.
* Listener: two accepts (`ACCEPT_WAIT_COUNT` is 100), three contexts, so that one may be
  late while two are posted; two clients and one refusal, so that accepts complete
  and fail beside each other; a socket more than accepts and clients need.
  `ListenerLostClient.cfg` needs one accept, one worker, two contexts and two clients: the
  controller is late, and the second client is lost.
* Login: two clients and one account, so that they meet at one row; one client sends every
  kind of packet, the other asks as a guest. Two requests, so that a client asks again, or both
  ask; statuses 0, 4 and 9 (usual, blocked, deleted); a kick after one tick. `LoginDouble.cfg` has
  guests only.
* Game servers: two on one machine, told apart by their ports; each is tried once.

A host ID is asked to close at most once, each packet is sent once. Workers are
interchangeable in `pool_counts` and `host_safety`, which have no liveness; no other run uses
symmetry.

### Fairness

`HostLifecycle`: weak for the controller and for each thread inside a call
(threads run); strong for completions that must end: those the program posts itself,
connects and sends, which TCP ends, and receives on a closed socket. It is strong
because the port is a queue: a stream of other completions cannot starve one. A receive
on an open socket may wait for ever. It is one condition for the tasks of each kind,
those that hold the base task and those that hold the send task. `SendPipeline`: weak for the controller, for the
workers together, and for each close that was begun. `ReceiveFraming`: weak for `Decrypt`
alone, which is a thread in a loop; the peer need not send. `Listener`: weak for the
controller and for each worker; no client need come, and an accept may wait for ever.
`LoginService`: weak for the service thread, for the DB thread, for time and for each close
that waits in the controller's queue; clients need do nothing, and the DB session may be
lost and need not come back: a request then fails, and is answered.

## Proofs

`HostLifecycle_proofs` proves, for any number of hosts, workers and IDs, `TypeOK`,
`NoStaleCompletion`, `SocketIsOwn`, `NewIdsAreUnlisted`, `FreeHostsAreClean` and `OneTaskOfAKind`.
The invariant `IInv` says which references to a host exist (operation in the port,
issuing thread, queued request, list entry, free queue) and that those that keep it
from being recycled hold its counters: an owned task counts exactly 1, so `IsAlive`
is true, so the controller does not release it. No property of the sockets of other
threads' `Close` is needed, which is why a late `Close` can still do harm.

`HostEvents_proofs` adds two invariants on top of `IInv`, and with them `CallbackOrder`,
`ConnectorsAreOpen`, `NoHostLeaks` and the refinement `ImplementsConnection`. `EventsAreInOrder` ties each connect, receive and queued request to what
its ID was told: a connect runs while nothing was told, a receive after `OnConnect`; an event
can contradict no other task, because `IInv` leaves only one with the base counter, and the
end is told when no counter is held. `ClosesAreQueued` says that behind a queued host
whose close was asked for stands the request that closes it, so that the host is never a
connector for good. For the refinement, each step is shown to hand out, list or retire
at most one ID and to leave the stage of all others (`NextMovesIds`); that each ID has one
stage is `IInv`, and that a step that tells a service something tells it of the ID it moves
is `EventsAreInOrder`. `NoHostLeaks` follows the same steps: an `_AddHost` that fails lists
the host all the same, so that the next turn of the controller retires it.

`ContextPool_proofs` proves `TypeOK`, `RefsAreExact`, `FreeContextsAreIdle`,
`OneOperationOfAContext` and `NoContextLeaks` for any contexts, any number of workers and any
integer in each unset count: no theorem assumes more than `PoolAssumption`. The invariant
counts references as cardinalities of sets of threads, and says that a thread that may
go on with a context is the only one. Each of its parts speaks of the contexts whose own count
starts at 0 or above, and no step carries anything from one context to another; that a
context is recycled only when its count started at 0 is what `NoContextLeaks` rests on.

`SendPipeline_proofs` proves `TypeOK`, `SendTaskIsALock`, `PacketsAreKept` and the refinement `ImplementsChannel`, for any
packets, sizes, limit, services and workers. The invariant says that the send task is
owned by one completion or one worker, and that only the owner has packets in hand:
so the channel's queue, the concatenation of the three places, changes only where a
packet is put, transmitted or lost with the connection. The order of `Encrypt`'s insert is
a fact of `Cut`: the two parts of a queue make the queue. `PacketsAreKept` follows the line
that the wire and the three places form: it grows at its end by a packet nobody sent before
(`OnceAppended`), moves its front to the wire unchanged, or loses a piece while the
connection is about to be closed (`OnceCut`).

`ReceiveFraming_proofs` proves `TypeOK`, `BufferIsStream`, `NothingHeldBack`, `FramesTile` and the refinement
`ImplementsStream`, for any header, largest frame, flag bit and stream, from `FramingAssumption`:
the flag is above every legal size, and the buffer is as large as the largest frame.
`MsgSizeOfField` is where the wrap of the unsigned difference is shown to be harmless;
`FramesTile` rests on it, because the size of each frame is compared with its field.

`Listener_proofs` proves `TypeOK`, `AcceptsAreCounted`, `OneAcceptOfAContext` and
`SocketsAreOwned`, for any number of workers, contexts, sockets, clients and accepts.
`ListenerInv` adds what a thread holds in each of its calls (`CallsAreTyped`) and that the
context of an accept holds its socket until a worker reads it or a late `Align` clears it
(`BuffersHoldSockets`). A late thread has no socket, so whatever it does to a buffer it cannot give
one socket to two owners; it can only lose it, which `SocketsAreOwned` says. The count is an equation of cardinalities: each action moves one
accept between the system, a thread and nowhere.

`LoginService_proofs` proves `TypeOK`, `LookedUpOnce`, `KickCanClose`, `AnswerIsRecorded`,
`KickIsNotPutOff`, `RequestIsNotLost` and the safety part of `ImplementsSession` (its initial states and its
next-state relation), for any clients, accounts, statuses and requests. `LoginInv` adds that the inner
packets are handled before the outer ones, that whatever is queued for a host comes
after its connection, and that a result on its way agrees with the table
(`ResultsAreRecorded`): a row that was taken is only freed for a status above 1.
`LookedUpOnce` is inductive with the test of `LoginPlayerManager::Add`: one player, one request.
`RequestIsNotLost` counts the requests of a host in the four queues: a step moves one from
a queue to the next, or takes the last one and sends; that the player to send to is there
is `HostsHaveCome`, and that the inner work list is empty when it is replaced is `InnerFirst`.

`GameServerCheck_proofs` proves, for any servers whose port is not 0 (`IsConfigured`, which
`ServerConfig.cpp:353` makes sure of), that no server is ever recorded as connected, and
that each is tried once: what `check_connected` finds is not a matter of timing.

Only model-checked: liveness under fairness, with the fairness part of `ImplementsSession`.
The prover does not handle ENABLED, induction over data, or RECURSIVE operators; the
modules avoid the last.

## Known weaknesses that no run states

These were met while modelling; they contradict no line of the repository that a run could
quote, or the models abstract from what they depend on.

* `LoginDBService::_OnLUDBLoginReq` answers after an exception as after a success: the client
  gets `LC_AuthRes` with account 0 (`FailRequest`). It drops the request without an answer
  when there has never been a session (`DropRequest`).
* `NetworkManagerPO::OnDisconnect` never takes a host off the list (`NetworkManagerPO.cpp:515`), and
  `LoginPlayerManager::Remove` is never called: both lists only grow.
* Accounts with status 9 or 91 are answered as a success, and their row is freed.
* A late `Close` of one incarnation of a host may give the next its reason of closing
  (`NetworkHostPO.cpp:75`, 584), or close the socket of the next. When two threads are late, the second also clears the socket
  of the next incarnation without closing it (593): from then on its `Close` returns at the
  test, nothing can be sent, and the receive that is pending keeps the host listed. The
  specification has these behaviours, with two workers and a host that is used twice.
* The limit of the waiting list is tested in `Waiting` and not in `Encrypt`: what does not fit
  the buffer goes back in front of what services added since the swap
  (`NetworkHostPO.cpp:496`), so that more than `ManualKickSendQueueCount` packets may wait without
  a kick (`BuildConfig.hxx:9` says that such a client is to be kicked); the next packet that a
  service sends makes up for it.
* `LoginPlayerManager::Add` reads the account ID before `OnCLAuthReq` tests that there is one
  (line 31); `Broadcast`, which nobody calls yet, locks a mutex its caller holds (139-165).
* `OnUDBLAuthRes` sends the message of a blocked account for a permanent block and the
  other way round (173-186); the bounds of the one-time password are inverted
  (`LoginDBService.cpp:26`).
* `DBServiceLoadBalancer::Push`, which nobody calls yet, computes its index with `&` for `%`
  (line 33); its tear-down deletes elements that were never made (`.h:105`).
* `_ConnectDB` takes a missing connector for a success (77), and its counter of failures is
  reset by a success only: after 20, each later request tries once.
* Timers and deadlines use the system time, which may be set back (`Clock.cpp`).
* A failed attempt to connect may be reported with `OnClose` instead of `OnConnectedFailed`.

## Not modelled

* The game server: `GameService` has no handlers of its own, and nobody creates the thread of
  `LoginServerConnectService`. World data: nothing that runs calls it.
* The wrap of host IDs at 2000000000, `DestroyNetwork`, the end of threads and services, the
  start-up order, the tear-down of the list of DB services.
* The parts of DB services that nobody calls (choice of a service by index), the platform
  service, whose thread is never started, and the handlers that are not registered.
* Logging, HTTP, mini dumps, files, monitor, statistics (I/O of the platform), floating-point
  geometry, wrappers of third-party codecs, the C# bot client.

The map covers a small share of the files of the repository: about nine tenths of its
lines are vendored headers (`src/lib`: POCO, OpenSSL, jwt-cpp) and generated code
(`src/Common/SCCmn/Protocol_generated.h`), which are not modelled. Of the program's own code,
what runs and keeps state between threads is.
