# aods: a TLA+ development of the deployment server

The repository is a small deployment system: machines are activated, authenticated, kept
connected and told to update their modules. The development models five parts of it: `aodc`,
the server all machines connect to, together with what it talks to; the module framework
(message queues and timers) that all the C++ programs run on; a machine's connection to `aodc`
with its threads, its frames and its cipher; the updating of one machine by its `aods` service;
and the controller with the REST service and the databases they share. The other parts are
inventoried below, and planned or left out.

Paths are relative to the repository: `util/`, `aodc/`, `aods/`, `install/` stand for
`src/dev/<dir>/`, `py/` for `src/py/`.

## 1. The system

```
 install ──ACTV──┐                        ┌─ topic deploy_u ─┐
                 ├─ tcp ─ aodc ─ kafka ───┤                  ├─ DeployCtrl.py ─ database
 aods ───AUTH────┘                        └─ topic deploy_d ─┘        │ topic "publish"
   └─ downloads packages by HTTP                          REST service ┴─ Publish*.py, PrjUi
```

### 1.1 Components

| component | state | operations | interacts by |
|---|---|---|---|
| module framework: `util/Module.cpp`, `ModuleData.cpp`, `ModuleDispatcher.cpp`, `MsgTarget.cpp` | per module two message buffers, swapped; timers; the table of modules | post, broadcast, take and handle, set / tick / kill timers, stop | every module is a thread; a post takes the lock of one queue |
| server connections: `util/CommuModule.cpp`, `AoIoSelectGroup.cpp`, `AoTcpServer.cpp`, `AoSockChannel.cpp`, `AoChannel.cpp` | `m_mapAC`, list of the select thread, the socket and the buffer of each channel, index for names | accept, NEW, read, SEND, FREE, DEL; announces BUILDED, RECV, FAIL, FREED | accept thread and select thread post to the communication module; all modules post to it |
| client connection: `util/AoSockTcpChannel.cpp` | socket, current address, decoder, one buffer for announcements | next address, connect, read, disconnect, reconnect after 5 s, stop | a thread of its own reads; the communication thread sends and stops, on the same object without a lock |
| framing: `util/AoCommuProtocol.cpp`, `DBACommuProtocol.cpp`, `AoMemCache.cpp` | bytes not yet decoded | append, take complete frames | called by the readers of sockets |
| cipher: `util/AoEncrypt.cpp` | a table, a key | set the key, encode, decode | one per channel, used by both its threads |
| aodc authentication: `aodc/AodsAuthModule.cpp` | `m_mapRC` (rid → channel, addresses), `m_mapCR` (channel → rid) | request, verdict, send failed, channel freed | communication, kafka and update modules |
| aodc updates: `aodc/UpdateModule.cpp` | `m_mapRuo` (rid → route), `m_mapCuo` (channel → route) | authenticated, report, update from the controller, 50 s probes, send failed, channel freed | the same |
| aodc activation: `aodc/AodsActiveModule.cpp` | `m_mapCA`, `m_mapCu`, `m_mapUai` | channel built, request, answer, send failed, channel freed | communication and kafka modules |
| aodc kafka: `aodc/AoKafkaModule.cpp`, `ConsumerThread.cpp` | producer, consumer | produce, broadcast what is consumed | topics `deploy_u`, `deploy_d` |
| aods: `aods/AodsAuthModule.cpp`, `UpdateModuleMgr.cpp`, `DownloadThread.cpp` | activation data, managed modules with versions, download queue | authenticate, keep alive, check, download, install, report | one connection to aodc, HTTP |
| install: `install/AodsActiveModule.cpp` | answer awaited | activate | one connection to aodc |
| controller: `py/PrjDeployCtrl/*.py` | machines and target versions in memory, offsets of its topics | authenticate, activate, confirm, check, publish, start again | topics, databases |
| REST service, publishing tools, user interface: `py/PrjRestfulApiService`, `PrjPublish`, `PrjUi` | databases | publish a version, edit and delete records | one thread per request; databases, topic "publish" |
| operating-system wrappers, HTTP, files, hash, zip, encryption, log, configuration: rest of `util/` | — | — | — |
| vendored: `librdkafka`, `librdkafkacpp`, `zlib`, `CJson` | — | — | — |

`PROJECT.json` says for each what is modelled and why the rest is not.

### 1.2 What is hard

`aodc` has no global lock and no transaction: what is known of one connection is spread over
six maps of four threads, kept together only by messages. Hence:

* a request of a channel (select thread) and the release of the channel (communication thread)
  overtake each other on the way to a module;
* a broadcast is one post per module; other threads run between two of them;
* handlers make several posts, to different threads, whose order matters;
* an entry may be made for a channel that is already gone, after its release was handled;
* a verdict of the controller names an id, not a channel, and may be late, lost or repeated (the
  properties about it compare ids; on which active code it was given is not represented);
* a connection may be half open: the machine is gone and aodc is not told;
* two machines may carry the same id (cloned disks), one machine may come back under new
  addresses;
* at the capacity of the select groups a channel is announced and deleted in one handler.

On the machine's side one object serves every connection the process ever has, and two threads:

* the stream of a connection arrives in pieces that have nothing to do with frames;
* what one connection left in the decoder is put before the first frame of the next;
* the reading and the sending thread share the key of the cipher and the buffer in which
  announcements are put together;
* a message may be sent on another connection than the one it was made for, in whole or in part;
* `close` does not wake a thread that waits in `recv`.

The controller is one thread, but shares its databases, without transactions, with the threads of the
REST service; what it keeps in memory only is lost when it stops; it is given again the messages
handled since its last commit; and when it starts it reads its databases key by key beside the writers,
swallows any failure of that and goes on with part of them.

What makes each component correct: the maps of a module are each other's inverse; an id or a
request never stays bound to a channel whose end has been dealt with; the id is not taken over
by another machine; updates go to the machine they are for; each request is answered once; a
machine that asks is answered or disconnected; a machine is told what was sent to it, whole and
in order, and is served again once the network stays up. `PROJECT.json` lists the hazards line by line.

## 2. Modules

| module | models | actions |
|---|---|---|
| `Dispatcher` | queues and posts of the module framework | `Handle`, `PostMsg`, `Dispatch` |
| `CommuModule` | connections: accept loop, communication module, select loop, sockets | `Accept`, `OnNewChannel(Full)`, `OnDelChannel`, `OnFreeChannel`, `SendData2Channel`, `SendDataFail`, `ReadData`, `OnDel` |
| `AodsAuthModule` | authentication of aodc | `RejectCode`, `RejectOther`, `DropBoth`, `BindChannel`, `OnAuthAck`, `AuthOn…` |
| `UpdateModule` | routes and probes | `OnAuthSuc`, `OnRecvAodsData`, `OnUpdateFromKafka`, `OnTimer`, `SendKeepAlive`, `UpdOn…` |
| `AodsActiveModule` | activation | `OnChannelBuilded`, `OnActiveRequest`, `OnActiveAck(Stale)`, `ActOn…` |
| `Hosts` | the machines, as aodc sees them | `Connect`, `Disconnect`, `SeeClosed`, `GiveUp`, `HostReceive` |
| `KafkaLink` | kafka module, topics, controller, consumer thread | `KafkaAnswer`, `KafkaRepeat`, `KafkaLose`, `DealPublish`, … |
| `Aodc` | all of them together: `Spec`, `ThreadSpec` | one step per thread |
| `AodcProps` | the properties | |
| `MCAodc` | instances for TLC | |
| `AodcOwner`, `AodcRelease`, `AodcAnswers` | proofs about `Aodc`, each on top of the one before it | |
| `ModuleQueue` | the two message buffers of one module, its posters and its thread; the refinement of `ModuleFifo` | `PostAppend`, `PostSignal`, `PostOwn`, `Wait`, `WaitTimeout`, `Swap`, `DoMsg`, `EndBatch`, `EndRound` |
| `ModuleFifo` | what such a queue promises | `Post`, `Renew`, `Serve` |
| `MCQueue` | instance | |
| `QueueProofs` | proofs about `ModuleQueue` | |
| `ModuleTimer`, `MCTimer` | the timers of one module; instance | `Call`, `Handle` (`OnSetTimer`, `OnKillTimer`), `ProcTimer`, `Wake`, `TimePasses` |
| `TimerProofs` | proofs about `ModuleTimer` | |
| `DbEngine` | the REST service's threads, the databases, the topic "publish" | `Publish`, `SetPublication`, `Announce`, `PublishFails`, `GetServer`, `SetServer`, `DeleteServers` |
| `DeployCtrl`, `MCCtrl` | the controller of a segment beside them; instance | `OnAsk` (`DealActive`, `DealActiveSuc`, `DealAuthen`, `DealUpdateCheck`), `OnPublish`, `Commit`, `Crash`, `InitDb` (`ListServers`, `LoadServer`, `ListPublications`, `LoadPublication`, `Loaded`, `LoadFails`), `Machines` |
| `CtrlProofs` | proofs about `DeployCtrl` | |
| `AoEncrypt` | the cipher | `Encode`, `Decode` (operators) |
| `AoSockChannel` | the receiving half of the client's channel: stream, decoder, announcements | `Recv`, `GetContent`, `DecodeContent`, `PostContent`; `SendFrame`, `CutStream`, `NewStream` |
| `AodsClient`, `MCClient` | a machine's side of the connection: channel, communication thread, the module of `aods` or `install`, and `aodc` as they meet it; instance | `TryNext`, `Connect`, `ConnectFails`, `OnBuiled`, `ReadStep`, `Announce`, `OnFreed`, `RunEnds`; `TakeSend`, `EncodeMsg`, `SendAll`, `SendPart`, `SendRest`, `SendFails`, `OnSendDataFailed`, `OnStop`, `Join`; `OnChannelBuild`, `OnAuthSuc`, `OnRefused`, `OnActived`, … |
| `ClientProofs` | proofs about `AodsClient` and what it extends | |
| `UpdateModuleMgr` | updates of one machine: manager and download thread of `aods`, the connection, the controller | one action per handler; `Unpack…ReportResult`, `RestartSelf`, `Crash`; `TakeTasks`, `Download`; `Tick`, `Deliver`, `Deal…` |
| `UpdateProofs` | proofs about `UpdateModuleMgr` | |

The modules are five separate developments, joined by what one assumes of another: `Dispatcher`
takes the queue of a module for a FIFO with room, which `ModuleQueue` shows it to be as long as its
buffers do not overflow (2.3); `ModuleTimer` takes the same queue; and `UpdateModuleMgr` takes a timer
to tick again and again with at most one tick waiting, which is `OneTick`. `KafkaLink` and
`UpdateModuleMgr` contain what their sides see of the controller; `DeployCtrl` has it in full. `Hosts`
has of a machine what `aodc` sees, `AodsClient` has of `aodc` what a machine sees.

The variables carry the names of the code's state. In `Aodc`: `mapAC`, `rcCh`/`rcIp` (the two fields of
`m_mapRC`), `cr`, `ruo`, `cuo`, `ca`, `cu`, `uai`, `ullIndex`. `queue[m]` is what has been posted
to module `m`, `out[m]` what its running handler has still to post. Operators named in a comment
as *Mutant* are deliberately wrong variants: substituted for the real definition they must break
the property they are paired with.

### 2.1 Grain

A handler runs to its end before its thread takes the next message, and only its thread touches
its maps. What other threads can see are its posts. A handler is therefore one step up to and
including its first post, and every further post is a step (`PostStep`) before which any other
thread may run. So a broadcast is three steps. The probes of `OnTimer` are sent one step at a
time, in any order of the channels.

### 2.2 Abstractions

* A message whose handler returns at its first test, or for which a module has no entry in its
  message map, is not put in that module's queue. So a frame goes to the one module that acts on
  its code, and BUILDED only to the activation module.
* Accepting and the arrival of the first frame are one step: the frame is the first thing a
  machine sends, and the select loop reads it at any later moment. A client reconnects no earlier
  than 5 s after a disconnection and sends one request per connection.
* The activation code of the request is either good or not (`Damaged`); addresses, ids and uuids
  are model values. The id the controller allots is written as the uuid of its request.
* The way up (kafka module, topic, controller) and down (topic, consumer thread) is one FIFO:
  each topic has one partition and each stage is sequential. The controller answers the head; an
  answer may be lost or repeated `MaxFault` times. `dealActive` may fail whatever the request.
* The destructor of a channel closes the socket and broadcasts FREED: both are in the step that
  deletes it. FREE on a channel closes the socket only, as in the code.
* Sending to a connection whose other end closed or vanished either succeeds (the local TCP
  accepts the data) or fails; to one closed on this side it fails.
* The timer of the probes may fire at any moment, `MaxRound` times.
* A machine's update is sent as a download in progress (`loading`) and a result that goes out on
  the connection of that moment or is lost. The check repeated every 120 s and the choice of
  addresses are left out.
* The 64-bit build and the Windows branch of the accept loop are followed. Channel names are never
  reused: the 32-bit index in them would have to wrap.

### 2.3 The queue and the timers of a module

`ModuleQueue` keeps the two buffers of `CModuleData` as arrays of units. A unit holds the header that
begins there, or `Junk`; `len` is what `m_unDataLen` counts; emptying a buffer changes `len` only, so
what an earlier round wrote stays behind it. A post appends header and data under the lock
(`AppendMsg`): either may find no room, and when only the data does not fit, the header stays. The
module's thread waits, swaps the buffers under the lock, walks over the batch by the lengths in the
headers (`Following`) and posts to itself (`PostOwn`: `SetTimer` and `KillTimer`, and handlers). The
signal is a step after the append, as in the code. `Semaphore` tells the two builds of `CAoEvent`
apart: Windows has an auto-reset event, Linux a semaphore. Two history variables name the places at
which `Run` will find headers: `ahead` in the rest of the batch, `behind` in the other buffer. A post adds
its place to `behind` when the places before it lead there (`Reached`). The refinement mapping to `ModuleFifo`
is: pending = the messages at `ahead` and then those at `behind`; spoilt = what is at `behind` does not lead
to the end of the buffer. So the promise is exactly what the code keeps at a full buffer: the post that
is cut short is handled without its data, and later posts are lost until the buffer changes hands.

`ModuleTimer` keeps `m_lstMT`, as a set, and the module's queue. The order of the list is nothing but the
order of the ticks posted in one round, and any order is allowed (`Ticks`). Time is an unsigned word that wraps (`Wrap`
stands for 2^32) and a difference is taken as a signed one (`Left`). Setting, killing and ticking are
messages of the same queue, so a kill may have ticks before it. `ProcTimer` runs after every
batch; what it returns is how long the thread sleeps unless a post wakes it.

### 2.4 Updates of one machine

`UpdateModuleMgr` has the list of modules in memory (`pm` for `m_mapPM`, a version per module; hash,
directory and address of the package go with the version) and on disk (`db` for `data/aodsumi.db`),
the messages of the module (`inbox`), the list of the download thread (`tasks` for `m_lstDi`, `taken`
for its `lstTempDi`), the files of each module, and the messages of each direction of the connection.
A version is the number of its publication.

A handler is one step, but `OnDownloadResult` changes files, and the process may die between any two
changes: it is a chain of steps (`job`), during which no other message is handled. The list is
opened, and by that emptied, and written in two of them. Setting or killing `EN_TIMER_TI` is a change
of `timer` in the handler.

* Any failure counts against `MaxFault`: of a download, of opening or unpacking a package, of a restart
  command, of opening the list, of the connection, of the process. A write error while unpacking,
  which the code does not notice, is left out (section 5).
* A lost connection loses the last messages sent and the next to be received. What is sent while it is
  down is lost as well. That aods reconnects and is accepted again is one step (`Accepted`); the
  announcement of it is another, which may come after the next loss.
* The controller publishes versions of a module in order, offers a version when the one confirmed is
  another, and logs results. aodc forwards both ways in order.
* A list that was emptied by a crash (`Torn`) is taken for unreadable; the code parses a buffer of
  length zero without a terminating zero (`UpdateModuleMgr.cpp:289-298`).
* Left out: the load counter of download threads (there is one thread), the stopping of aods.

### 2.5 The controller and its databases

`DbEngine` has `dbMgr` (machines with a record) and `dbPub` (time of a publication under the key of a
segment and a version) and the requests under way (`jobs`), one per thread: a publication takes the time,
writes one key after the other, then announces itself; an edit reads a record and writes it back.
`DeployCtrl` adds the memory of the controller (`srvs`, `target` for the module's entry of `publish`),
the two topics with the messages handled (`pos`) and committed (`com`), and what it sent (`down`).
A handler is one step: the consumer is one thread, and a handler writes to a database at most once.
`InitDb` is not one step: it lists the machines, reads them one by one, lists the publications and reads
them one by one (`phase`), while the REST service goes on. `srvKeys` and `pubKeys` are the keys listed and
not yet read. A record deleted since it was listed, or a failure of redis, ends the load there
(`DeployCtrl.py:40-41` swallows the exception) and the controller consumes with what it has: without
`publish` when the load ended among the machines (phase `blind`: checks are recorded and not answered,
publications are ignored), else with part of the publications. What then remains in
`srvKeys` and `pubKeys` was never read; the properties name it as their exception.
`from` is the number of announcements committed when the process started, so that those it handles
itself can be told from those it must have read.

* One module of one project: all keys name both, and those of two modules never meet. A version stands
  for its hash, address and key as well.
* A record is there or not; the code in it is that of the machine. `json` turns a pair into a list, so
  after a restart no entry equals what a machine reports (`ListEntry`).
* `Fresh`: 40 random bits are taken never to repeat. When the ids of an instance are used up, a further
  request waits.
* `Unpublished`: one version is not published twice at the same time; it may be published again later.
* The group has committed offsets from the start; `auto_offset_reset` is not used.
* The clock of the REST service does not go back. Two publications may be of one second.
* Segments are numbers. `CtrlIndex`, `ActiveIndex`, `PublishIndex` and `KeyIndex` are the bytes the
  controller, a request, an announcement and a key make of one.

### 2.6 The client's connection

`AoSockChannel` counts bytes instead of spelling them out. A frame is what it says (`text`) and where it
begins in the stream of its connection (`at`); `w` is how far the stream arrives, `hi` how far it was
received. The decoder (`AoCommuProtocol` over `AoMemCache`) holds `old` bytes of earlier connections
followed by this connection's bytes from `lo` up to `hi`. It hands on a frame of the stream when it is
*aligned*: nothing old, and a frame begins at `lo`. Otherwise it reads a header out of other bytes:
any length may come of it, the same as long as those bytes are in front (`told`), and what it then
hands on is `Junk`. A new connection (`NewStream`) leaves the decoder as it is.

`AoEncrypt` is the cipher for one byte, with the row of the table that a byte of the key selects. `aeKey`
is the key of the channel's only cipher: the reading thread sets it when a header is complete, the
communication thread when it begins to encode, and each uses it in a later step. `tmp` is
`m_pucTempBuf`: the reading thread fills it in one step and announces from it in the next, the
communication thread writes to it when a send has failed.

`AodsClient` adds the loop over the addresses, the communication thread and its queue (`commQ`), the
module and its queue (`modQ`), and `aodc`: per connection the machine's end (`cl`), what is on its way
(`cs`) and the other end (`srv`), the connection the machine is bound to, and the requests the
controller has still to answer. The program is `aods` or `install`, and the controller accepts it or not.

* Connections are numbered, and a number is used again once nothing remembers it (`Unused`): so a few
  numbers do for any number of reconnects. Serials are named by the connection they were drawn for.
* The 5 s between two attempts are kept as an order only: an attempt follows the end of the last one.
* Keys of frames are drawn when the decoder reads them: nothing tells them apart before.
* `Recv` takes any part of what has arrived. A time-out of 60 s (`RecvTimeout`) comes only when nothing is
  under way between machine and `aodc` and nobody probes: `Silent`.
* `aodc` handles a request as `AodsAuthModule` does; a refusal as unknown and one as a clone are one,
  and so are the answers "busy" and none. What it has written to a connection it closes arrives, unless
  it leaves something unread, for which TCP sends a reset.
* A stop closes the socket. The thread that waits in `recv` on it is not woken (`Blocked`): the
  connection stays until data, its end or the time-out come.

## 3. What is checked

For `aodc`, `Spec` allows every interleaving. The runs differ in the machines (one, two with one id, two with
ids of their own, an installation), in what may go wrong, and so in the question they ask.

| run | instance | shows |
|---|---|---|
| `Session` | two connections of machines with one id at different addresses, closing or vanishing; others may fill the select groups | the maps agree with each other and with the life of channels; the id is neither taken over nor locked out; no request for authentication is forgotten |
| `Routes` | two ids, one unknown to the controller, reports, a publication | updates and acceptance reach only whom they are for |
| `Faults` | one installation and one machine of aods on two connections, a message lost or an answer repeated, one round of probes | one answer per request; no activation unknown to the controller; stale routes heal although every probe may fail |
| `Ghost` | fairness of threads, hosts vanish | the id of a half-open connection becomes free once its host asks again |
| `Client` | a machine of either program, accepted or not; two addresses, one unreadable; three numbers of connections; one failure of the network | frames arrive whole and in order, one request per connection, the serial stored is the one answered, and in the end the machine is served or stops |
| `Queue` | two posters, the module's own posts, an exit; buffers of 7 units, headers of 2, data of 1 or 3 | walks stay on headers, order is kept, the whole implements `ModuleFifo` |
| `Timer` | two timers of one object, set, set again, killed; 13 ticks to the wrap | one tick at a time, none after a kill, none slept over; each ticks in the end |
| `Update` | a module, of aods itself or another; two publications, one failure anywhere | files never go back, the last publication is installed in the end, the machine comes to rest |
| `Controller` | segment 1 of two, two machines, two versions, two threads of the REST service, two failures or restarts | the target never goes back and no confirmed machine is refused, but for what a load that was broken off had not read; every request for an id is served |
| `RouteLost`, `TimerEnds`, `Segment` | smallest instances | three disagreements with the code's own words (section 5) |

In `Session` the two machines stand for a clone of a machine, and as well for one machine that comes
back under another address: aodc sees a request with an id and addresses either way.

Properties, each stated with the code it is about (those of `aodc` in `AodcProps`):

* authentication: `OwnerMapsInverse`, `NoLockout`, `OwnerHasRid`, `OwnerKeptUntilReleased`,
  `NeverForgotten`, and the liveness property `BindingReleased`;
* routes: `RouteSound`, `PushToRightHost`, `OnlyAccepted`, `StaleRouteHeals`;
* activation: `RequestMapsInverse`, `AnsweredOnce`, `ActivatedIsReported`;
* queue: `Aligned`, `InOrder`, `FifoOrder` (the steps of `ModuleFifo`), `FifoServes` (its liveness: what is pending is served);
* timers: `OneTick`, `NeverOversleeps`, `KilledStaysSilent`, `SetTicks`;
* client: `RecvIntact`, `StoredChecks`, `AsksOnce`, and the liveness property `Converges`;
* updates: `NeverBack`, `SuccessIsReal`, `Converges`, `ComesToRest`;
* controller: `TargetNeverOlder`, `ConfirmedAccepted`, `ActivationServed`.

`RecvIntact` and `StoredChecks` each except a case the code does not handle: a connection that found bytes
in the decoder, or on which a send has failed; an activation asked for on another connection than
the one it was made for. Without the exception TLC violates each of them; so the exceptions say
how far the code goes. `TargetNeverOlder` and `ConfirmedAccepted` except the keys a broken load left
unread, and nothing else; without it TLC violates them as well (section 5). `Converges` of the client excepts leftover bytes too, which may swallow all
that follows.

Every property of a passing run is paired in `PROJECT.json` with a wrong variant of a definition under
which the same run finds it violated.

### 3.1 Bounds

`MaxChannel` = 2 connections: the hazards are about a connection and its successor, or two
connections at once; a third repeats the second. `MaxFault`, `MaxPublish`, `MaxRound` ≤ 1 bound
counters of the environment. `Crowded` says whether other machines may fill the select groups: then any
new channel may find no room. `Backlog` (at most `MaxBacklog` messages on their way inside aodc and on
the topics) bounds the search in `Faults` and `Routes` only: four messages are enough for a whole broadcast
with a request, or for a request, its answer and a release to be on their way together. All
runs disable the deadlock check because the number of connections is bounded: the machines stop
when no connection is left.

`Queue`: seven units hold two messages of three and leave one over; so headers without data, posts that
find no room at all, and a buffer that changes hands with old headers behind its length all occur
within `MaxPost` = 4 posts. A further poster would only be one more post at the same place: the lock
makes appends atomic. `Timer`: with periods of 1 and 2 and rounds late by up to 1, a whole period may pass
while a tick waits, and time wraps within the life of a timer; three calls are a set, a second set of
the same timer, and a kill.
`Update`: two publications let one overtake the other; `MaxFault` = 1 puts one failure at each place in
turn. `MaxBacklog` = 2 limits only the ticks of the check: none while two messages or tasks are under
way. The check comes every 120 seconds in the code, so more would mean a backlog of minutes.
`Client`: headers of two units and frames of three are the smallest that can be cut within the header and
within the content. `MaxLen` = 4 lets a misread header tell less, as much or more than a frame. Three
numbers: the current connection, one that `aodc` still holds, and one that a message in a queue was made
for. `MaxSent` = 3 bounds probes on one connection (answers are bounded by requests); three frames are
needed for a send to fail while the reading thread holds an earlier frame. Two keys are enough for one
thread to set another key than its fellow's. `MaxFault` = 1 puts a failure at every place, of
connecting or of a connection; a connection closed by `aodc` is no failure and not counted.
`Controller`: `MaxInput` = 6 counts a request or a failure as one, a publication as two. Without a failure it
allows three requests beside one publication, or two of each; with one failure one request less. With two
failures, a restart and a load that redis breaks off, it allows two requests, an id asked for and
confirmed, or two publications that overtake each other: each phase of the load is broken off with
something read and something not. A deletion during the load needs no failure.

### 3.2 Fairness

`ThreadFairness` (`Ghost`): the communication thread, the authentication thread and the select loop go on
while they have something to do. Each is a loop over its queue or its sockets that nothing but
process exit ends; an action of a thread excludes only its own others. No fairness is needed of
the update and activation threads: the authentication thread does not wait for them. No fairness is
assumed of machines, of the TCP stack's giving up (`GiveUp`) or of timers. In `Ghost` machines vanish
without a word; that a closed connection (`Ends = {"fin"}`) releases its id is the same chain of
threads from `OnDel` on.

The client (`FairClientSpec`): its reading thread, its communication thread and its module go on, each being
a loop; `aodc` reads each connection, handles requests, answers what the controller has been asked,
closes what has ended and releases the binding; and a silent connection times out after 60 s, as the
socket option says. Nothing is assumed of the network's failures, which are bounded, nor of probes:
a machine `aodc` probes needs no time-out, one it does not probe is found out by silence.

The queue: the module's thread goes on with its loop, and a poster that has appended gives its signal
(`FairQueueSpec`); nobody has to post. The timers: the thread goes on and time passes
(`FairTimerSpec`). Updates (`FairManagerSpec`): the manager's thread and the download thread go on, the
client reconnects and is accepted, the timer ticks while it is set, and the controller works through
its topic; failures and publications are bounded, so in the end there are none. `Converges` takes the
120 s timer to be endless, which it is meant to be, see `TimerEnds` in section 5. It excepts a list torn
by a crash, which nothing repairs.

## 4. What is proved

The provers establish the following for every number of machines, ids, connections and requests
and every bound, from the named assumptions on the constants (`DispatcherAssumption`,
`CommuAssumption`, `HostsAssumption`, `KafkaAssumption`, `UpdateAssumption`; for the other modules
as named below).

**Types** (`AodcOwner`). `TypeOK` is not inductive: handlers take a channel, an id or a uuid out of
a message and use it as a key. `Typed` adds what each queue, the posts of a running handler, and
the two directions of a connection hold: a SEND of an activation result carries a uuid or nothing,
a RECV for the authentication module an id and addresses, a verdict an id, and so on.
`TypedAlways` and `TypeCorrect` follow, one lemma per thread.

**One connection, one id** (`AodcOwner`). `OwnerMapsInverse` and `RouteSound` are not inductive: a
second request of a bound channel for another id would break the first, an announcement of a second
id for a channel the second. No handler tests for either. The reason they do not occur is outside the
handlers: a connection has one machine behind it, which has one id. `Says(c, r)` collects all that
names id `r` for channel `c`: both maps, a request on the wire or in a queue, an announcement, an
update sent. The invariant `OwnerInv` says that all of it agrees (`OneId`), agrees with the machine
(`IdOfHost`), and that a channel not yet accepted has left no trace (`Untouched`). Only `Connect`
names an id anew; every other step only passes on what was named (`NoNewName`), which is proved
thread by thread. `QuietPosts` and `Delivered` are needed for posts still to be made and for frames
delivered. From it follow:

* `OwnerMapsAgree`, `RoutesAgree`: the maps of the two modules are consistent;
* `OwnersAreGenuine`: the holder of an id is a machine of that id;
* `UpdatesReachTheirHost`: an update is never written to another machine, though its route may be
  long out of date when the communication thread sends it;
* `OwnerKept` (an action property): nobody takes an id over while its holder has not been released.

TLC checked the parts of `OwnerInv` on the instances of `Session` and `Routes` before the proof.

**No entry outlives its channel** (`AodcRelease`). `NoLockout` and `StaleRouteHeals` speak of a state in
which an entry names a channel that is gone, and ask for a message that will erase it. They are not
inductive, for a handler that makes an entry looks at no such message: the order in the queue decides.
`ReleaseInv` is about that order.

* `OneLife(c)`: of the messages by which other threads begin and end a channel, NEW and DEL, one is at most
  in the queue of the communication module, and none while `c` is in the select group;
* `RequestsClosed(c)`: once the communication module has dropped `c` and its FREED is posted, that
  FREED stands behind every request that came over `c` in the queue of the authentication module, and is
  in that queue as long as an id is bound to `c`. So the binding a late request makes is erased by a message
  that is already there;
* `AnnouncesClosed(c)`: the same for the announcement of an authenticated channel and the queue of the
  update module, except while a frame is still to be sent over `c`. The verdict is posted as an
  announcement first and as a frame second (`OnAuthAck`), and sending over a dropped channel fails, which posts
  FAIL to the update module behind the announcement. Posted the other way round, the entry
  would stay for good.

`PostsAllowed` says what a handler that is not at its end may still post. From the invariant follow
`NoIdLockedOut` and `StaleRoutesHeal`. The order of two posts of one handler, and that every post is behind
what is in the queue already, is all the proof takes from the bus.

**The controller's decisions** (`AodcAnswers`).

* `GenuineAlways`: a good verdict that names an id the controller has not registered is nowhere, neither
  in a queue, a post, on a connection nor in a route (`Genuine`). `OnlyAcceptedAlways` is the part of it that a machine sees.
* `FiledAlways`: a request for activation is in one place at a time (`OneRequest`). The places are the wire, the queue of the
  activation module, its file (`m_mapCu`), and for the answer the posts of the handler, the queue of the
  communication module and the connection to the machine; it is there once (`Single`) and in no
  other of them (`OnePlace`). With it the maps of uuids and channels stay inverse
  (`RequestMapsAlways`), although a second request of a channel would overwrite one of them only, and
  `AnsweredOnceAlways` follows. The model takes it from
  `CAoHelper::GetUuid` that a uuid is never made twice; `FiledOnce` says that one not yet made is not on file.
* `ActivatedIsReportedAlways`: as long as kafka has lost nothing, the controller has been told of an activation,
  or the message is in the queue of the kafka module, before its answer is posted (`ReportFirst`). Here the
  handler does post in the order that is needed, as it does for verdicts.

* `NeverForgottenAlways`: `NoneForgotten` follows a request for authentication on its way. It is on the wire,
  in the queue of the authentication module, or a question or a verdict about its id is under way and the id
  is bound to this very connection, or the answer or the disconnection is posted, queued or delivered. The
  verdict names the id only, so the proof has to show that the binding does not go while the machine
  waits: nothing but FREED or FAIL of the connection removes it, and these are posted only when the socket is
  closed or its other end is gone (`EndsAreReal`). FAIL is also what sending to an unknown channel gives,
  so one needs that a channel leaves no trace, in any queue or map, before it has been entered in
  `m_mapAC` (`Fresh`), and that a machine's connection is its own (`Linked`). Like the property,
  it is about kafka as long as it has lost nothing.

TLC checked `Genuine`, `Filed`, `ReportFirst`, `Fresh`, `Linked`, `EndsAreReal` and `NoneForgotten` on the instances of
`Session`, `Routes` and `Faults` before the proofs.

**The walk over a buffer** (`QueueProofs`). That the walk only reads headers (`Aligned`) depends on what
the buffer holds from one header to the next, on what an earlier round left behind its length, and on the
message that may be torn at its end. `QueueInv` says of both buffers: headers are chained by their lengths
from 0 to the end, the last possibly reaching past it (`Chained`); their ids ascend (`Sorted`); the
thread's offset is on the chain (`Cursor`); ids are below the count of posts (`Named`); and what is
still to be handled comes after all that was handled (`Later`). `NeverMisaligned` and `HandledInOrder`
follow for any sizes of header, data and buffer, any number of posters and either build, from
`QueueAssumption` and `JunkAssumption`; `QueueTypeCorrect` is a part of the same invariant.

**The queue is a FIFO** (`QueueProofs`). `QueueImplementsFifo` is the safety half of the refinement. The
mapping asks what a walk over a buffer will find, which as a definition by recursion would be out of reach;
the history variables `ahead` and `behind` turn it into something to be kept step by step. `Reaches` says
that they are right: they begin where the walk begins, each place leads to the next, all are headers, and the last leads
to the end of the buffer or past it. With `Chained` the last leads either exactly to the end or past the whole
capacity (`WalkEnds`), so after a torn message `behind` is never extended again, and the FIFO is spoilt. `PostWalk`
shows of a post that it appends one message or none, `StepWalk` of `DoMsg` that it takes the first. For `Swap`
one needs that nothing of the old batch is left (`Turned`): the loop over a batch ends early only
when the module stops, and then there is no further swap. Each step is a `Post`, a `Renew`, a `Serve` or
a stutter (`FifoStep`). TLC checked `Reaches` and `Turned` on the instance of `Queue` before the proof.

**The timers** (`TimerProofs`). That no two ticks of a timer wait is not inductive over either queue: it
rests on the rounds of the thread. While it handles a batch no tick is in the queue, and while it waits
the batch is empty (`Rounds`), so the ticks of one round are handled before `ProcTimer` posts the next; and a key has one
timer (`Unique`), so a round posts one tick for it (`TickOnce`). `SleepsNoLonger` follows from `Rested`: no
period ends before the thread is to wake, whatever has been posted since. Its arithmetic is that of
differences modulo `Wrap` taken as signed: time passing by one takes one from what is left, across the wrap
too (`Nearer`, `LeftPasses`), and a period that has just begun is left whole (`LeftFired`), which needs it
to be shorter than half the range of time (`Periods`). So `TimerAssumption` asks for, and so does the code: 24 days. The sleep
is the least of a set of naturals; that there is one is taken from the well-foundedness of the
naturals (`MinOf`), in place of an induction over the list. `KilledAreSilent` follows from `Asked`: what runs was
set and not killed since. `TimerTypeCorrect` needs the same invariant. TLC
checked `TimerInv` on the instance of `Timer` before the proof.

**The controller** (`CtrlProofs`). `ConfirmedAccepted` follows from `OwedKnown`: a machine owed an
acceptance has its record, and is active in the memory of a process that is loading or consuming, or among the
keys it has not read; an id in use is never allotted anew. `TargetNeverOlder` follows from `TargetKnown`,
which says the same during the load: a publication that was announced and is not covered by the
target is among the keys still to be read. That the keys are read while others are
written does no harm, since a key only gets newer. This rests on the database, for a
restarted controller knows nothing else.
`OrderInv` says what concurrent publications do to it: the only publication of a version is at least as
young as the version's keys (`JobsInOrder`), no key is younger than the clock (`KeysPast`), and an
announcement is at most as young as the keys it names (`AnnouncedWritten`). `TargetIsNeverOlder` needs
the assumption that the segment is not 255: there the keys written and the keys read differ (section 5).
`ActivationIsServed` needs the same assumption on the segment; without it the run `Segment` refutes
the property. It is inductive with the types: an answer is never taken back, the offset moves behind
a request in the step that answers it, and faults are only counted up (`FaultsCount`).
The assumptions are `DbAssumption` and `CtrlAssumption`. TLC checked `OrderInv`, `OwedKnown` and
`TargetKnown` on the instance of `Controller` before the proof.

**The client's channel** (`ClientProofs`). `KeyDoesNotMatter`: decoding undoes encoding with any two keys,
since every row of the default table is the same (`AoEncrypt.cpp:38` keeps
the low byte). It is why the cipher the
two threads share does no harm, and it would not hold of a table worth its name. `RecvIntact` is
not inductive: it says nothing of where the decoder stands. `StreamInv` says of the stream that frames
follow each other without gaps (`Chained`), and of the decoder that it never runs ahead of what has
arrived and that a frame it is about to hand on is there to its end (`Whole`), in step or not.
`FreshInv` says that a decoder that began empty stands where the next frame to be announced begins;
`IntactInv` that the buffer of announcements, while no send has failed, holds that very frame.
`NextInFront` joins them. Only reading, sending of `aodc` and the network touch the stream: `QuietKeeps`
covers the twenty other actions. From it `FramesIntact`, and `DecoderNeverOverruns`: what is removed from
the cache is never more than it holds. `ClientTypeCorrect` needs that the thread at a message has it at
the front of its queue. The assumptions are `KeyAssumption`, `ChannelAssumption` and
`ClientAssumption`. TLC checked the parts of the invariant on the instance of `Client` before the proof.

**What the client asks** (`ClientProofs`). `AsksOnce` counts the requests of a connection in four places: the
queue of the communication thread, the wire, the controller, the binding. `AskedOnce` says more of them and of what
comes before. A connection is announced to the module at most once, and while it is announced nothing has been
asked for it; a request in one place excludes the later ones (`OnePerConn`). The connection just built has
left no trace (`NewConn`), which is needed because `Connect` takes any number that nothing remembers (`Unused`). A
request is on the connection it was made for (`OwnSerial`). The code `install` stores is the one for its
serial, because a code only comes after the request and before the next announcement (`Asked`,
`CodesFit`); `StoredTogether` follows. All of it holds until a request is sent on another connection than its
own, which the history variable `late` records and section 5 describes: the two properties exclude that case, and
`AskInv` states exactly `~late => AskedOnce`. `RequestsInOrder` is the theorem of the invariant.

**Updates of a machine** (`UpdateProofs`). `NeverBack`, that the files of a module never get older, has no
comparison of versions in the code behind it. What it rests on is that between the target and the files
there is nothing but queues. `Rising` reads them as one line of seven stages: the files, results of
downloads, the tasks the download thread has taken, the tasks waiting for it, offers in the inbox of the manager,
offers on the connection, the target of the controller. Of two versions of a module in the line the one nearer
to the files is not the later. A broken connection cuts queues, a restart empties them, a repeated check adds the
target at the end: none of it changes the order, and `FilesNeverBack` follows from the invariant at the
step that unpacks. `SuccessAlways` follows from `Reported`: every report of success, in the manager's hand
or on the connection, is about a version that was unpacked to the end. The assumption is `ManagerAssumption`, which names a finite
set of modules. TLC checked `Rising` and `Reported` on the instance of `Update` before the proofs.

**Only model-checked.**

* the liveness half of the refinement, `FifoServes`, and that a timer ticks in the end, `SetTicks`;
* the other liveness properties, `BindingReleased`, the two `Converges` and `ComesToRest`. All of these are about
  fairness and ENABLED, which are out of reach of the provers.

Every invariant and every action property of a passing run is proved.

## 5. Findings

* `RouteComplete` (`RouteLost`): the release of an old channel erases the route of its successor,
  because `OnChannelFreed` of the update module (`aodc/UpdateModule.cpp:71`, and `:61`) erases the
  entry of the id without looking which channel it names, and the release reaches the
  authentication module first. The machine stays connected and probed, and gets no more updates.
* `EndlessGoesOn` (`TimerEnds`): `util/Module.cpp:144` gives a timer without end its own time as its
  count (`unTime` where `unTimes` is meant): after its first tick it is an ordinary timer that ends after
  as many ticks as the machine had been up for, in milliseconds. The 50 s probes of aodc and the 120 s
  check of aods are such timers.
* `ActivationServed` (`Segment`): a controller started for segment 255 answers for segment 0
  (`py/PrjDeployCtrl/DeployCtrl.py:8`, modulo 255) and ignores the machines installed for 255, a segment
  that the README and the installer name as valid.

Observed and not run:

* a record deleted while the controller loads, or a failure of redis, ends the load, which is swallowed
  (`py/PrjDeployCtrl/DeployCtrl.py:40`). Every confirmed machine not yet read is then refused, in the words
  of the comment at `:91` as "illegal", at which its `aods` stops itself (`aods/AodsAuthModule.cpp:69`), and
  no machine gets an update until the controller starts again. Broken off among the publications, the load
  leaves a target that may be older than before. `ConfirmedAccepted` and `TargetNeverOlder`
  except these two cases; with two confirmed machines, one restart and one deletion TLC violates the first
  without its exception;
* `aodc/AodsActiveModule.cpp:84` returns before the address of a channel is erased for every channel
  without a pending request, so `m_mapCA` grows with every connection;
* `util/AoUnzip.cpp:29` drops the result of writing, so a full disk leaves a module recorded as up to date
  whose files are not those of its version; the check compares versions only and repairs nothing;
* a machine deleted by the REST service comes back with the next record the controller or an edit writes
  for it, and edits made since the controller's start are overwritten (`DeployCtrl.py:105`);
* an id that was allotted before a restart of the controller and is confirmed after it is refused for ever;
* `util/AoTcpServer.cpp:75` gives `select` the highest descriptor where it needs one more, and sets its
  time-out once (`:63`), which Linux counts down: built there with one listener, `aodc` never accepts anybody. The
  models follow the Windows branch;
* `util/CommuModule.cpp:102` tells the end of a channel by a byte of the channel object that is there in the
  64-bit build only;
* `OnSendDataFailed` of the sending thread writes to the buffer from which the reading thread is about
  to announce (`util/AoChannel.cpp:43`): a verdict or a code received at that moment is lost;
* the decoder of a client outlives its connection: the rest of a cut frame may swallow all that
  the next connections bring, until the process is started anew;
* a request may go out on the successor of the connection it was made for, which then carries two. For
  `aods`, `aodc` frees both connections and the next one heals it; `install` may store the
  answer to the first under the serial of the second (`install/AodsActiveModule.cpp:219`), and `aods` then
  refuses its own activation file;
* the rest of a frame sent in part may go to the next connection, where `aodc` waits for a frame that
  never ends; 60 s of silence heal it;
* stopping waits for a thread in `recv` that `close` does not wake, until the next probe or for 60 s;
* a machine that comes back under other addresses while its old connection is half open is told to stop
  as a clone (`aodc/AodsAuthModule.cpp:102`);
* a publication that fails half-way is not announced, but takes effect at the controller's next start in
  the segments already written.

## 6. Not modelled, and the plan

Order of the work:

1. done: `aodc`, its types and ownership proved;
2. done: `ModuleQueue` and its refinement of a FIFO, `ModuleTimer`, both proved;
3. done: `UpdateModuleMgr`;
4. done: `DbEngine` and `DeployCtrl`, with proofs; to come: the composition of `Aodc` with `DeployCtrl`
   instead of the answers of `KafkaLink`;
5. done: `AodsClient` with framing and cipher, types and frames proved;
6. done: proofs of the release of channels, of the controller's decisions, of what the client asks, of updates
   (section 4).

The mapped code is a small part of all lines in the repository, since most of them are vendored
(`librdkafka`, `zlib`, the generated table of `rdkafkacpp.h`, `CJson`): of the programs' own C++ and Python
that keeps state, what is not mapped is the user interface, the publishing tools, start-up and I/O.

Left out for good: vendored and third-party code, the user interface, wrappers of the operating
system, HTTP, files and hashes (their results are nondeterministic where a model uses them),
installation and start of services.
