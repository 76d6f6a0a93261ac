# A TLA+ model of gb_stream_server

gb_stream_server relays camera streams to clients of a GB/T 28181 platform. A
SIP server sends it an INVITE, an ACK and later a BYE for each call; it
connects to a media source (the *hbserver*), takes frames from it, packs them
as MPEG-PS over RTP and sends them by UDP to the address named in the INVITE.
Several calls may ask for the same camera stream and then share one source
connection. The sources are under `src/src` (paths below are relative to it).

## 1. Inventory

### Threads

* One **libevent loop** (`sip.c:557`, `event_base_dispatch`): every callback of
  SIP, stream requests, source connections and RTCP timers. Callbacks run one at a
  time; the bufferevents of the pair and of the sources are deferred.
* **Pool tasks** (stpool, `iMaxConnections` threads): one
  `send_rtp_to_client_task` for each stream that has delivered an I frame.
* `scanning_task` prints memory use and has no shared state.

### Components

| part | state | operations | what makes it correct |
|---|---|---|---|
| SIP dialogue `sip.c`, `sip_hash.c` | table of SIP nodes by Call-ID, each with the sockets of its call | `udp_recv_cb`: INVITE, ACK, BYE; `sip_pair_read_cb` | retransmissions change nothing; sockets are not lost, the two sides agree that a call is over |
| Message pair `sip_stream_msg_pair` | an input buffer each way, a callback argument | PLAY and STOP to the stream side, "client timed out" back | no request stays unread, none is replaced by another |
| Stream requests `stream_moudle.c`, `stream_hash.c` | table of stream nodes (bucket mutexes), client lists | `stream_read_cb` PLAY/STOP, RTCP timer and time-out | one node per stream, one client per call |
| Stream source `get_frame_from_hbserver.c` | two flags of the node, source bufferevents | connect, command exchange, frames, errors | node freed once, by the right thread |
| Send task `send_av_data.c` | the node's flags, its walk | start, take a frame, send it, quit, wait, free | ends when the source does; frees what is left |
| RTP packing `rtp_pack.c`, client removal `client_opt.c` | client list, walk index, event pointers | walk over the clients, `del_one_client_node`, `destory_client_list` | every client once per packet; no timer on a freed client |
| Lock-free queue `common/lf_queue.c` | units, slots, `r_len`, `w_len` | init, push, pop | FIFO, no unit in two hands, exact room |
| Linked list `common/simclist.c` | chain, middle pointer, length | append, `list_get_at`, locate, delete | index finds the right element |
| Source blocks `get_frame_from_hbserver.c` | input buffer and its marks, `iRecvStreamDataLen`, the buffer of the node | split a command, put together an answer and frames | a frame is whole, in order, whatever TCP cuts; reading is never suspended for good |
| Time stamps `send_av_data.c`, `stream/ps.c`, `stream/rtp_pack.c` | time of the stream, last camera time, last step | one frame's time as SCR, PTS, RTP time | runs forward, follows the camera, one moment in three fields |
| Path of a frame `stream/ps.c`, `stream/rtp_pack.c` | the frame's buffer, sequence number, the walk's flags | PS headers and PES pieces, RTP packets | the packets of a client are the frame; no number is skipped |
| Port search `sip_hash.c` | sockets of a call, the number told to the SIP server | bind RTP and its neighbour | the answer names the bound port; no socket is left |
| Offer `sdp.c`, `sip.c` | lists of the session and its media | parse, find, release | each value is taken from its description |
| Configuration `config_opt.c`, `main.c` | settings | find a key in a section | the value of that key, or the default |
| TCP helpers `common/net_api.c` | bytes left | send and receive a whole message | whole message or error |
| RTCP reports `stream/rtcp_pack.c`, hash functions | - | formatting, arithmetic | not modelled, see 6 |

The loop and a send task share, per stream node: the bucket mutex, the flags
`uGetStreamThreadStartFlag` and `uRtpClientNodeSendDataThreadFlag` (read and
written without the mutex), the client list (appended under the mutex, read
without it) and the queue. The SIP side and the stream side share only file
descriptor numbers and the message pair.

### What is hard

Starting and ending a send task by two unprotected flags; freeing a node that
either thread may free; removing clients while frames are sent and timers run;
the unlocked reads of the client list; the queue's counters; Call-IDs known on
two sides that are told of failures only partly; datagrams that are repeated or
overtake each other. Beside concurrency: lengths that do not fit their field, numbers that
wrap, a camera's clock that jumps, bytes that TCP delivers in any pieces, lists that
move from a structure to the heap. `PROJECT.json` lists each hazard at its line with the
properties that cover it.

## 2. Modules

| module | models | refines / uses |
|---|---|---|
| `StreamNode` | the stream nodes of one bucket, the loop's part and the tasks' part, with clients and RTCP timers | frame queue as its length, client list as a sequence |
| `StreamNodeProofs` | theorems about the nodes of `StreamNode` | |
| `StreamClientProofs` | theorems about its clients | extends `StreamNodeProofs` |
| `BoundedFifo` | what a node expects of its queue: a bounded buffer whose push and pop have the steps reserve/store/announce and claim/take/release | |
| `LfQueue` | `nolock_queue_push` and `_pop`, one shared access per step | implements `BoundedFifo` |
| `LfQueueProofs` | theorems about `LfQueue`, with the refinement | |
| `ClientList` | simclist as the client list uses it, with the loop's appends and the task's unlocked lookups store by store | |
| `SipSession` | calls, sockets and the message pair between the SIP side and the clients | stream side as in `StreamNode`, reduced to clients |
| `FrameClock` | the time of a stream and its three stamps | |
| `SendPath` | one frame from the queue to the packets of each client: `ps_process`, `get_rtp_ps_pack`, the walk | the list's interleavings are `StreamNode`'s |
| `PortSearch` | `udp_bind_local_port` among the other programs of the machine | |
| `SdpOffer` | `sdp_parse`, `parase_invite`, `sdp_destroy` | |
| `TcpTransfer` | `send_data`, `recv_data` and their `_ep` variants over a connection that cuts, stops and breaks | |
| `ConfigFile` | `get_string_value`, `get_int_value`, `get_server_config` | |
| `StreamIntake` | the blocks of the hbserver's connection, the watermarks of its bufferevent | the node's life is `StreamNode`'s |
| `SipSessionProofs` | theorems about `SipSession` | |
| `BufferProofs` | theorems about `BoundedFifo` and `ClientList`, and about all components of `MCComponents` | extends the two below |
| `MediaProofs` | theorems about `FrameClock`, `StreamIntake` and `SendPath` | |
| `SetupProofs` | theorems about `PortSearch`, `SdpOffer`, `ConfigFile` and `TcpTransfer` | |
| `NumberSets` | the first, the last and the how-many-th of a set of places | used by `SdpOffer` and `StreamIntake` |
| `SequenceFacts` | induction and facts about sequences and places for all proofs | |
| `MCStreamNode`, `MCSipSession` | constants and symmetry for TLC | |
| `MCComponents` | the nine components that share no state, side by side | `BoundedFifo`, `ClientList`, `FrameClock`, `SendPath`, `PortSearch`, `SdpOffer`, `TcpTransfer`, `ConfigFile`, `StreamIntake` |

`LfQueue` has no MC module: its parameters are plain numbers. `MCComponents`
chooses at the start which component moves; the others stay in their initial
states, so its states are the sum of theirs and every property is checked on the
component as its own module specifies it.

### StreamNode and the code

| model | code |
|---|---|
| `lock` | `lockStreamNodeMutex` of the bucket; held by `Free` or by the node whose task holds it. What the loop does under it is one step, enabled when it is free |
| `loop`, `cur` | the callback the loop is in the middle of, and its node or client. `idle` between callbacks |
| `nNodes`, `heap`, `table`, `key` | `calloc`/`free` of stream nodes, the bucket's list, the stream of a node |
| `src` | `uRtspPlayFlag` and the two source bufferevents: `none`, `connecting`, `cmd` (command sent), `stream`, `closed` |
| `getFlag` | `uGetStreamThreadStartFlag` (0, 2) |
| `sendFlag` | `uRtpClientNodeSendDataThreadFlag` (0, 1, 2) |
| `rlen` | `r_len` of the node's queue |
| `list` | `listClientNodeHead` |
| `call`, `cstate`, `del`, `iframe`, `timer`, `listen` | a client's Call-ID, its memory, `iDeleteFlag`, `iSendIframeFlag`, its two RTCP events |
| `hangup` | the argument of `sip_pair_read_cb` |
| `spc`, `walk`, `victim` | where a task is, the local variables of its walk over the clients, the client being removed |

A step is the code between two accesses to something shared and unprotected.
`recv_stream_cb` for an I frame that starts a task is `RecvFrame`, `QueueTask`,
`SetSendFlag`, `PushFrame`: between the second and the third the task may run.
The end of a source is `SourceError`, then (by what the loop reads in the flag)
`FreeUnstarted` or `HandOver...`. A task is `StartTask`, `CheckSource`,
`CheckClients`, `TakeFrame`, `FrameTaken`, `PackFrame`, then per packet
`NextPacket` and per client `VisitClient` with `UnlistClient`, `StopTimer`,
`FreeClient` for a flagged one; at the end `LeaveTaskLoop`, `SourceGone`,
`LockBucket`, `DrainClient` ..., `FreeNode`.

Left out of `StreamNode`, and why:

* simclist operations are atomic there; their interleaving is `ClientList`.
* The queue is its length: a push can also fail while a pop is between its two
  counters (`WLen`), as `LfQueue` allows.
* The branch in which `stpool_task_set_p` fails (`get_frame_from_hbserver.c:150`)
  is not reachable: the pool is created with `eCAP_F_CUSTOM_TASK`.
* `pSendStreamBev` and `hEventArgs` are never set, so their release is no step.
* The `sendFlag = 0` branch of `recv_stream_cb`'s error path (237-254) does what
  `recv_stream_err_cb` does and is the same action.
* A frame's kind is chosen anew when it is popped, so every order of frame kinds
  the queue could hold is covered.

### SipSession and the code

`sip` is the SIP node of a call (its socket as descriptor and as what the
kernel has behind it), `open` the kernel's table, `client` the RTP clients,
`mail` the input buffer of `sip_stream_msg_pair[1]`, `arg` the argument of the
callback of `sip_stream_msg_pair[0]`, `active` libevent's queue of callbacks. A
turn of the loop (`Dispatch`) activates the SIP socket and then timers that
have expired; a callback triggered meanwhile is appended once. `RecvInvite`,
`RecvAck`, `RecvBye` are the branches of `udp_recv_cb`, `ReadPlay` and
`ReadStop` those of `stream_read_cb`, `RtcpTimeout` and `SipPairRead` the way
back. `RemoveClient` is the end of a client in the task, `SourceFailure` the
loss of a camera. `peer` and `net` are the SIP server and the network, as
the circumstances of the behaviour (`world`) allow: in order, or repeated and
overtaking. A datagram
that cannot be parsed changes nothing and is not a step. A single RTP/RTCP
socket pair is one descriptor. libevent postpones a deferred callback to the
next turn when more than 32 are queued; it then still runs before the sockets
of that turn, so the order is the same.

### LfQueue and ClientList

`LfQueue` has the one producer (the loop) and one consumer (the node's task)
the server has. Each access to `r_len`, `w_len`, a slot or a unit is a step, in
the order of the source. Units carry numbers modulo `Window`, so that a lost,
repeated or overtaken one is seen. The refinement mapping reads off the stored
units round the ring from `p_head` to the unit linked last; that following `next`
from `p_head` yields just these, and then the end, is `ListIsRing`, a part of
`UnitsSafe`.

`ClientList` has appends store by store (`list_insert_at`), lookups load by
load (`list_get_at`, `list_findpos`), and deletions, which the task itself does
under the mutex, as one step. An entry fresh from `malloc` has null pointers. A
lookup that yields `NULL` ends the process, so this model may stop.

### The media path

`StreamIntake` is the connection to the hbserver at the level of bytes. A byte
carries the message and block it belongs to and its place in the block; the places of
the header are those up to 0, and its bytes stand for what it says. `SocketRead` moves any part of what is under way, within
`max_single_read` and the high mark, into the input buffer; the deferred callback
(`callback`) is due from the low mark on and runs before the socket is read again.
`CallbackBegins`, then blocks (`MiddleBlock`, and at the end of a frame
`FrameDropped`, `FrameQueued`, `ReplyAccepted`, `ReplyRefused` or
`CallbackBreaks`), or `CallbackReturns` when no whole block is there. `data` is
the receive buffer up to `iRecvStreamDataLen`; `replyText` what `strstr` sees
of it, since each callback of the command phase clears the buffer and not the length.
The model marks two facts the code leaves to its environment: an answer of
several blocks is only understood when it comes in one callback, and whole
frames below the low mark of 64 KB wait until more data comes.

`FrameClock` has one action per kind of frame: `Advance` is `send_av_data.c:212-258`,
`Scr`, `Pts` and `Rtp` cut the time into the fields of the three headers. The
groups have `H`, `2H` and `3H` bits (H is 5), the intermediate `HB_U32` has
`6H + 2`. An audio frame moves the time and is dropped.

`SendPath` lays the frame out in a buffer of symbols: `PopFrame`, `PesPacket`
for each turn of `ps_process`'s loop, `SetPack`, `SendPacket` for each packet with its walk over
the clients, `FrameSent`. The RTP header is written over the bytes before the
payload, which `HeaderAt` does, so that a header written over bytes not yet sent
would be seen in `rx`, what each client received.

### Ports, offer, configuration, TCP

`PortSearch` takes one step per `bind`. Other programs bind and release ports
between any two steps. A number beyond the last port is truncated by `htons`, and
0 lets the kernel choose.

`SdpOffer` grows the offer line by line with `sdp_parse`'s reaction to it: a
field, an entry of a list of the session or of the last medium, refusal, or the
end of the process. A list is a pair of what lies in the structure and what lies
on the heap. `Extract` is `parase_invite` and what `sdp_destroy` leaves.

`ConfigFile` writes a file of a few lines and reads it as `get_server_config` does.
`TcpTransfer` has sender, receiver and a connection that holds `Room` bytes;
waiting by `select` differs from waiting by `epoll` in what an interrupted wait does.

## 3. Runs

| run | shows | bounds |
|---|---|---|
| `stream_nodes` | no use after free, no leak, one task per node, one node per stream; the inductive invariant of the proofs | 2 calls for one stream, 2 nodes one after the other or overlapping, 2 pool threads |
| `stream_walk` | clients join, leave and time out during the walk | 3 clients, frames of 2 packets: a deletion at the first, middle and last place, and an append between packets |
| `stream_shared` | two streams in one bucket, one pool thread: no deadlock | 2 streams, 2 nodes |
| `stream_liveness` | a node that is given up is freed; a stopped client is, while frames come | 1 node, 2 clients |
| `stream_detached` (violation) | a dying node is still found by PLAY | |
| `queue_lockfree` | the queue implements the bounded buffer | 4 units, numbers modulo 7: the ring of slots is gone round and full and empty both occur |
| `list_race` (violation) | a lookup that meets an append | 3 elements |
| `components` | the nine components of `MCComponents`, each with its properties | see below |
| `media_keyframe` (violation) | a new client misses the first packet of its I frame | 2 clients, frames of up to 2 bytes |
| `session_calls` | sockets and agreement of the two sides | 2 calls, 3 sockets and clients: descriptors are reused and a call can be set up again after its BYE. The circumstances (`Worlds`) are: datagrams in order, RTCP in use, sources that hold or break off, timeouts singly or together; or repeated and overtaking datagrams while nothing fails |
| `session_source_failure`, `session_early_bye` (violations) | the SIP node or the socket left behind | 2 calls |

The components and the bounds of their run:

| component | properties | bounds, and what they let happen |
|---|---|---|
| `BoundedFifo` | `FifoExact` | capacity 4, numbers modulo 6: full, empty and wrap |
| `ClientList` | `RepOk`, `QuietLookupExact` | 4 elements: both parities, all three places `list_findpos` starts from |
| `FrameClock` | `StampsAgree`, `FollowsCamera`, `StrictlyForward` | H = 1: `HB_U32` has 8 bits and a clock field 9, the time goes to 560, past both wraps. Camera times 0 (none), 6, 13 and 263: jumps back, still, forward |
| `SendPath` | `FrameWhole`, `NoPacketSkipped`, `StartsAfterKeyPacket` | headers of 2 to 3 symbols, length fields up to 5, packets of 4, frames to 7: up to three PES pieces and several packets, all ways the end of a frame falls in a packet; sequence numbers modulo 3 |
| `PortSearch` | `PortsTold`, `NoPortLost`, `SearchEnds` | ports modulo 10, numbers tried up to 12, 2 calls, up to 3 ports held by others: neighbour taken, search beyond the last port |
| `SdpOffer` | `OfferUnderstood`, `LinesKept`, `GoodOfferAnswered` | 15 kinds of lines, offers of 5 lines, 1 entry in the structure, growth by 1: every list crosses to the heap and grows there; two media, an unknown line, too many formats |
| `TcpTransfer` | `TransferExact` | messages of 2, 3 and 2 bytes over a connection that holds 3 |
| `ConfigFile` | `ConfigExact` | files of up to 4 of 8 kinds of lines: repeated keys and sections, a prefix of a key, a missing value |
| `StreamIntake` | `SourceUnderstood`, `NeverStalls` | headers of 2 bytes and payloads up to 2, marks 3 and 6, 5 messages, commands to 5 bytes: every cut of a header, a block and a frame, a full buffer, answers of one and two blocks |

`TypesOK` is the conjunction of their type invariants. The constants keep the
relations of the real ones (a block fits under the high mark, the low mark is
above a header, a piece is shorter than a length field can say), which the
modules' assumptions name. Sizes that the code compares with only one bound are
scaled down with it.

`MinBacklog` is 1 instead of 15 and `QueueMax` 2 instead of 512: the sender only
compares with them, and with these values it meets the queue below the limit,
above it and full. Deadlock is checked except where the system may stop: in
`ClientList` after a NULL client, in `components` (where a file has been read, an
offer answered, a transfer ended, a bound reached), and in `SipSession` when all calls are over.

Several properties are conjunctions of named parts, each with its own comment and
its own mutants: `MemorySafe` and `CallsSafe` and `UnitsSafe` add to the
type invariant who may touch what; `FifoExact`, `FrameWhole`, `StampsAgree`,
`TransferExact` and `SourceUnderstood` put together what is one promise.

### Fairness

`StreamNode!FairSpec`: the loop finishes a callback it has begun (WF); a task
that could go on again and again does (SF: it is woken when the mutex or
`event_del` lets it; there is a pool thread for it, which the code ensures only as long as there are no more streams than `iMaxConnections`); a connected source calls the loop again and again (SF: it
has a 15 s read timeout). No client, call or timer is fair. `FlaggedClientFreed`
assumes in addition (`CameraGoesOn`) a camera that keeps sending I frames while
it is connected; without frames nothing looks at `iDeleteFlag`. `SipSession!FairSpec`:
the loop runs its callbacks, and a flagged client or a dying node's client is
removed, which is what the two liveness properties of `StreamNode` say.
`MCComponents` has one fairness condition, for `PortSearch!Search`: the search is a
loop of the event thread. `SearchEnds` holds without RTCP; with it the search may go on for
ever beyond the last port, because the neighbour of the port the kernel chose can be taken.

## 4. Findings

The violation runs show where code and description part; each is in
`PROJECT.json` with the text it contradicts. A dying node stays findable
(`stream_detached`); an unlocked lookup can return the wrong client or NULL
(`list_race`); the SIP side is not told of a lost source
(`session_source_failure`); a BYE before the ACK leaves sockets open
(`session_early_bye`); a client that waits for an I frame is switched on by
its first packet and served from the second (`media_keyframe`).

The models of the offer and of the connection state what the code does where it is
surprising, without a text to contradict it:

* An unknown SDP line ends the process by an assertion (`sdp.c:1365`), so does a
  second `u=`; an offer without `o=` or without a session `c=` is read through NULL
  (`sip.c:242`). `GoodOfferAnswered` speaks of offers without these.
* An `m=` line with 14 formats or more cuts off the rest of the offer
  (`sdp.c:1094`); an `r=` line with two offsets keeps the event thread for ever (`sdp.c:791`).
* The bandwidth list of a medium is not freed when it has grown (`sdp.c:1251`).
* After 2^32 ticks the PTS, cut to 32 bits, is behind the SCR by half its range (`ps.c:653`).
* An answer of several blocks that comes in several callbacks is refused
  (`get_frame_from_hbserver.c:331`), and up to 64 KB of whole frames wait for more data (`:370`).

`SipSession` states two properties twice: as the flow description
(`src/国标流媒体流程图.docx`) promises them, `AllLinksClosed` and `SocketsKnown`, and
as the code keeps them, `LinksAgree` and `NothingLeaks`. `LinksAgree` also has to
leave out two RTCP timeouts in one turn of the loop: the call to stop travels as
the argument of a callback that runs once, so the second timeout replaces the
first (`stream_moudle.c:57`), whose SIP node then stays. And it speaks only of
circumstances that `Bearable` names: when an ACK is repeated just as the client of its call
times out, `stream_read_cb` finds only a flagged client or none and makes a second one of the
same descriptor, which is then closed twice, the second time for the call that has been given
it since. (The proof asked for this condition; the runs' circumstances all meet it.) `CallsSafe` (its part `OwnSocket`) holds when
datagrams come in order, whatever fails, and when nothing fails, whatever the
network does; with both, a late ACK can make a client of a descriptor that has
been closed.

## 5. Proofs

TLAPS proves, for all values of the constants:

* `StreamNodeProofs`: `NodeInv` is inductive; from it `TypeOK`, `NodeSafe`,
  `StartHandshake`, `NoOrphan`, `WalkInBounds`. Assumptions: those of
  `StreamNode` (the queue limit is above the backlog limit, bounds are naturals).
* `StreamClientProofs`: `StreamInv`, which is `NodeInv` with an invariant of the
  clients, is inductive; from it `MemorySafe`, `NoDuplicates` and the action property
  `KeptWhileServed`, under the same assumptions.
* `LfQueueProofs`: `RingInv` is inductive; from it `UnitsSafe`, `LenIsHonest`,
  `FirstTrySucceeds`, and that the queue implements `BoundedFifo` (`ImplementsFifo`), for
  every capacity above 0 and numbering with more numbers than units.
* `SipSessionProofs`: `SipInv` is inductive; from it `NoRequestLeft`, `CallsSafe`,
  `NothingLeaks` and `LinksAgree`, for any number of calls, sockets and clients and for
  all circumstances, the ones the runs leave out included.
* `BufferProofs`: for `BoundedFifo` `TypeOK` and `FifoExact`, for every capacity and
  numbering; for `ClientList` `ListInv`, which is inductive, and from it `ListTypeOK`,
  `RepOk` and `QuietLookupExact`, for any number of elements; and `TypesOK`, for all components
  of `MCComponents` side by side.
* `MediaProofs`: for `FrameClock` `ClockTypeOK`, `StampsAgree`, `FollowsCamera` and
  `StrictlyForward`,
  for every set of camera times and every width of the fields; for `StreamIntake`
  `IntakeTypeOK`, `NeverStalls` and `SourceUnderstood`, for every command, every sequence of
  messages and every way TCP cuts them; for `SendPath`
  `PathTypeOK`, `NoPacketSkipped`, `StartsAfterKeyPacket` and `FrameWhole`, for any number
  of clients, every frame, every packet size and every length field.
* `SetupProofs`: for `PortSearch` `PortsTypeOK`, `PortsTold` and `NoPortLost`, for any
  number of calls and ports, whatever the other programs do; for `SdpOffer` `OfferTypeOK`,
  `LinesKept`, `OfferUnderstood` and `GoodOfferAnswered`, for every set of lines, every length
  of an offer and every growth of the lists; for `ConfigFile` `ConfigTypeOK` and
  `ConfigExact`, for every file; for `TcpTransfer` `TransferTypeOK` and `TransferExact`, for
  every sequence of messages and every room.

The assumptions are those of the modules, which TLC evaluates in the runs. `StreamIntake`
assumes that a block fits the buffer of the node (`NET_BUFFER_LEN`, `inc/stream/get_frame.h:78`)
and that the first mark of the watermarks is not above a whole block with its header, as
the numbers of the code are, that every message has a block (`byBlockEndFlag` is on a last one),
and that the word that says an answer succeeded is in one of its blocks; `ConfigFile` that a value is a number or left out (what
`atoi` yields); `SdpOffer` that `NULL` is not a line.

The argument for the nodes is who may free a node at each point. `NodeSafe` by
itself is not inductive: that the loop frees a node only when there is no task
needs that `sendFlag` tells whether there is one. This is so except between
queueing the task and the late store of the flag; there the client list is
not empty and nothing has been pushed yet, so the task cannot take a frame, and
it cannot have left, since the source is still open. Conversely a task frees a node
only with `getFlag = 2`, which the loop stores as its last access. `NodeInv`
states this as `LoopInv`, `AllocInv`, `FlagInv`, `IdleInv` and `WalkInv`
(remembered size, index and steps left of the walk), one lemma per action
proves its preservation.

The argument for the clients is where a client's memory is. `ClientSafe` by itself is
not inductive: it does not say that a client is in one list, once, so taking it off one
place could leave it in another; nor that two tasks never tear down the same client; nor
that a timer still pending, or its callback still running, belongs to a client whose
timer nobody has deleted yet. `ClientInv` says so: a listed client is in one list
(`MemberInv`), a detached one belongs to one task (`VictimInv`), the listener is
deleted after the timer, whose callback adds it (`EventInv`, `CallbackInv`: a pending
timer needs a listed client or a task at `untimer`, a listener also allows one at
`unlisten`). That `event_del` waits for a running callback is needed exactly at those two
steps. `KeyInv` holds because PLAY looks up and inserts under one lock. `AskedInv` says
that a client the walk has chosen is still flagged when the walk has the mutex;
`KeptWhileServed` needs it.

The argument for the queue is that with one producer units are linked in the order of
their slots, so the list is the part of the ring from `p_head` to the unit linked last
(`ListIsRing`). `CountInv` says what `w_len` and `r_len` count beyond and below its
length; hence when a push has a slot there is room behind the list for it, and, while a
pop still reads, for the unit being read and the one before it, whose `next` that pop
reads again. `PushInv` and `PopInv` say where each side is between two accesses and which
units are marked as used. A push is `Store` at its link, a pop `Take` when `p_head` moves;
the counters' steps are `Reserve`, `Announce`, `Claim` and `Release`, all others stutter.

`ClockInv` adds to the clock's types that the step to repeat is at least 1 as soon
as there was a time stamp, and that the camera's first time is known then:
`FollowsCamera` alone does not say what the next difference is taken from.
`StampsAgree` holds of any time whose fields are read off it: by induction
`Pow2(a + b)` is `Pow2(a) * Pow2(b)`, so the `n` bits from `low` on, put before the rest modulo
`Pow2(low)`, are the rest modulo `Pow2(low + n)` (`GroupsJoin`); joined one by one, the
groups of `ScrGroups` and `PtsGroups` give the whole field.
`PortsInv` says for each place of the search what the call in hand holds (nothing,
its RTP port, both) and that every other call holds both ports or none;
`NoPortLost` alone would not exclude a port bound before the search moves on.

`SipInv` first says what holds in all circumstances (`SafeInv`): what is in libevent's
queue (`QueueInv`: the UDP callback only at its head, a request in the pair always with
`stream_read_cb` still to come, which is why none is left), that an expired timer is a
client's (`ArmedInv`), that descriptors and sockets go together and a socket belongs to one
call (`KernelInv`, `OwnerInv`), what a request under way hands over (`MailInv`). `OwnSocket`
needs more than itself: with datagrams in order `PhaseInv`, `ClosedInv` and `SipOpenInv` tell for
each phase of a call's dialogue which of SIP node, request and client there can be
and that the socket between them is open; with datagrams in any order and nothing
failing, `LateInv` says that a SIP node names an open socket, not that of a stopped client.
`LinkInv`, for `LinksAgree`, says that the callback that tells the SIP side is due as long as
a client that timed out has a SIP node.

`ListInv` states, for each store of `list_insert_at`, which link of the two chains is
already the new one (`NextOK`, `PrevOK`, `LentOK`, `MidOK`), so that the chains are the sequence
between appends. A lookup is at a place of the list with as many places before it as it
still has to hop (`AtPlace`), or has come to an entry that is being appended from the
tail (`InFresh`); the first gives `QuietLookupExact`. That no entry is twice in the list or
among the spares is `EntriesApart`.

`WalkInv` ties a client's flag to what it got: who got a packet is switched on, who is
switched on is within the walk of the frame in hand, and who waits for its first packet has
been switched on by the first one of an I frame. `FrameInv` adds how a decoder
reads the frame: `Demux` of the buffer, whatever follows it, is the bytes of the frame
that are there and then what follows (`MuxDemux`, kept by each PES piece because its
length fits the field); and what a client has, with what is still to be sent, is a whole
frame (`RestIsGood`), although each RTP header overwrites bytes before it. When nothing is left
this is `FrameWhole`. `Demux` is recursive: the proof shows that the function exists
(`RecursionExists`) and what it does to one more piece by induction on its length.

`IntakeInv` is `NeverStalls` with what makes it inductive: a byte in the buffers belongs to a
block of some message (`BytesKnown`), so that a full buffer holds a whole block; before the
stream there are no marks and the buffer stays below one block and one read (`AnswerFits`).
`SourceInv` is the invariant behind `SourceUnderstood`. What has been read and not taken,
followed by what is on its way, is the rest of what the hbserver said, from the beginning of
a block on: each byte is followed by the next one of its message or the first of the next
message (`LeftInOrder`), so a callback that takes a block takes that block (`BlockTaken`) whatever TCP
did to it. The first of these bytes tells message and block the source has come to
(`NextMessage`, `NextBlock`); `DataSoFar` says that the receive buffer has what the blocks
of that message before it brought, hence that it is empty where a frame begins, `ReplySoFar` that
what `strstr` sees is part of the answer and no longer than that, and all of it when the answer
has one block, `StartedByKeyFrame` that the task has been started when an I frame has been
taken. The frame of a message is at the place that the message has among those due; one more
due message has the next place and moves no other (`PlaceAdded`).
`OfferInv` says for `GoodOfferAnswered` what is in the structure for the lines read so far
(`Remembered`). For the other properties of the offer that is too little: `AnswerInv` says that
every list is in the structure up to its capacity and on the heap from there on, with an entry
for each place (`ListOf`), that the entry at a line's place among the lines of its type in its
description is that line (`ParsedInv`, of which `LinesKept` is the part a run checks), and that a
field of the session has the last line that sets it. One more line has the last place of its kind, so it is the one
that is set and the others stay (`LineAdded`, `PlaceAdded`); an `m=` line ends one description and begins the
next (`MediaAdded`). `parase_invite` then goes through the media in order: after the first `j` of them
its findings are those of the last video among these (`TakenAfter`, by induction in `LoopTakes`).
`TypesOK` follows since each component moves by its own steps and stands still while another
one moves (`EachByItself`).
`ConfigInv` is that the settings are what the searches find; `SearchIsExact` shows that the two
loops find what `ConfigExact` describes without loops. `TransferInv` gives every byte its
place in the concatenation of all messages: what is under way comes after what is
received (`ChannelInv`), and up to what is given; `EndIsTheEnd` holds because a sender that has sent
all leaves no receiver in a call without bytes under way.

The provers have no induction schema. Where a proof needs one it goes through the least
number without a property (`SetInduction`, from the library's well-founded `<`), and
recursive functions through `RecursionExists`. What stays out of reach is liveness:
`DyingNodeFreed`, `FlaggedClientFreed`, `ByeEnds` and `SearchEnds` hold under fairness and are
model-checked only.
Every other property of the passing runs is the subject of a theorem.

## 6. Not modelled

* `get_frame_from_box.c` is not part of the program: `RECV_STREAM_FROM_BOX` is
  commented out (`inc/server_config.h:11`) and line 489 calls `strncpy` with four
  arguments, so it does not compile with it. The helpers it would use are `TcpTransfer`.
* `rtcp_pack.c` formats a report of constant length from fixed counters;
  `hash_table.c` is stateless arithmetic, and the models let a key have any bucket.
* Of `sdp.c` the lines `r=` and `z=` and the getters of lines the server never asks
  for; of `simclist.c` sorting, hashing, dumping and iterators, which the server does
  not call; of `net_api.c` connecting, listening, name lookup and socket options,
  which are single system calls; `get_..._state`, which format counters.
* Parsing of SIP messages and building of answers: osip does it, its sources are not
  in the repository. Start-up of threads, and the report of `scanning_task`.
* Memory lost without consequence (arguments of callbacks, events that are deleted
  and not freed) is not a property of any module, except the lists of an offer.
* `src/inc` holds the headers of libevent, libosip2 and stpool, two thirds of all lines.
  What the server needs of these libraries is modelled from its use.
