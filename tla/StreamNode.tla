----------------------------- MODULE StreamNode -----------------------------
(***************************************************************************)
(* The life of the stream nodes of one bucket of the stream hash table     *)
(* (stream_moudle.c, get_frame_from_hbserver.c, send_av_data.c,            *)
(* rtp_pack.c, client_opt.c, stream_hash.c).                               *)
(*                                                                         *)
(* A stream node is one camera stream that is being relayed.  Two kinds of *)
(* thread touch it:                                                        *)
(*   - the libevent loop, one thread that runs every callback: PLAY and    *)
(*     STOP requests, the connection to the source, the frames received    *)
(*     from it, and the RTCP timers of the clients;                        *)
(*   - one pool task per node, send_rtp_to_client_task, which takes frames *)
(*     from the node's queue, sends them to every client, removes clients  *)
(*     flagged iDeleteFlag and, at the end, frees the node.                *)
(* They share the bucket mutex, the node's two flags, its client list and  *)
(* its lock-free frame queue.  A step of this module is the code between   *)
(* two accesses to what is shared and not protected by the mutex.          *)
(***************************************************************************)
EXTENDS Naturals, Sequences, FiniteSets, SequencesExt

CONSTANTS
  Calls,       \* SIP Call-IDs
  Keys,        \* streams: device, channel and stream type
  KeyOf,       \* the stream each call asks for
  MinBacklog,  \* the sender works only above this queue length (15)
  QueueMax,    \* capacity of the frame queue (512)
  Workers,     \* threads of the pool (iMaxConnections)
  MaxPackets,  \* bound: RTP packets of one frame
  MaxNodes,    \* bound: node allocations of a behaviour
  MaxClients,  \* bound: client allocations of a behaviour
  None         \* no call, no stream

ASSUME KeyOfAssumption == KeyOf \in [Calls -> Keys]
ASSUME QueueAssumption ==
  MinBacklog \in Nat /\ QueueMax \in Nat /\ MinBacklog < QueueMax
ASSUME BoundAssumption ==
  /\ MaxPackets \in Nat /\ MaxNodes \in Nat /\ MaxClients \in Nat
  /\ Workers \in Nat
ASSUME NoneAssumption == None \notin Calls \cup Keys

VARIABLES
  lock,      \* lockStreamNodeMutex: the node whose task holds it, or Free
  loop,      \* where the event loop is in the callback it runs
  cur,       \* the node or client that callback is about
  \* --- stream nodes
  nNodes,    \* nodes allocated so far
  heap,      \* nodes allocated and not freed
  table,     \* listStreamNodeHead of the bucket
  key,       \* the stream of a node
  src,       \* its connection to the source (uRtspPlayFlag = 1: not "none")
  getFlag,   \* uGetStreamThreadStartFlag
  sendFlag,  \* uRtpClientNodeSendDataThreadFlag
  rlen,      \* r_len of its frame queue
  list,      \* listClientNodeHead
  \* --- clients
  nClients,  \* clients allocated so far
  call,      \* cCallId
  cstate,    \* where a client's memory is
  del,       \* iDeleteFlag
  iframe,    \* iSendIframeFlag
  timer,     \* evUdpSendRtcpEvent is pending
  listen,    \* evUdpRtcpListenEvent is pending
  hangup,    \* argument of sip_pair_read_cb: the call whose STOP is pending
  \* --- the task of a node
  spc,       \* where it is in send_rtp_to_client_task
  walk,      \* its variables while it sends one frame
  victim     \* the client it is tearing down

Nodes   == 1 .. MaxNodes
Clients == 1 .. MaxClients
Free    == 0
Nil     == 0

loopVars   == <<loop, cur>>
nodeVars   == <<nNodes, heap, table, key, src>>
clientVars == <<nClients, call, cstate, del, iframe, timer, listen>>
taskVars   == <<walk, victim>>
vars == <<lock, loopVars, nodeVars, getFlag, sendFlag, rlen, list,
          clientVars, hangup, spc, taskVars>>

LoopPCs == {"idle", "task", "flag", "push", "broke", "error", "getflag",
            "timer", "rtcp"}
NodeLoopPCs == LoopPCs \ {"idle", "timer", "rtcp"}
TaskPCs == {"none", "queued", "top", "size", "quit", "len", "pop", "pack",
            "packet", "visit", "unlist", "untimer", "unlisten", "exit",
            "wait", "lock", "drain", "done"}
Sources == {"none", "connecting", "cmd", "stream", "closed"}

\* One frame being sent: is it an I frame, packets left to send, index and
\* steps left of the walk over the clients, client_list_size.
Walks == [I : BOOLEAN, pkts : Nat, i : Nat, left : Nat, size : Nat]
NewFrame(I, p) == [I |-> I, pkts |-> p, i |-> 0, left |-> 0, size |-> 0]

Members(n) == ToSet(list[n])
Running(n) == spc[n] \notin {"none", "queued", "done"}

Init ==
  /\ lock = Free /\ loop = "idle" /\ cur = Nil
  /\ nNodes = 0 /\ heap = {} /\ table = {}
  /\ key = [n \in Nodes |-> None]
  /\ src = [n \in Nodes |-> "none"]
  /\ getFlag = [n \in Nodes |-> 0]
  /\ sendFlag = [n \in Nodes |-> 0]
  /\ rlen = [n \in Nodes |-> 0]
  /\ list = [n \in Nodes |-> <<>>]
  /\ nClients = 0
  /\ call = [c \in Clients |-> None]
  /\ cstate = [c \in Clients |-> "unused"]
  /\ del = [c \in Clients |-> FALSE]
  /\ iframe = [c \in Clients |-> FALSE]
  /\ timer = [c \in Clients |-> FALSE]
  /\ listen = [c \in Clients |-> FALSE]
  /\ hangup = None
  /\ spc = [n \in Nodes |-> "none"]
  /\ walk = [n \in Nodes |-> NewFrame(FALSE, 0)]
  /\ victim = [n \in Nodes |-> Nil]

-----------------------------------------------------------------------------
(***************************************************************************)
(* The event loop: requests of the SIP side.  stream_read_cb runs under    *)
(* the bucket mutex from the lookup to the end, and writes only one thing  *)
(* a task reads without it, so it is one step.                             *)
(***************************************************************************)

LoopIdle == loop = "idle"
EnterLoop(pc, x) == loop' = pc /\ cur' = x
LeaveLoop == loop' = "idle" /\ cur' = Nil

\* insert_node_to_stream_hash_table: the node of the call's stream, or a new one
NodeForDuplicate(k) == nNodes + 1          \* mutant: no lookup
NodeFor(k) ==
  LET found == {n \in table : key[n] = KeyOf[k]}
  IN  IF found = {} THEN nNodes + 1 ELSE CHOOSE n \in found : TRUE

\* find_client_node
HasClient(n, k) == \E c \in Members(n) : call[c] = k

\* insert_node_to_stream_hash_table and create_stream_node
InsertNode(n, k) ==
  IF n \in table
  THEN UNCHANGED <<nNodes, heap, table, key>>
  ELSE /\ nNodes' = n
       /\ heap' = heap \cup {n}
       /\ table' = table \cup {n}
       /\ key' = [key EXCEPT ![n] = KeyOf[k]]

\* calloc of a client, its RTCP timer, list_append
AddClient(n, k) ==
  IF HasClient(n, k)
  THEN UNCHANGED <<list, nClients, call, cstate, timer>>
  ELSE LET c == nClients + 1
       IN  /\ c \in Clients
           /\ nClients' = c
           /\ call' = [call EXCEPT ![c] = k]
           /\ cstate' = [cstate EXCEPT ![c] = "listed"]
           /\ timer' = [timer EXCEPT ![c] = TRUE]
           /\ list' = [list EXCEPT ![n] = Append(@, c)]

\* play_rtsp_video_from_hbserver: nothing if the source is already open;
\* creating or connecting the bufferevent may fail
OpenSource(n) ==
  \/ src[n] = "none" /\ src' = [src EXCEPT ![n] = "connecting"]
  \/ UNCHANGED src

Play(k) ==
  /\ LoopIdle /\ lock = Free
  /\ LET n == NodeFor(k)
     IN  /\ n \in Nodes
         /\ InsertNode(n, k)
         /\ AddClient(n, k)
         /\ OpenSource(n)
  /\ UNCHANGED <<lock, loopVars, getFlag, sendFlag, rlen, del, iframe,
                 listen, hangup, spc, taskVars>>

\* STOP flags the client of the call, if its stream has a node
Stop(k) ==
  /\ LoopIdle /\ lock = Free
  /\ del' = [c \in Clients |->
               \/ del[c]
               \/ /\ call[c] = k
                  /\ \E n \in table : key[n] = KeyOf[k] /\ c \in Members(n)]
  /\ UNCHANGED <<lock, loopVars, nodeVars, getFlag, sendFlag, rlen, list,
                 nClients, call, cstate, iframe, timer, listen, hangup, spc,
                 taskVars>>

-----------------------------------------------------------------------------
(***************************************************************************)
(* The event loop: the connection to the source.                           *)
(***************************************************************************)

\* connect_event_cb, BEV_EVENT_CONNECTED: ask for the stream
SourceConnected(n) ==
  /\ LoopIdle /\ src[n] = "connecting"
  /\ src' = [src EXCEPT ![n] = "cmd"]
  /\ UNCHANGED <<lock, loopVars, nNodes, heap, table, key, getFlag, sendFlag,
                 rlen, list, clientVars, hangup, spc, taskVars>>

\* recv_cmd_from_hbserver, SUCCESS: the queue is created, frames will follow
SourceAccepted(n) ==
  /\ LoopIdle /\ src[n] = "cmd"
  /\ src' = [src EXCEPT ![n] = "stream"]
  /\ UNCHANGED <<lock, loopVars, nNodes, heap, table, key, getFlag, sendFlag,
                 rlen, list, clientVars, hangup, spc, taskVars>>

\* The loop takes node n off the table, destroys its clients and frees it,
\* all under the mutex.  event_del called by the loop itself never waits.
DestroyNode(n) ==
  /\ lock = Free
  /\ table' = table \ {n}
  /\ heap' = heap \ {n}
  /\ src' = [src EXCEPT ![n] = "closed"]
  /\ cstate' = [c \in Clients |->
                  IF c \in Members(n) THEN "freed" ELSE cstate[c]]
  /\ timer' = [c \in Clients |-> c \notin Members(n) /\ timer[c]]
  /\ listen' = [c \in Clients |-> c \notin Members(n) /\ listen[c]]
  /\ list' = [list EXCEPT ![n] = <<>>]
  /\ LeaveLoop
  /\ UNCHANGED <<lock, nNodes, key, getFlag, sendFlag, rlen, nClients, call,
                 del, iframe, hangup, spc, taskVars>>

\* connect_event_cb on failure, recv_cmd_from_hbserver on a refusal
SourceRefused(n) ==
  /\ LoopIdle /\ src[n] \in {"connecting", "cmd"}
  /\ DestroyNode(n)

\* recv_stream_err_cb: end of file, error or 15 s without data; the
\* bufferevent is freed first
SourceError(n) ==
  /\ LoopIdle /\ src[n] \in {"cmd", "stream"}
  /\ src' = [src EXCEPT ![n] = "closed"]
  /\ EnterLoop("error", n)
  /\ UNCHANGED <<lock, nNodes, heap, table, key, getFlag, sendFlag, rlen,
                 list, clientVars, hangup, spc, taskVars>>

\* the send task is to be started (get_frame_from_hbserver.c:145)
StartsAgain(n, I) == I                     \* mutant: flag not looked at
StartsTask(n, I) == sendFlag[n] = 0 /\ I

\* recv_stream_cb, last block of a frame: is it an I frame, is it audio/video
\* (data type 13); frames before the first I frame are dropped
RecvFrame(n, I, AV) ==
  /\ LoopIdle /\ src[n] = "stream"
  /\ IF Len(list[n]) = 0 \/ sendFlag[n] = 2
     THEN /\ src' = [src EXCEPT ![n] = "closed"]
          /\ EnterLoop("broke", n)
     ELSE /\ CASE StartsTask(n, I)            -> EnterLoop("task", n)
               [] sendFlag[n] # 0 /\ AV       -> EnterLoop("push", n)
               [] OTHER                       -> UNCHANGED loopVars
          /\ UNCHANGED src
  /\ UNCHANGED <<lock, nNodes, heap, table, key, getFlag, sendFlag, rlen,
                 list, clientVars, hangup, spc, taskVars>>

\* stpool_task_queue
QueueTask ==
  /\ loop = "task"
  /\ spc' = [spc EXCEPT ![cur] = "queued"]
  /\ EnterLoop("flag", cur)
  /\ UNCHANGED <<lock, nodeVars, getFlag, sendFlag, rlen, list, clientVars,
                 hangup, taskVars>>

\* ... and only then uRtpClientNodeSendDataThreadFlag = 1
SetSendFlag ==
  /\ loop = "flag"
  /\ sendFlag' = [sendFlag EXCEPT ![cur] = 1]
  /\ \/ EnterLoop("push", cur)
     \/ LeaveLoop
  /\ UNCHANGED <<lock, nodeVars, getFlag, rlen, list, clientVars, hangup, spc,
                 taskVars>>

\* w_len of node n's queue: a pop gives its unit back after r_len has dropped
WLen(n) == rlen[n] + IF spc[n] = "pop" THEN 1 ELSE 0

\* A full queue ends the stream.  nolock_queue_push fails, and the frame is
\* lost, when w_len is still at the limit.
PushFrame ==
  /\ loop = "push"
  /\ IF rlen[cur] >= QueueMax
     THEN /\ src' = [src EXCEPT ![cur] = "closed"]
          /\ EnterLoop("broke", cur)
          /\ UNCHANGED rlen
     ELSE /\ rlen' = IF WLen(cur) < QueueMax
                     THEN [rlen EXCEPT ![cur] = @ + 1]
                     ELSE rlen
          /\ LeaveLoop
          /\ UNCHANGED src
  /\ UNCHANGED <<lock, nNodes, heap, table, key, getFlag, sendFlag, list,
                 clientVars, hangup, spc, taskVars>>

\* whether the node is left to its task
LeftToRunningTask(n) == sendFlag[n] = 1    \* mutant: value 2 forgotten
LeftToAnyTask(n) == TRUE                   \* mutant: value 0 forgotten
LeftToTask(n) == sendFlag[n] # 0

\* The source is gone and no task was started: the loop frees the node
FreeUnstarted ==
  /\ loop \in {"broke", "error"}
  /\ ~LeftToTask(cur)
  /\ DestroyNode(cur)

\* recv_stream_err_cb with a task: uGetStreamThreadStartFlag = 2 under the
\* mutex (disable_client_rtp_list_bev finds no bufferevent to disable)
HandOverUnderLock ==
  /\ loop = "error" /\ LeftToTask(cur) /\ lock = Free
  /\ getFlag' = [getFlag EXCEPT ![cur] = 2]
  /\ LeaveLoop
  /\ UNCHANGED <<lock, nodeVars, sendFlag, rlen, list, clientVars, hangup,
                 spc, taskVars>>

\* recv_stream_cb with a task: through the mutex, then the flag outside it
DisableClients ==
  /\ loop = "broke" /\ LeftToTask(cur) /\ lock = Free
  /\ EnterLoop("getflag", cur)
  /\ UNCHANGED <<lock, nodeVars, getFlag, sendFlag, rlen, list, clientVars,
                 hangup, spc, taskVars>>

HandOverForgotten ==                       \* mutant: the store is missing
  /\ loop = "getflag"
  /\ LeaveLoop
  /\ UNCHANGED <<lock, nodeVars, getFlag, sendFlag, rlen, list, clientVars,
                 hangup, spc, taskVars>>
HandOver ==
  /\ loop = "getflag"
  /\ getFlag' = [getFlag EXCEPT ![cur] = 2]
  /\ LeaveLoop
  /\ UNCHANGED <<lock, nodeVars, sendFlag, rlen, list, clientVars, hangup,
                 spc, taskVars>>

-----------------------------------------------------------------------------
(***************************************************************************)
(* The event loop: the RTCP events of a client.  While a callback runs,    *)
(* event_del of its event from another thread waits (libevent).            *)
(***************************************************************************)

\* udp_send_rtcp_timer
RtcpTimer(c) ==
  /\ LoopIdle /\ timer[c]
  /\ EnterLoop("timer", c)
  /\ UNCHANGED <<lock, nodeVars, getFlag, sendFlag, rlen, list, clientVars,
                 hangup, spc, taskVars>>

\* a client that gets the stream is listened to from the first report on
RtcpTimerEnd ==
  /\ loop = "timer"
  /\ listen' = [listen EXCEPT ![cur] = @ \/ iframe[cur]]
  /\ LeaveLoop
  /\ UNCHANGED <<lock, nodeVars, getFlag, sendFlag, rlen, list, nClients,
                 call, cstate, del, iframe, timer, hangup, spc, taskVars>>

\* udp_rtcp_recv_cb, EV_TIMEOUT: no report from the client for 20 s
RtcpTimeout(c) ==
  /\ LoopIdle /\ listen[c]
  /\ del' = [del EXCEPT ![c] = TRUE]
  /\ EnterLoop("rtcp", c)
  /\ UNCHANGED <<lock, nodeVars, getFlag, sendFlag, rlen, list, nClients,
                 call, cstate, iframe, timer, listen, hangup, spc, taskVars>>

\* the SIP side is told; bufferevent_setcb replaces an argument not yet used
RtcpTimeoutEnd ==
  /\ loop = "rtcp"
  /\ hangup' = call[cur]
  /\ LeaveLoop
  /\ UNCHANGED <<lock, nodeVars, getFlag, sendFlag, rlen, list, clientVars,
                 spc, taskVars>>

\* sip_pair_read_cb takes the argument and drops the dialog
SipHangup ==
  /\ LoopIdle /\ hangup # None
  /\ hangup' = None
  /\ UNCHANGED <<lock, loopVars, nodeVars, getFlag, sendFlag, rlen, list,
                 clientVars, spc, taskVars>>

-----------------------------------------------------------------------------
(***************************************************************************)
(* The task of a node: send_rtp_to_client_task.                            *)
(***************************************************************************)

Goto(n, pc) == spc' = [spc EXCEPT ![n] = pc]

\* a worker of the pool takes the task
StartTask(n) ==
  /\ spc[n] = "queued"
  /\ Cardinality({m \in Nodes : Running(m)}) < Workers
  /\ Goto(n, "top")
  /\ UNCHANGED <<lock, loopVars, nodeVars, getFlag, sendFlag, rlen, list,
                 clientVars, hangup, taskVars>>

\* the source has gone
CheckSource(n) ==
  /\ spc[n] = "top"
  /\ Goto(n, IF getFlag[n] = 2 THEN "exit" ELSE "size")
  /\ UNCHANGED <<lock, loopVars, nodeVars, getFlag, sendFlag, rlen, list,
                 clientVars, hangup, taskVars>>

\* no client is left
CheckClients(n) ==
  /\ spc[n] = "size"
  /\ Goto(n, IF Len(list[n]) = 0 THEN "quit" ELSE "len")
  /\ UNCHANGED <<lock, loopVars, nodeVars, getFlag, sendFlag, rlen, list,
                 clientVars, hangup, taskVars>>

\* ... uRtpClientNodeSendDataThreadFlag = 2
Quit(n) ==
  /\ spc[n] = "quit"
  /\ sendFlag' = [sendFlag EXCEPT ![n] = 2]
  /\ Goto(n, "exit")
  /\ UNCHANGED <<lock, loopVars, nodeVars, getFlag, rlen, list, clientVars,
                 hangup, taskVars>>

\* nolock_queue_len, and the first half of nolock_queue_pop: r_len drops
TakeFrame(n) ==
  /\ spc[n] = "len"
  /\ IF rlen[n] > MinBacklog
     THEN /\ rlen' = [rlen EXCEPT ![n] = @ - 1]
          /\ Goto(n, "pop")
     ELSE /\ Goto(n, "top")
          /\ UNCHANGED rlen
  /\ UNCHANGED <<lock, loopVars, nodeVars, getFlag, sendFlag, list,
                 clientVars, hangup, taskVars>>

\* the end of the pop; audio is dropped, video is packed into PS
FrameTaken(n) ==
  /\ spc[n] = "pop"
  /\ \/ Goto(n, "top") /\ UNCHANGED walk
     \/ \E I \in BOOLEAN, p \in 0 .. MaxPackets :
          /\ walk' = [walk EXCEPT ![n] = NewFrame(I, p)]
          /\ Goto(n, "pack")
  /\ UNCHANGED <<lock, loopVars, nodeVars, getFlag, sendFlag, rlen, list,
                 clientVars, hangup, victim>>

\* pack_ps_rtp_and_add_node: client_list_size is read once per frame
PackFrame(n) ==
  /\ spc[n] = "pack"
  /\ walk' = [walk EXCEPT ![n].size = Len(list[n])]
  /\ Goto(n, "packet")
  /\ UNCHANGED <<lock, loopVars, nodeVars, getFlag, sendFlag, rlen, list,
                 clientVars, hangup, victim>>

\* the walk over the clients starts at list_get_at(0)
SkipFirst(w) ==                            \* mutant: starts at 1
  [w EXCEPT !.pkts = @ - 1, !.i = 1, !.left = w.size - 1]
FromFirst(w) == [w EXCEPT !.pkts = @ - 1, !.i = 0, !.left = w.size]

\* get_rtp_ps_pack: the next RTP packet, or the frame is done
NextPacket(n) ==
  /\ spc[n] = "packet"
  /\ IF walk[n].pkts = 0
     THEN Goto(n, "top") /\ UNCHANGED walk
     ELSE /\ walk' = [walk EXCEPT ![n] = FromFirst(@)]
          /\ Goto(n, "visit")
  /\ UNCHANGED <<lock, loopVars, nodeVars, getFlag, sendFlag, rlen, list,
                 clientVars, hangup, victim>>

\* list_get_at(i): a flagged client goes, another gets the packet if it has
\* had the start of an I frame
VisitClient(n) ==
  LET c == list[n][walk[n].i + 1]
  IN  /\ spc[n] = "visit"
      /\ \/ /\ walk[n].left = 0
            /\ Goto(n, "packet")
            /\ UNCHANGED <<iframe, taskVars>>
         \/ /\ walk[n].left > 0 /\ del[c]
            /\ victim' = [victim EXCEPT ![n] = c]
            /\ Goto(n, "unlist")
            /\ UNCHANGED <<iframe, walk>>
         \/ /\ walk[n].left > 0 /\ ~del[c]
            /\ iframe' = [iframe EXCEPT ![c] = @ \/ walk[n].I]
            /\ walk' = [walk EXCEPT ![n].i = @ + 1, ![n].left = @ - 1]
            /\ UNCHANGED <<spc, victim>>
      /\ UNCHANGED <<lock, loopVars, nodeVars, getFlag, sendFlag, rlen, list,
                     nClients, call, cstate, del, timer, listen, hangup>>

\* list_locate
LocateHead(n, c) == 1                      \* mutant: list_fetch, not list_delete
Locate(n, c) == CHOOSE p \in 1 .. Len(list[n]) : list[n][p] = c

\* the walk goes on after a deletion: --i, ++i, both sizes drop
AfterDeletionSkips(w) ==                   \* mutant: --i is missing
  [w EXCEPT !.size = @ - 1, !.left = @ - 1, !.i = @ + 1]
AfterDeletion(w) == [w EXCEPT !.size = @ - 1, !.left = @ - 1]

\* event_del from another thread does not return while the callback runs
EventDelNoWait(cb, c) == TRUE              \* mutant: event_del_noblock
EventDel(cb, c) == ~(loop = cb /\ cur = c)

\* del_one_client_node: list_delete under the mutex
UnlistClient(n) ==
  /\ spc[n] = "unlist" /\ lock = Free
  /\ list' = [list EXCEPT ![n] = RemoveAt(@, Locate(n, victim[n]))]
  /\ cstate' = [cstate EXCEPT ![victim[n]] = "detached"]
  /\ Goto(n, "untimer")
  /\ UNCHANGED <<lock, loopVars, nodeVars, getFlag, sendFlag, rlen, nClients,
                 call, del, iframe, timer, listen, hangup, taskVars>>

\* event_del of the RTCP timer, in del_one_client_node and destory_client_list
StopTimer(n) ==
  /\ spc[n] = "untimer"
  /\ EventDel("timer", victim[n])
  /\ timer' = [timer EXCEPT ![victim[n]] = FALSE]
  /\ Goto(n, "unlisten")
  /\ UNCHANGED <<lock, loopVars, nodeVars, getFlag, sendFlag, rlen, list,
                 nClients, call, cstate, del, iframe, listen, hangup,
                 taskVars>>

\* event_del of the RTCP listener, close of the sockets and free of the client
\* by del_one_client_node's caller, or by destory_client_list (mutex held)
FreeClient(n) ==
  /\ spc[n] = "unlisten"
  /\ EventDel("rtcp", victim[n])
  /\ listen' = [listen EXCEPT ![victim[n]] = FALSE]
  /\ cstate' = [cstate EXCEPT ![victim[n]] = "freed"]
  /\ victim' = [victim EXCEPT ![n] = Nil]
  /\ IF lock = n
     THEN Goto(n, "drain") /\ UNCHANGED walk
     ELSE /\ walk' = [walk EXCEPT ![n] = AfterDeletion(@)]
          /\ Goto(n, "visit")
  /\ UNCHANGED <<lock, loopVars, nodeVars, getFlag, sendFlag, rlen, list,
                 nClients, call, del, iframe, timer, hangup>>

\* out of the loop: a task that quit by itself waits for the source to go
LeaveTaskLoop(n) ==
  /\ spc[n] = "exit"
  /\ Goto(n, IF sendFlag[n] = 2 THEN "wait" ELSE "lock")
  /\ UNCHANGED <<lock, loopVars, nodeVars, getFlag, sendFlag, rlen, list,
                 clientVars, hangup, taskVars>>

SourceGone(n) ==
  /\ spc[n] = "wait" /\ getFlag[n] = 2
  /\ Goto(n, "lock")
  /\ UNCHANGED <<lock, loopVars, nodeVars, getFlag, sendFlag, rlen, list,
                 clientVars, hangup, taskVars>>

\* the mutex, del_node_from_stream_hash_table, the queue is emptied and freed
LockBucket(n) ==
  /\ spc[n] = "lock" /\ lock = Free
  /\ lock' = n
  /\ table' = table \ {n}
  /\ rlen' = [rlen EXCEPT ![n] = 0]
  /\ Goto(n, "drain")
  /\ UNCHANGED <<loopVars, nNodes, heap, key, src, getFlag, sendFlag, list,
                 clientVars, hangup, taskVars>>

\* destory_client_list takes the first client off
DrainClient(n) ==
  /\ spc[n] = "drain" /\ list[n] # <<>>
  /\ victim' = [victim EXCEPT ![n] = Head(list[n])]
  /\ cstate' = [cstate EXCEPT ![Head(list[n])] = "detached"]
  /\ list' = [list EXCEPT ![n] = Tail(@)]
  /\ Goto(n, "untimer")
  /\ UNCHANGED <<lock, loopVars, nodeVars, getFlag, sendFlag, rlen, nClients,
                 call, del, iframe, timer, listen, hangup, walk>>

\* free of the node, end of the task, unlock
FreeNode(n) ==
  /\ spc[n] = "drain" /\ list[n] = <<>>
  /\ heap' = heap \ {n}
  /\ lock' = Free
  /\ Goto(n, "done")
  /\ UNCHANGED <<loopVars, nNodes, table, key, src, getFlag, sendFlag, rlen,
                 list, clientVars, hangup, taskVars>>

-----------------------------------------------------------------------------
Request == \E k \in Calls : Play(k) \/ Stop(k)

\* while a source is connected, data or the timeout calls the loop back
SourceEvent(n) ==
  \/ SourceConnected(n) \/ SourceAccepted(n) \/ SourceRefused(n)
  \/ SourceError(n)
  \/ \E I, AV \in BOOLEAN : RecvFrame(n, I, AV)

RtcpEvent == \E c \in Clients : RtcpTimer(c) \/ RtcpTimeout(c)

\* the rest of a callback that has begun
LoopStep ==
  \/ QueueTask \/ SetSendFlag \/ PushFrame \/ FreeUnstarted
  \/ HandOverUnderLock \/ DisableClients \/ HandOver
  \/ RtcpTimerEnd \/ RtcpTimeoutEnd

Task(n) ==
  \/ StartTask(n) \/ CheckSource(n) \/ CheckClients(n) \/ Quit(n)
  \/ TakeFrame(n) \/ FrameTaken(n) \/ PackFrame(n) \/ NextPacket(n)
  \/ VisitClient(n) \/ UnlistClient(n) \/ StopTimer(n) \/ FreeClient(n)
  \/ LeaveTaskLoop(n) \/ SourceGone(n) \/ LockBucket(n) \/ DrainClient(n)
  \/ FreeNode(n)

Next ==
  \/ Request \/ RtcpEvent \/ SipHangup \/ LoopStep
  \/ \E n \in Nodes : SourceEvent(n) \/ Task(n)

Spec == Init /\ [][Next]_vars

\* The loop goes on with a callback it has begun, and serves every ready
\* source: a connected one is ready again within its 15 s read timeout.  A
\* task that waits for the mutex or in event_del is woken when it is let go.
Fairness ==
  /\ WF_vars(LoopStep)
  /\ \A n \in Nodes : SF_vars(Task(n)) /\ SF_vars(SourceEvent(n))

FairSpec == Spec /\ Fairness

-----------------------------------------------------------------------------
TypeOK ==
  /\ lock \in Nodes \cup {Free}
  /\ loop \in LoopPCs
  /\ cur \in Nodes \cup Clients \cup {Nil}
  /\ loop \in NodeLoopPCs => cur \in Nodes
  /\ loop \in {"timer", "rtcp"} => cur \in Clients
  /\ nNodes \in 0 .. MaxNodes
  /\ heap \in SUBSET Nodes /\ table \in SUBSET Nodes
  /\ key \in [Nodes -> Keys \cup {None}]
  /\ src \in [Nodes -> Sources]
  /\ getFlag \in [Nodes -> {0, 2}]
  /\ sendFlag \in [Nodes -> 0 .. 2]
  /\ rlen \in [Nodes -> 0 .. QueueMax]
  /\ list \in [Nodes -> Seq(Clients)]
  /\ nClients \in 0 .. MaxClients
  /\ call \in [Clients -> Calls \cup {None}]
  /\ cstate \in [Clients -> {"unused", "listed", "detached", "freed"}]
  /\ del \in [Clients -> BOOLEAN]
  /\ iframe \in [Clients -> BOOLEAN]
  /\ timer \in [Clients -> BOOLEAN]
  /\ listen \in [Clients -> BOOLEAN]
  /\ hangup \in Calls \cup {None}
  /\ spc \in [Nodes -> TaskPCs]
  /\ walk \in [Nodes -> Walks]
  /\ victim \in [Nodes -> Clients \cup {Nil}]

-----------------------------------------------------------------------------
(***************************************************************************)
(* Safety.                                                                 *)
(***************************************************************************)

\* Nothing that can still run holds a pointer to a freed stream node: not the
\* hash table, not the callback the loop is in, not a bufferevent that is
\* still armed with the node as its argument, not the node's task.  (The
\* node is freed either by the loop or by the task, depending on the value
\* of uRtpClientNodeSendDataThreadFlag the loop reads without the mutex.)
NodeSafe ==
  /\ table \subseteq heap
  /\ loop \in NodeLoopPCs => cur \in heap
  /\ \A n \in Nodes :
       /\ src[n] \in {"connecting", "cmd", "stream"} => n \in heap
       /\ spc[n] \notin {"none", "done"} => n \in heap

\* The same for clients: a listed client is allocated, a client being torn
\* down is not freed by somebody else, and no RTCP event is pending, and no
\* RTCP callback runs, on a freed client.
ClientSafe ==
  /\ \A n \in Nodes :
       /\ \A c \in Members(n) : cstate[c] = "listed"
       /\ victim[n] # Nil /\ spc[n] # "unlist" => cstate[victim[n]] = "detached"
  /\ \A c \in Clients :
       timer[c] \/ listen[c] => cstate[c] \in {"listed", "detached"}
  /\ loop \in {"timer", "rtcp"} => cstate[cur] \in {"listed", "detached"}

\* Nothing that can still run holds a pointer to freed memory: the loop, the
\* events armed on nodes and clients, and the tasks, while nodes are torn down
\* with their clients and clients are removed one by one (client_opt.c:33-122).
MemorySafe == NodeSafe /\ ClientSafe

\* list_get_at(i) of the walk in pack_ps_rtp_and_add_node never runs past
\* the list, whatever is deleted by the walk and appended by the loop while
\* client_list_size is remembered from packet to packet.
WalkInBounds ==
  \A n \in Nodes :
    /\ spc[n] \in {"packet", "visit", "unlist"} =>
         walk[n].size <= Len(list[n])
    /\ spc[n] \in {"visit", "unlist"} =>
         walk[n].i + walk[n].left = walk[n].size

\* The loop starts a second task for no node, and its late store of 1 into
\* uRtpClientNodeSendDataThreadFlag does not overwrite a 2: when it comes,
\* the new task has had no reason to leave yet.
StartHandshake ==
  /\ loop = "task" => spc[cur] = "none"
  /\ loop = "flag" => /\ spc[cur] \in {"queued", "top", "size", "len"}
                      /\ sendFlag[cur] = 0

\* A node that is allocated can be found, or its task is freeing it under
\* the mutex; and when its source has gone somebody is still going to free it.
NoOrphan ==
  \A n \in heap :
    /\ n \in table \/ lock = n
    /\ \/ src[n] # "closed"
       \/ loop \in {"broke", "error", "getflag"} /\ cur = n
       \/ spc[n] \notin {"none", "done"}

\* A stream has one node and, there, a call has one client, so that STOP
\* finds the client that PLAY made.
NoDuplicates ==
  /\ \A n, m \in table : key[n] = key[m] => n = m
  /\ \A n \in heap : \A c, d \in Members(n) : call[c] = call[d] => c = d

\* As long as its source is connected, a client leaves the list only after
\* STOP or an RTCP timeout asked for it.
KeptWhileServed ==
  [][\A n \in Nodes : \A c \in Members(n) :
        c \notin Members(n)' => del[c] \/ src'[n] = "closed"]_vars

\* get_frame_from_hbserver.c:255 and 311 say of a source that goes while the
\* task runs: the node is only taken off the table here, the task frees it.
\* So a node handed over to its task is not in the table any more.
HandedOverIsDetached == \A n \in table : getFlag[n] # 2

-----------------------------------------------------------------------------
(***************************************************************************)
(* The inductive invariant behind NodeSafe, StartHandshake, NoOrphan and   *)
(* WalkInBounds: who may free a node at each point of the two handshakes.  *)
(***************************************************************************)

Open(n) == src[n] \in {"connecting", "cmd", "stream"}
Walking == {"visit", "unlist", "untimer", "unlisten"}
Freeing == {"drain", "untimer", "unlisten"}

\* what a callback that is under way has found out about its node
LoopInv ==
  /\ loop \in NodeLoopPCs => cur \in table /\ getFlag[cur] = 0
  /\ loop \in {"task", "flag", "push"} => src[cur] = "stream"
  /\ loop \in {"broke", "error", "getflag"} => src[cur] = "closed"
  /\ loop \in {"task", "flag"} => sendFlag[cur] = 0
  /\ loop \in {"push", "getflag"} => sendFlag[cur] # 0
  /\ loop = "task" => spc[cur] = "none"
  /\ loop = "flag" => spc[cur] \in {"queued", "top", "size", "len"}

\* allocation: nodes are numbered in order, a node lives from PLAY to its
\* one free, and is in the table until its task locks the bucket to free it
AllocInv(n) ==
  /\ n \in heap => n <= nNodes
  /\ n \in table <=> n \in heap /\ lock # n
  /\ n > nNodes => src[n] = "none" /\ spc[n] = "none" /\ rlen[n] = 0
  /\ n \notin heap => ~Open(n) /\ spc[n] \in {"none", "done"}
  /\ n \notin heap => sendFlag[n] = 0 \/ spc[n] = "done"
  /\ n \in heap => spc[n] # "done"

\* the two flags: sendFlag tells whether there is a task, getFlag that the
\* source has let go of the node
FlagInv(n) ==
  /\ sendFlag[n] = 0 => \/ spc[n] = "none"
                        \/ loop = "flag" /\ cur = n
  /\ sendFlag[n] # 0 => spc[n] # "none" /\ src[n] \in {"stream", "closed"}
  /\ sendFlag[n] = 2 => lock = n \/ spc[n] \in {"exit", "wait", "lock", "done"}
  /\ getFlag[n] = 2 => src[n] = "closed" /\ sendFlag[n] # 0
  /\ n \in heap /\ src[n] = "closed" =>
       \/ getFlag[n] = 2
       \/ loop \in {"broke", "error", "getflag"} /\ cur = n
  /\ spc[n] = "exit" => getFlag[n] = 2 \/ sendFlag[n] = 2
  /\ spc[n] = "wait" => sendFlag[n] = 2
  /\ spc[n] = "lock" \/ lock = n => getFlag[n] = 2
  /\ lock = n => n \in heap /\ spc[n] \in Freeing
  /\ spc[n] = "drain" => lock = n

\* before the first I frame there are clients and no frames
IdleInv(n) ==
  n \in heap /\ sendFlag[n] = 0 => list[n] # <<>> /\ rlen[n] = 0

\* the walk over the clients
WalkInv(n) ==
  /\ spc[n] \in {"packet", "visit", "unlist"} =>
       walk[n].size <= Len(list[n])
  /\ spc[n] \in Walking /\ lock # n => walk[n].i + walk[n].left = walk[n].size
  /\ spc[n] \in Walking \ {"visit"} => victim[n] \in Clients
  /\ spc[n] \in Walking \ {"visit"} /\ lock # n => walk[n].left > 0
  /\ spc[n] = "unlist" => list[n][walk[n].i + 1] = victim[n]
  /\ spc[n] \in {"untimer", "unlisten"} /\ lock # n =>
       walk[n].size - 1 <= Len(list[n])

NodeInv ==
  /\ TypeOK
  /\ LoopInv
  /\ \A n \in Nodes : AllocInv(n) /\ FlagInv(n) /\ IdleInv(n) /\ WalkInv(n)

-----------------------------------------------------------------------------
(***************************************************************************)
(* The inductive invariant behind ClientSafe and NoDuplicates: where the   *)
(* memory of a client is, and which events may still be pending on it.     *)
(***************************************************************************)

TearDown == {"untimer", "unlisten"}
\* c is being torn down by a task that is at one of pcs
Held(c, pcs) == \E n \in Nodes : victim[n] = c /\ spc[n] \in pcs

\* a client is in one list, once, as long as nobody has begun to remove it
MemberInv(n) ==
  /\ IsInjective(list[n])
  /\ \A c \in Members(n) : cstate[c] = "listed"
  /\ \A m \in Nodes : m # n => Members(m) \cap Members(n) = {}
  /\ \A c, d \in Members(n) : call[c] = call[d] => c = d
  /\ n \notin heap => list[n] = <<>>

\* and then it belongs to one task
VictimInv(n) ==
  /\ victim[n] # Nil => spc[n] \in {"unlist"} \cup TearDown
  /\ spc[n] \in TearDown => cstate[victim[n]] = "detached"
  /\ \A m \in Nodes : m # n /\ spc[n] \in TearDown /\ spc[m] \in TearDown =>
       victim[m] # victim[n]

\* the timer is deleted before the listener, which it creates
EventInv(c) ==
  /\ timer[c] => cstate[c] = "listed" \/ Held(c, {"untimer"})
  /\ listen[c] => cstate[c] = "listed" \/ Held(c, TearDown)
  /\ c > nClients => cstate[c] = "unused"
CallbackInv ==
  /\ loop = "timer" => cstate[cur] = "listed" \/ Held(cur, {"untimer"})
  /\ loop = "rtcp" => cstate[cur] = "listed" \/ Held(cur, TearDown)

ClientInv ==
  /\ \A n \in Nodes : MemberInv(n) /\ VictimInv(n)
  /\ \A c \in Clients : EventInv(c)
  /\ CallbackInv
KeyInv == \A n, m \in table : key[n] = key[m] => n = m
\* nobody clears iDeleteFlag while the walk waits for the mutex
AskedInv == \A n \in Nodes : spc[n] = "unlist" => del[victim[n]]

StreamInv == NodeInv /\ ClientInv /\ KeyInv /\ AskedInv

-----------------------------------------------------------------------------
(***************************************************************************)
(* Liveness.                                                               *)
(***************************************************************************)

\* A node whose task or whose source has given up is freed in the end: the
\* two sides wait for each other only in one direction, and event_del under
\* the mutex does not block the loop.
DyingNodeFreed ==
  \A n \in Nodes : (sendFlag[n] = 2 \/ getFlag[n] = 2) ~> n \notin heap

\* Cameras that send I frames again and again while they are connected; the
\* frames taken off the queue, whose kind is chosen there, then are video
\* again and again.
CameraGoesOn ==
  \A n \in Nodes :
    /\ SF_vars(RecvFrame(n, TRUE, TRUE))
    /\ SF_vars(FrameTaken(n) /\ spc'[n] = "pack" /\ walk'[n].pkts > 0)

\* A client that STOP or an RTCP timeout flagged is freed in the end, if its
\* node has ever got to open its source.  This needs frames: only the walk
\* over the clients looks at iDeleteFlag.  (A node whose first connection
\* could not be set up waits for another PLAY of the same stream.)
FlaggedClientFreed ==
  CameraGoesOn =>
    \A c \in Clients, n \in Nodes :
      del[c] /\ c \in Members(n) /\ src[n] # "none" ~> cstate[c] = "freed"
=============================================================================
