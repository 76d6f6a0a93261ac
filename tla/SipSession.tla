----------------------------- MODULE SipSession -----------------------------
(***************************************************************************)
(* Calls, sockets and the two sides of the server (sip.c, sip_hash.c, and  *)
(* what stream_moudle.c and client_opt.c do with the sockets).             *)
(*                                                                         *)
(* A call is known twice.  The SIP side keeps a SIP node from the INVITE   *)
(* to the BYE; it opens the socket.  The stream side keeps an RTP client   *)
(* from the PLAY request to its removal; it closes the socket.  Between    *)
(* them there is only a pair of bufferevents: PLAY and STOP go one way as  *)
(* copies of the SIP node, "the client timed out" comes back as the        *)
(* argument of a callback.  Both sides hold the same number of a file      *)
(* descriptor, and the kernel gives a number out again once it is closed.  *)
(*                                                                         *)
(* Everything here but the send task's removal of clients runs in the      *)
(* event loop, one callback at a time.  The stream side is reduced to its  *)
(* clients; module StreamNode has it in full.  One descriptor stands for   *)
(* the RTP socket and the RTCP socket of a call: they are opened, copied   *)
(* and closed together.                                                    *)
(***************************************************************************)
EXTENDS Naturals, Sequences, FiniteSets, SequencesExt

CONSTANTS
  Calls,        \* SIP Call-IDs
  Worlds,       \* circumstances the server is put in, one for a behaviour:
                \*   late: may datagrams be repeated and overtake each other?
                \*   breaks: may a camera source break off?
                \*   rtcp: iUseRtcpFlag
                \*   together: may two RTCP timeouts expire in one turn of the loop?
  MaxSockets,   \* bound: sockets opened in a behaviour
  MaxClients,   \* bound: RTP clients allocated in a behaviour
  None          \* no call

ASSUME WorldsAssumption ==
  Worlds \subseteq [late : BOOLEAN, breaks : BOOLEAN, rtcp : BOOLEAN, together : BOOLEAN]
ASSUME BoundAssumption == MaxSockets \in Nat /\ MaxClients \in Nat
ASSUME NoneAssumption == None \notin Calls

VARIABLES
  world,     \* the circumstances, constant
  \* --- the SIP server at the other end, and the network
  peer,      \* how far its dialogue for a call has come
  net,       \* datagrams under way to this server
  \* --- the kernel
  open,      \* which socket is behind a descriptor, 0: none
  nSockets,  \* sockets opened so far
  \* --- the event loop
  active,    \* callbacks activated and not yet run, in order
  mail,      \* SIP_NODE_OBJs in the input buffer of sip_stream_msg_pair[1]
  arg,       \* argument of sip_pair_read_cb
  \* --- the two sides
  sip,       \* the SIP node of a call
  nClients,  \* RTP clients allocated so far
  client     \* the RTP clients

peerVars   == <<world, peer, net>>
kernelVars == <<open, nSockets>>
pairVars   == <<mail, arg>>
streamVars == <<nClients, client>>
vars == <<peerVars, kernelVars, active, pairVars, sip, streamVars>>

Sockets == 1 .. MaxSockets
Fds     == Sockets          \* descriptors: as many as sockets are enough
Clients == 1 .. MaxClients

\* What a SIP node, a message or a client knows of the socket of its call:
\* the descriptor.  sock says which socket that was when it was opened.
NoSip     == [fd |-> 0, sock |-> 0]
SipNodes  == [fd : Fds, sock : Sockets] \cup {NoSip}
Datagrams == [m : {"INVITE", "ACK", "BYE"}, k : Calls]
Messages  == [cmd : {"PLAY", "STOP"}, k : Calls, fd : Fds, sock : Sockets]
ClientObjs == [at : {"unused", "list", "flagged", "dying", "gone"},
               k : Calls \cup {None}, fd : Fds \cup {0},
               sock : Sockets \cup {0}]
Rtcp(c)   == <<"rtcp", c>>
Callbacks == {<<"udp", 0>>, <<"stream", 0>>, <<"sip", 0>>}
               \cup {Rtcp(c) : c \in Clients}

Init ==
  /\ world \in Worlds
  /\ peer = [k \in Calls |-> "new"] /\ net = {}
  /\ open = [f \in Fds |-> 0] /\ nSockets = 0
  /\ active = <<>> /\ mail = <<>> /\ arg = None
  /\ sip = [k \in Calls |-> NoSip]
  /\ nClients = 0
  /\ client = [c \in Clients |-> [at |-> "unused", k |-> None, fd |-> 0, sock |-> 0]]

-----------------------------------------------------------------------------
(***************************************************************************)
(* The SIP server: INVITE, after the 200 OK an ACK, later a BYE.  Unless   *)
(* late, a datagram is sent only when the one before it has arrived.       *)
(***************************************************************************)

Send(k, m, before, after) ==
  /\ peer[k] = before
  /\ world.late \/ \A d \in net : d.k # k
  /\ peer' = [peer EXCEPT ![k] = after]
  /\ net' = net \cup {[m |-> m, k |-> k]}
  /\ UNCHANGED <<world, kernelVars, active, pairVars, sip, streamVars>>

SendInvite(k) == Send(k, "INVITE", "new", "invited")
SendAck(k)    == Send(k, "ACK", "answered", "acked")
SendBye(k)    == Send(k, "BYE", "acked", "done")

-----------------------------------------------------------------------------
(***************************************************************************)
(* The event loop.  A turn activates what has become ready, sockets before *)
(* timers; a callback that is triggered meanwhile goes to the end of the   *)
(* queue, unless it is already there.                                      *)
(***************************************************************************)

Activate(q, cb) == IF cb \in ToSet(q) THEN q ELSE Append(q, cb)
Turn == active = <<>>
Run(cb) == active # <<>> /\ Head(active) = cb

Listed(c) == client[c].at \in {"list", "flagged"}
Alive(c)  == client[c].at \in {"list", "flagged", "dying"}

\* the orders in which timers can expire in one turn
Expired ==
  IF ~world.rtcp THEN {<<>>}
  ELSE {<<>>} \cup {<<Rtcp(c)>> : c \in {x \in Clients : Alive(x)}}
       \cup {<<Rtcp(p[1]), Rtcp(p[2])>> : p \in
               {q \in Clients \X Clients :
                  world.together /\ q[1] # q[2] /\ Alive(q[1]) /\ Alive(q[2])}}

Dispatch ==
  /\ Turn
  /\ \E ready \in {<<>>} \cup (IF net = {} THEN {} ELSE {<< <<"udp", 0>> >>}),
        timers \in Expired :
       /\ ready \o timers # <<>>
       /\ active' = ready \o timers
  /\ UNCHANGED <<peerVars, kernelVars, pairVars, sip, streamVars>>

-----------------------------------------------------------------------------
(***************************************************************************)
(* udp_recv_cb                                                             *)
(***************************************************************************)

Receive(d) ==
  /\ Run(<<"udp", 0>>) /\ d \in net
  /\ \/ net' = net \ {d}
     \/ world.late /\ net' = net          \* a copy of it is still under way

NotTriggered(cb) == Tail(active)           \* mutant: the callback is not triggered
Triggered(cb) == Activate(Tail(active), cb)

\* bufferevent_write of a copy of the SIP node, with its command
Post(cmd, k) ==
  /\ mail' = Append(mail, [cmd |-> cmd, k |-> k, fd |-> sip[k].fd, sock |-> sip[k].sock])
  /\ active' = Triggered(<<"stream", 0>>)

\* socket returns the lowest descriptor that is closed
FreeFd == CHOOSE f \in Fds : open[f] = 0 /\ \A g \in Fds : g < f => open[g] # 0

\* insert_node_to_sip_hash_table finds a call again by its Call-ID
KnowsCall(k) == sip[k] # NoSip

NewSession(k) ==
  /\ nSockets < MaxSockets
  /\ nSockets' = nSockets + 1
  /\ open' = [open EXCEPT ![FreeFd] = nSockets + 1]
  /\ sip' = [sip EXCEPT ![k] = [fd |-> FreeFd, sock |-> nSockets + 1]]

\* a retransmitted INVITE is answered again with the ports of the first
RecvInvite(k) ==
  /\ Receive([m |-> "INVITE", k |-> k])
  /\ IF KnowsCall(k) THEN UNCHANGED <<kernelVars, sip>> ELSE NewSession(k)
  /\ peer' = [peer EXCEPT ![k] = IF @ = "invited" THEN "answered" ELSE @]
  /\ active' = Tail(active)
  /\ UNCHANGED <<world, pairVars, streamVars>>

RecvAck(k) ==
  /\ Receive([m |-> "ACK", k |-> k])
  /\ IF sip[k] = NoSip
     THEN active' = Tail(active) /\ UNCHANGED mail
     ELSE Post("PLAY", k)
  /\ UNCHANGED <<world, peer, kernelVars, arg, sip, streamVars>>

\* the SIP node goes, its socket stays open: the client is to close it
AfterByeKept(k) == sip[k]                  \* mutant: the node is not deleted
AfterBye(k) == NoSip
OpenAfterByeClosed(k) ==                   \* mutant: the SIP side closes it
  [open EXCEPT ![sip[k].fd] = 0]
OpenAfterBye(k) == open

RecvBye(k) ==
  /\ Receive([m |-> "BYE", k |-> k])
  /\ IF sip[k] = NoSip
     THEN active' = Tail(active) /\ UNCHANGED <<mail, sip, open>>
     ELSE /\ Post("STOP", k)
          /\ sip' = [sip EXCEPT ![k] = AfterBye(k)]
          /\ open' = OpenAfterBye(k)
  /\ UNCHANGED <<world, peer, nSockets, arg, streamVars>>

-----------------------------------------------------------------------------
(***************************************************************************)
(* The stream side in the loop: stream_read_cb reads one message; the      *)
(* client of a call is looked up by Call-ID and takes the descriptors of   *)
(* the message only when it is new.                                        *)
(***************************************************************************)

ClientOf(k) == {c \in Clients : Listed(c) /\ client[c].k = k}

ReadPlay ==
  /\ Run(<<"stream", 0>>) /\ mail # <<>> /\ Head(mail).cmd = "PLAY"
  /\ LET msg == Head(mail)
     IN IF ClientOf(msg.k) # {} THEN UNCHANGED streamVars
        ELSE /\ nClients < MaxClients
             /\ nClients' = nClients + 1
             /\ client' = [client EXCEPT ![nClients + 1] =
                  [at |-> "list", k |-> msg.k, fd |-> msg.fd, sock |-> msg.sock]]
  /\ mail' = Tail(mail) /\ active' = Tail(active)
  /\ UNCHANGED <<peerVars, kernelVars, arg, sip>>

ReadStop ==
  /\ Run(<<"stream", 0>>) /\ mail # <<>> /\ Head(mail).cmd = "STOP"
  /\ client' = [c \in Clients |->
                  IF c \in ClientOf(Head(mail).k)
                  THEN [client[c] EXCEPT !.at = "flagged"] ELSE client[c]]
  /\ mail' = Tail(mail) /\ active' = Tail(active)
  /\ UNCHANGED <<peerVars, kernelVars, arg, sip, nClients>>

\* udp_rtcp_recv_cb, EV_TIMEOUT
Flagged(s) == IF s = "list" THEN "flagged" ELSE s

RtcpTimeout(c) ==
  /\ Run(Rtcp(c))
  /\ client' = [client EXCEPT ![c].at = Flagged(@)]
  /\ arg' = client[c].k
  /\ active' = Triggered(<<"sip", 0>>)
  /\ UNCHANGED <<peerVars, kernelVars, mail, sip, nClients>>

\* sip_pair_read_cb: the call in the argument, which is the last one stored
StoppedNone == {}                          \* mutant: the SIP node stays
Stopped == {arg}

SipPairRead ==
  /\ Run(<<"sip", 0>>)
  /\ sip' = [k \in Calls |-> IF k \in Stopped THEN NoSip ELSE sip[k]]
  /\ active' = Tail(active)
  /\ UNCHANGED <<peerVars, kernelVars, pairVars, streamVars>>

-----------------------------------------------------------------------------
(***************************************************************************)
(* The end of clients.  A source that breaks off takes every client of its *)
(* node with it; the SIP side is not told.                                 *)
(***************************************************************************)

SourceFailure ==
  /\ world.breaks
  /\ \E s \in SUBSET {c \in Clients : Listed(c)} :
       /\ s # {}
       /\ client' = [c \in Clients |->
                       IF c \in s THEN [client[c] EXCEPT !.at = "dying"] ELSE client[c]]
  /\ UNCHANGED <<peerVars, kernelVars, active, pairVars, sip, nClients>>

CloseForgotten(f) == open                  \* mutant: close is not called
Close(f) == [open EXCEPT ![f] = 0]

\* event_del takes a timer that has expired out of the queue again, where an
\* event is at most once
Deactivate(q, cb) ==
  IF cb \in ToSet(q) THEN RemoveAt(q, CHOOSE i \in DOMAIN q : q[i] = cb) ELSE q

\* del_one_client_node and destory_client_list: the timer is deleted, then the
\* descriptor is closed
RemoveClient(c) ==
  /\ client[c].at \in {"flagged", "dying"}
  /\ client' = [client EXCEPT ![c].at = "gone"]
  /\ open' = Close(client[c].fd)
  /\ active' = Deactivate(active, Rtcp(c))
  /\ UNCHANGED <<peerVars, nSockets, pairVars, sip, nClients>>

-----------------------------------------------------------------------------

Peer == \E k \in Calls : SendInvite(k) \/ SendAck(k) \/ SendBye(k)
Loop ==
  \/ Dispatch
  \/ \E k \in Calls : RecvInvite(k) \/ RecvAck(k) \/ RecvBye(k)
  \/ ReadPlay \/ ReadStop \/ SipPairRead
  \/ \E c \in Clients : RtcpTimeout(c)

Next == Peer \/ Loop \/ SourceFailure \/ \E c \in Clients : RemoveClient(c)

Spec == Init /\ [][Next]_vars

\* The loop runs its callbacks and takes the datagrams that are there; the
\* send task removes flagged clients as frames come (StreamNode:
\* FlaggedClientFreed) and tears down nodes (StreamNode: DyingNodeFreed).
FairSpec ==
  /\ Spec
  /\ WF_vars(Loop)
  /\ \A c \in Clients : WF_vars(RemoveClient(c))

-----------------------------------------------------------------------------
(***************************************************************************)
(* Properties.                                                             *)
(***************************************************************************)

\* Type invariant.
TypeOK ==
  /\ world \in Worlds
  /\ peer \in [Calls -> {"new", "invited", "answered", "acked", "done"}]
  /\ net \subseteq Datagrams
  /\ open \in [Fds -> Sockets \cup {0}] /\ nSockets \in 0 .. MaxSockets
  /\ active \in Seq(Callbacks)
  /\ mail \in Seq(Messages)
  /\ arg \in Calls \cup {None}
  /\ sip \in [Calls -> SipNodes]
  /\ nClients \in 0 .. MaxClients
  /\ client \in [Clients -> ClientObjs]

\* stream_read_cb reads one message each time it is called and is not called
\* again for what it leaves, yet no PLAY or STOP is left unread.
NoRequestLeft == Turn => mail = <<>>

\* The circumstances that the server can bear: datagrams that come in order,
\* or a network that repeats and reorders them while nothing else fails.
Bearable == ~world.late \/ (~world.breaks /\ ~world.rtcp)

OwnSocket ==
  Bearable => \A c \in Clients : Listed(c) => open[client[c].fd] = client[c].sock

\* The media of a client goes through the socket that was opened for its
\* call: not through a descriptor that has been closed, or given to another
\* call since.  Datagrams in order are enough for it, whatever fails; so is
\* that nothing fails, whatever the network does (stream_moudle.c:157-162).
CallsSafe == TypeOK /\ OwnSocket

\* Every open socket is still known to somebody who will close it: a SIP
\* node that has not yet handed it over, a request, or a client.  The flow
\* description says that a BYE closes the video, whenever it comes.
SocketsKnown ==
  \A f \in Fds : open[f] # 0 =>
    \/ \E k \in Calls : sip[k].sock = open[f]
    \/ \E i \in DOMAIN mail : mail[i].cmd = "PLAY" /\ mail[i].sock = open[f]
    \/ \E c \in Clients : Alive(c) /\ client[c].sock = open[f]

\* This much is true: no socket is forgotten while a BYE comes after its ACK.
NothingLeaks == ~world.late => SocketsKnown

\* When the media of a call has been closed, the SIP side forgets the call:
\* a SIP node at rest never names a closed socket or another call's.  The
\* flow description says that any problem closes all links of a call.
AllLinksClosed ==
  Turn => \A k \in Calls : sip[k] # NoSip => open[sip[k].fd] = sip[k].sock

\* This much is true: it does in circumstances the server can bear, while
\* sources hold and timeouts come singly.
LinksAgree == Bearable /\ ~world.breaks /\ ~world.together => AllLinksClosed

\* A call that was hung up ends on both sides, while its datagrams come in
\* order (a late INVITE sets it up again).
ByeEnds ==
  \A k \in Calls :
    peer[k] = "done" /\ ~world.late ~>
      sip[k] = NoSip /\ \A c \in Clients : Alive(c) => client[c].k # k
=============================================================================
