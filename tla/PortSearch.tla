----------------------------- MODULE PortSearch -----------------------------
(***************************************************************************)
(* The local ports of a call: udp_bind_local_port looks for a free even    *)
(* port for RTP with its odd neighbour for RTCP, from a random start, two  *)
(* up after each failure (sip_hash.c).  The sockets stay open until the    *)
(* client of the call is removed.                                          *)
(*                                                                         *)
(* The search runs in the event loop, one call at a time; the other        *)
(* programs of the machine bind and release ports between any two of its   *)
(* steps.  A port number is an HB_S32, but bind gets its lower 16 bits     *)
(* (PortMod is 65536), and 0 lets the kernel choose.                       *)
(***************************************************************************)
EXTENDS Integers, FiniteSets

CONSTANTS
  Callers,     \* calls
  PortMod,     \* 65536
  Starts,      \* values of random_number: 10000 .. 19999
  MaxOthers,   \* bound: ports held by other programs
  MaxTry,      \* bound: the largest number tried
  NoCall

ASSUME PortAssumption ==
  /\ PortMod \in Nat /\ PortMod > 0 /\ PortMod % 2 = 0
  /\ Starts \subseteq Nat \ {0} /\ MaxOthers \in Nat /\ MaxTry \in Nat
  /\ NoCall \notin Callers

VARIABLES
  useRtcp,   \* iUseRtcpFlag
  others,    \* ports bound by other programs
  rtpPort,   \* the port a call's RTP socket is bound to, 0: none
  rtcpPort,  \* and its RTCP socket
  told,      \* iUdpSendStreamPort, which the answer to the INVITE names
  caller,    \* the call whose INVITE is handled
  searching  \* where: idle, rtp, rtcp

portVars  == <<rtpPort, rtcpPort, told>>
portsAll  == <<useRtcp, others, portVars, caller, searching>>

Ports == 1 .. PortMod - 1
Bound == others \cup {rtpPort[c] : c \in Callers} \cup {rtcpPort[c] : c \in Callers}
FreePorts == Ports \ Bound

PortsInit ==
  /\ useRtcp \in BOOLEAN
  /\ others = {}
  /\ rtpPort = [c \in Callers |-> 0] /\ rtcpPort = [c \in Callers |-> 0]
  /\ told = [c \in Callers |-> 0]
  /\ caller = NoCall /\ searching = "idle"

\* an INVITE of a new call: the sockets, and where the search starts
StartSearch(c, r) ==
  /\ searching = "idle" /\ told[c] = 0
  /\ told' = [told EXCEPT ![c] = 2 * r]
  /\ caller' = c /\ searching' = "rtp"
  /\ UNCHANGED <<useRtcp, others, rtpPort, rtcpPort>>

\* what bind may bind a socket to that asks for number t; {} is an error
Bindable(t) ==
  IF t % PortMod = 0 THEN FreePorts ELSE {t % PortMod} \cap FreePorts

StepOne  == 1                              \* mutant: any next port
StepZero == 0                              \* mutant: the same port again
Step == 2

NextTry ==
  /\ told[caller] + Step <= MaxTry
  /\ told' = [told EXCEPT ![caller] = told[caller] + Step]

BindRtp ==
  /\ searching = "rtp"
  /\ \/ \E p \in Bindable(told[caller]) :
          /\ rtpPort' = [rtpPort EXCEPT ![caller] = p]
          /\ searching' = IF useRtcp THEN "rtcp" ELSE "idle"
          /\ caller' = IF useRtcp THEN caller ELSE NoCall
          /\ UNCHANGED told
     \/ /\ Bindable(told[caller]) = {}
        /\ NextTry
        /\ UNCHANGED <<rtpPort, searching, caller>>
  /\ UNCHANGED <<useRtcp, others, rtcpPort>>

CloseRtpNot == rtpPort                     \* mutant: the socket stays open
\* close(iUdpSendStreamSockFd)
CloseRtp == [rtpPort EXCEPT ![caller] = 0]

BindRtcp ==
  /\ searching = "rtcp"
  /\ \/ \E p \in Bindable(told[caller] + 1) :
          /\ rtcpPort' = [rtcpPort EXCEPT ![caller] = p]
          /\ searching' = "idle" /\ caller' = NoCall
          /\ UNCHANGED <<told, rtpPort>>
     \/ /\ Bindable(told[caller] + 1) = {}
        /\ NextTry
        /\ rtpPort' = CloseRtp
        /\ searching' = "rtp"
        /\ UNCHANGED <<rtcpPort, caller>>
  /\ UNCHANGED <<useRtcp, others>>

\* the client is removed and its sockets are closed (client_opt.c)
CloseSockets(c) ==
  /\ searching = "idle" /\ told[c] # 0
  /\ told' = [told EXCEPT ![c] = 0]
  /\ rtpPort' = [rtpPort EXCEPT ![c] = 0]
  /\ rtcpPort' = [rtcpPort EXCEPT ![c] = 0]
  /\ UNCHANGED <<useRtcp, others, caller, searching>>

OthersBind(p) ==
  /\ p \in FreePorts /\ Cardinality(others) < MaxOthers
  /\ others' = others \cup {p}
  /\ UNCHANGED <<useRtcp, portVars, caller, searching>>

OthersRelease(p) ==
  /\ p \in others
  /\ others' = others \ {p}
  /\ UNCHANGED <<useRtcp, portVars, caller, searching>>

Search == BindRtp \/ BindRtcp

PortsNext ==
  \/ \E c \in Callers : CloseSockets(c) \/ \E r \in Starts : StartSearch(c, r)
  \/ Search
  \/ \E p \in Ports : OthersBind(p) \/ OthersRelease(p)

\* the loop of the search is a loop of the event thread
PortsSpec == PortsInit /\ [][PortsNext]_portsAll /\ WF_portsAll(Search)

-----------------------------------------------------------------------------
\* Properties

PortsTypeOK ==
  /\ useRtcp \in BOOLEAN /\ others \subseteq Ports
  /\ rtpPort \in [Callers -> 0 .. PortMod - 1]
  /\ rtcpPort \in [Callers -> 0 .. PortMod - 1]
  /\ told \in [Callers -> Nat]
  /\ searching \in {"idle", "rtp", "rtcp"}
  /\ IF searching = "idle" THEN caller = NoCall ELSE caller \in Callers

\* The answer to the INVITE names the port the stream comes from: an even one,
\* bound by this call, with RTCP on its neighbour, as long as the search did
\* not run beyond the last port (sip_hash.c:59, 67).
PortsTold ==
  \A c \in Callers : told[c] \in 1 .. PortMod - 1 /\ c # caller =>
    /\ told[c] % 2 = 0 /\ rtpPort[c] = told[c]
    /\ useRtcp => rtcpPort[c] = told[c] + 1

\* A search that gave up a port has closed its socket: the program holds the
\* ports of its calls, two each, and nothing else (sip_hash.c:72).
NoPortLost ==
  /\ \A c \in Callers : told[c] = 0 => rtpPort[c] = 0 /\ rtcpPort[c] = 0
  /\ searching = "rtp" => rtpPort[caller] = 0 /\ rtcpPort[caller] = 0
  /\ searching = "rtcp" => rtpPort[caller] # 0 /\ rtcpPort[caller] = 0

\* A search without RTCP ends, since beyond the last port bind gets 0 and the
\* kernel chooses a free one (sip_hash.c:54); with RTCP the neighbour of that
\* one may be taken, and the search can go on for ever.
SearchEnds == ~useRtcp /\ searching # "idle" ~> searching = "idle"
=============================================================================
