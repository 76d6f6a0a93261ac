------------------------------ MODULE SendPath ------------------------------
(***************************************************************************)
(* What the send task does to one frame: ps_process wraps it into a        *)
(* program stream (ps.c), pack_ps_rtp_and_add_node cuts the result into    *)
(* RTP packets and sends each one to the clients of the node (rtp_pack.c). *)
(*                                                                         *)
(* The frame lies in one buffer of symbols.  A start code with the length  *)
(* field after it is one symbol, every other byte is one symbol; es bytes  *)
(* are numbered.  The RTP header is written in place, before the payload,  *)
(* so it overwrites bytes of the packet before.                            *)
(*                                                                         *)
(* The life of the node and what the event loop does to the list of clients   *)
(* while one packet goes out are the subject of StreamNode: here a client  *)
(* comes or is flagged between two packets.                                *)
(***************************************************************************)
EXTENDS Integers, Sequences, FiniteSets

CONSTANTS
  Clients,
  PackSize,             \* sizeof(PS_PACKHEADER_OBJ), 14
  HL, PSML,             \* bytes after the length field of the system header
                        \* and of the map: 12 and 24
  PS_PES_PPL_LENGTH,    \* header bytes after PES_packet_length, 13
  LenField,             \* largest value of a length field, 0xFFFF
  MAX_RTP_PACKET_SIZE,  \* 1400
  RtpHeader,            \* 12
  SeqNoMod,               \* 65536
  MaxFrame,             \* bound: bytes of a frame
  None

ASSUME SizesAssumption ==
  /\ PackSize \in Nat \ {0} /\ HL \in Nat /\ PSML \in Nat
  /\ PS_PES_PPL_LENGTH \in Nat /\ LenField \in Nat
  /\ PS_PES_PPL_LENGTH < LenField
ASSUME PacketAssumption ==
  /\ RtpHeader \in Nat /\ MAX_RTP_PACKET_SIZE \in Nat \ {0}
  /\ RtpHeader <= MAX_RTP_PACKET_SIZE
ASSUME SeqAssumption ==
  /\ SeqNoMod \in Nat /\ SeqNoMod > 1 /\ None \notin 0 .. SeqNoMod - 1
  /\ None \notin [type : {"I", "BP"}, at : Nat, afterKey : BOOLEAN]
ASSUME FrameAssumption == MaxFrame \in Nat

VARIABLES
  stage,          \* pop, mux, pack, done
  data_type, cmd_length,  \* the frame
  frame_len,      \* its bytes that are not in the buffer yet
  psBuf,          \* the buffer at pPsData + iRtpDataBufPreSize
  rtpEnd,         \* rtp_info->end, from the start of the buffer
  FU_flag,
  seq_no,
  clientList,     \* listClientNodeHead
  client_list_size,
  iSendIframeFlag, iDeleteFlag,
  \* --- what a client has seen
  rx,         \* bytes of this frame that were sent to it
  marked,     \* how many of these packets had the marker bit
  firstSent,  \* its first packet: type of the frame, offset, afterKey
  lastSent,   \* sequence number of the last packet sent to it
  wasReady,   \* had it its I frame when this frame began?
  \* --- what the node has sent
  afterKey    \* its last packet was the first one of an I frame

frameVars == <<data_type, cmd_length, frame_len, psBuf>>
rtpVars == <<rtpEnd, FU_flag, seq_no>>
clientVars == <<clientList, iSendIframeFlag, iDeleteFlag>>
rxVars == <<rx, marked, firstSent, lastSent, wasReady, afterKey>>
pathAll == <<stage, frameVars, rtpVars, clientVars, client_list_size, rxVars>>

Symbol == [k : {"pack", "sys", "map", "pes", "rest", "es", "rtp"}, n : Nat]
Sym(k, n) == [k |-> k, n |-> n]
Run(k, n) == [i \in 1 .. n |-> Sym(k, 0)]
Listed == {clientList[i] : i \in 1 .. Len(clientList)}

PathInit ==
  /\ stage = "pop" /\ data_type = "I" /\ cmd_length = 0 /\ frame_len = 0 /\ psBuf = <<>>
  /\ rtpEnd = 0 /\ FU_flag = FALSE /\ seq_no = 0
  /\ clientList = <<>> /\ client_list_size = 0
  /\ iSendIframeFlag = [c \in Clients |-> FALSE]
  /\ iDeleteFlag = [c \in Clients |-> FALSE]
  /\ rx = [c \in Clients |-> <<>>] /\ marked = [c \in Clients |-> 0]
  /\ firstSent = [c \in Clients |-> None] /\ lastSent = [c \in Clients |-> None]
  /\ wasReady = [c \in Clients |-> FALSE] /\ afterKey = FALSE

-----------------------------------------------------------------------------
\* The clients of the node, from the event loop

ClientJoins(c) ==
  /\ stage # "done" /\ c \notin Listed
  /\ clientList' = Append(clientList, c)
  /\ iSendIframeFlag' = [iSendIframeFlag EXCEPT ![c] = FALSE]
  /\ iDeleteFlag' = [iDeleteFlag EXCEPT ![c] = FALSE]
  /\ rx' = [rx EXCEPT ![c] = <<>>] /\ marked' = [marked EXCEPT ![c] = 0]
  /\ firstSent' = [firstSent EXCEPT ![c] = None]
  /\ lastSent' = [lastSent EXCEPT ![c] = None]
  /\ wasReady' = [wasReady EXCEPT ![c] = FALSE]
  /\ UNCHANGED <<stage, frameVars, rtpVars, client_list_size, afterKey>>

ClientFlagged(c) ==
  /\ c \in Listed /\ ~iDeleteFlag[c]
  /\ iDeleteFlag' = [iDeleteFlag EXCEPT ![c] = TRUE]
  /\ UNCHANGED <<stage, frameVars, rtpVars, clientList, iSendIframeFlag,
                 client_list_size, rxVars>>

-----------------------------------------------------------------------------
\* ps_process

PackHeader == Run("pack", PackSize)
SystemHeader == <<Sym("sys", HL)>> \o Run("rest", HL)
MapHeader == <<Sym("map", PSML)>> \o Run("rest", PSML)

\* the headers before the frame; only an I frame has the system header and
\* the map
Headers(t) == PackHeader \o IF t = "I" THEN SystemHeader \o MapHeader ELSE <<>>

MAX_PES_PACKET_LENGTH == LenField - PS_PES_PPL_LENGTH

PPLOfPayload(n) ==                         \* mutant: without the header bytes
  IF n > MAX_PES_PACKET_LENGTH THEN LenField ELSE n
\* ps_pesheader_make: PES_packet_length for the n bytes that are left
PPL(n) == IF n > MAX_PES_PACKET_LENGTH THEN LenField ELSE n + PS_PES_PPL_LENGTH
PesHeader(n) == <<Sym("pes", PPL(n))>> \o Run("rest", PS_PES_PPL_LENGTH)

EsBytes(a, b) == [i \in 1 .. b - a |-> Sym("es", a + i)]

\* a frame from the queue; audio is freed and not sent
PopFrame(t, n) ==
  /\ stage = "pop" /\ clientList # <<>>
  /\ data_type' = t /\ cmd_length' = n /\ frame_len' = n
  /\ psBuf' = Headers(t)
  /\ rx' = [c \in Clients |-> <<>>] /\ marked' = [c \in Clients |-> 0]
  /\ stage' = "mux"
  /\ UNCHANGED <<rtpVars, clientVars, client_list_size, firstSent, lastSent,
                 wasReady, afterKey>>

\* uiTmpLen
PesLen ==
  IF frame_len > MAX_PES_PACKET_LENGTH THEN MAX_PES_PACKET_LENGTH ELSE frame_len

\* one turn of the loop: a PES header and a piece of the frame
PesPacket ==
  /\ stage = "mux" /\ frame_len > 0
  /\ LET done == cmd_length - frame_len
     IN  psBuf' = psBuf \o PesHeader(frame_len) \o EsBytes(done, done + PesLen)
  /\ frame_len' = frame_len - PesLen
  /\ UNCHANGED <<stage, data_type, cmd_length, rtpVars, clientVars,
                 client_list_size, rxVars>>

-----------------------------------------------------------------------------
\* pack_ps_rtp_and_add_node

\* set_rtp_pack1
SetPack ==
  /\ stage = "mux" /\ frame_len = 0
  /\ rtpEnd' = 0 /\ FU_flag' = (Len(psBuf) > MAX_RTP_PACKET_SIZE)
  /\ client_list_size' = Len(clientList)
  /\ wasReady' = [c \in Clients |-> c \in Listed /\ iSendIframeFlag[c]]
  /\ stage' = "pack"
  /\ UNCHANGED <<frameVars, seq_no, clientVars, rx, marked, firstSent, lastSent,
                 afterKey>>

PacketEndShort ==                          \* mutant: the end overrun
  IF Len(psBuf) - rtpEnd > MAX_RTP_PACKET_SIZE
  THEN rtpEnd + MAX_RTP_PACKET_SIZE
  ELSE IF rtpEnd = 0 THEN Len(psBuf) ELSE rtpEnd + MAX_RTP_PACKET_SIZE
PacketEnd ==
  IF Len(psBuf) - rtpEnd > MAX_RTP_PACKET_SIZE
  THEN rtpEnd + MAX_RTP_PACKET_SIZE
  ELSE Len(psBuf)

MarkerAlways == TRUE                       \* mutant: FU_flag not looked at
\* e_bit is set on the last packet of a frame that is split
Marker == ~FU_flag \/ PacketEnd = Len(psBuf)

HeaderAtPayload(i) ==                      \* mutant: into the payload
  rtpEnd < i /\ i <= rtpEnd + RtpHeader
\* the twelve bytes before the payload
HeaderAt(i) == rtpEnd - RtpHeader < i /\ i <= rtpEnd

NextSeqShort ==                            \* mutant: wraps too early
  IF seq_no < SeqNoMod - 2 THEN seq_no + 1 ELSE 0
NextSeq == IF seq_no < SeqNoMod - 1 THEN seq_no + 1 ELSE 0

Walked == {clientList[i] : i \in 1 .. client_list_size}
Removed == {c \in Walked : iDeleteFlag[c]}
\* what del_one_client_node leaves of the list, client by client
Without(s, R) ==
  LET kept[i \in 0 .. Len(s)] ==
        IF i = 0 THEN <<>>
        ELSE IF s[i] \in R THEN kept[i - 1] ELSE Append(kept[i - 1], s[i])
  IN  kept[Len(s)]
SentToAll == Walked \ Removed              \* mutant: key frame not waited for
SentTo == {c \in Walked \ Removed : iSendIframeFlag[c]}
SwitchedOn == {c \in Walked \ Removed : data_type = "I"}

\* get_rtp_ps_pack and the walk over the clients
SendPacket ==
  /\ stage = "pack" /\ rtpEnd # Len(psBuf)
  /\ LET buf == [i \in 1 .. Len(psBuf) |->
                   IF HeaderAt(i) THEN Sym("rtp", 0) ELSE psBuf[i]]
         payload == SubSeq(buf, rtpEnd + 1, PacketEnd)
     IN  /\ psBuf' = buf
         /\ rx' = [c \in Clients |->
                     IF c \in SentTo THEN rx[c] \o payload ELSE rx[c]]
  /\ marked' = [c \in Clients |->
                  IF c \in SentTo /\ Marker THEN marked[c] + 1 ELSE marked[c]]
  /\ firstSent' = [c \in Clients |->
                    IF c \in SentTo /\ firstSent[c] = None
                    THEN [type |-> data_type, at |-> rtpEnd, afterKey |-> afterKey]
                    ELSE firstSent[c]]
  /\ afterKey' = (data_type = "I" /\ rtpEnd = 0)
  /\ lastSent' = [c \in Clients |-> IF c \in SentTo THEN seq_no ELSE lastSent[c]]
  /\ rtpEnd' = PacketEnd /\ seq_no' = NextSeq
  /\ clientList' = Without(clientList, Removed)
  /\ client_list_size' = client_list_size - Cardinality(Removed)
  /\ iSendIframeFlag' = [c \in Clients |-> iSendIframeFlag[c] \/ c \in SwitchedOn]
  /\ UNCHANGED <<stage, data_type, cmd_length, frame_len, FU_flag, iDeleteFlag,
                 wasReady>>

\* get_rtp_ps_pack returns NULL; what belongs to the frame is freed, and set
\* anew for the next one before it is looked at
FrameSent ==
  /\ stage = "pack" /\ rtpEnd = Len(psBuf)
  /\ stage' = "pop"
  /\ data_type' = "I" /\ cmd_length' = 0 /\ psBuf' = <<>>
  /\ rtpEnd' = 0 /\ FU_flag' = FALSE /\ client_list_size' = 0
  /\ rx' = [c \in Clients |-> <<>>] /\ marked' = [c \in Clients |-> 0]
  /\ wasReady' = [c \in Clients |-> FALSE]
  /\ UNCHANGED <<frame_len, seq_no, clientVars, firstSent, lastSent, afterKey>>

\* no client, or the source is gone: the task leaves its loop
TaskQuits ==
  /\ stage = "pop"
  /\ stage' = "done"
  /\ UNCHANGED <<frameVars, rtpVars, clientVars, client_list_size, rxVars>>

TaskStep == PesPacket \/ SetPack \/ SendPacket \/ FrameSent

PathNext ==
  \/ \E t \in {"I", "BP"}, n \in 0 .. MaxFrame : PopFrame(t, n)
  \/ TaskStep
  \/ TaskQuits
  \/ \E c \in Clients : ClientJoins(c) \/ ClientFlagged(c)

PathSpec == PathInit /\ [][PathNext]_pathAll

-----------------------------------------------------------------------------
\* Properties

PathTypeOK ==
  /\ stage \in {"pop", "mux", "pack", "done"}
  /\ stage = "pack" => rtpEnd <= Len(psBuf) /\ frame_len = 0
  /\ data_type \in {"I", "BP"} /\ cmd_length \in 0 .. MaxFrame
  /\ frame_len \in 0 .. cmd_length
  /\ psBuf \in Seq(Symbol) /\ rtpEnd \in Nat /\ FU_flag \in BOOLEAN
  /\ seq_no \in 0 .. SeqNoMod - 1
  /\ clientList \in Seq(Clients) /\ client_list_size \in 0 .. Len(clientList)
  /\ iSendIframeFlag \in [Clients -> BOOLEAN]
  /\ iDeleteFlag \in [Clients -> BOOLEAN]
  /\ rx \in [Clients -> Seq(Symbol)] /\ marked \in [Clients -> Nat]
  /\ firstSent \in [Clients -> {None} \cup
                           [type : {"I", "BP"}, at : Nat, afterKey : BOOLEAN]]
  /\ lastSent \in [Clients -> {None} \cup 0 .. SeqNoMod - 1]
  /\ wasReady \in [Clients -> BOOLEAN] /\ afterKey \in BOOLEAN

\* What a decoder reads: it trusts the length fields to find the next start
\* code.  Anything it cannot make sense of is <<None>>.
Demux(s) ==
  LET Lost == <<None>>
      es[p \in 1 .. Len(s) + 1] ==
        LET after == p + 1 + s[p].n
        IN  IF p = Len(s) + 1 THEN <<>>
            ELSE IF s[p].k = "pack"
                 THEN IF p + PackSize <= Len(s) + 1 THEN es[p + PackSize] ELSE Lost
            ELSE IF s[p].k \notin {"sys", "map", "pes"} \/ after > Len(s) + 1 THEN Lost
            ELSE IF s[p].k # "pes" THEN es[after]
            ELSE [i \in 1 .. s[p].n - PS_PES_PPL_LENGTH |->
                    LET b == s[p + PS_PES_PPL_LENGTH + i]
                    IN  IF b.k = "es" THEN b.n ELSE 0] \o es[after]
  IN  es[1]

Whole(n) == [i \in 1 .. n |-> i]

DemuxExact == stage = "pack" /\ rtpEnd = 0 => Demux(psBuf) = Whole(cmd_length)
ReadyClientGetsFrame ==
  stage = "pack" /\ rtpEnd = Len(psBuf) =>
    \A c \in Listed :
      wasReady[c] /\ ~iDeleteFlag[c] => Demux(rx[c]) = Whole(cmd_length)

MarkerEndsFrame ==
  stage = "pack" =>
    \A c \in Listed : wasReady[c] /\ ~iDeleteFlag[c] =>
      marked[c] = IF rtpEnd = Len(psBuf) THEN 1 ELSE 0

\* A decoder that follows the length fields finds exactly the bytes of the
\* frame, however often the frame is split (ps.c:736).  A client that was
\* ready when the frame began and is still there when it ends can decode all
\* of it from what was sent: no header of a packet, which is written into the
\* buffer of the frame, damages a byte still to be sent (rtp_pack.c:136).
\* And the marker bit, by which the player cuts packets into frames, ends the
\* frame and is nowhere else (rtp_pack.c:129).
FrameWhole == DemuxExact /\ ReadyClientGetsFrame /\ MarkerEndsFrame

\* From its first packet on a client gets every packet of the node, so that the
\* sequence number it expects next is the node's, over the wrap
\* (rtp_pack.c:164).
NoPacketSkipped ==
  \A c \in Listed : lastSent[c] # None /\ ~iDeleteFlag[c] =>
    (lastSent[c] + 1) % SeqNoMod = seq_no

\* A client that comes late is served from the packet that follows the first one
\* of an I frame: neither from the middle of a frame, nor later than it could be
\* (rtp_pack.c:512-519).
StartsAfterKeyPacket ==
  \A c \in Listed : firstSent[c] # None => firstSent[c].afterKey

\* inc/stream/client_opt.h:81: a client with iSendIframeFlag = 0 must start
\* from an I frame.
StartsWithKeyFrame ==
  \A c \in Listed : firstSent[c] # None => firstSent[c].type = "I" /\ firstSent[c].at = 0
=============================================================================
