---------------------------- MODULE StreamIntake ----------------------------
(***************************************************************************)
(* How the frames of a camera get from the connection to the hbserver into *)
(* the queue of the node (get_frame_from_hbserver.c): the request is cut   *)
(* into blocks, the answer and the frames are put together from blocks,    *)
(* of which TCP delivers any part at a time.                               *)
(*                                                                         *)
(* The event loop reads the socket into the input buffer of the            *)
(* bufferevent, whose watermarks decide when the read callback is due and  *)
(* when reading is suspended.  A callback is deferred, and runs before the *)
(* socket is looked at again.  recv_stream_cb takes one frame and returns. *)
(* Where the node and the send task stand is the subject of StreamNode.    *)
(*                                                                         *)
(* A byte is a record: message, block, place in the block; the places of   *)
(* the header are those up to 0, where every byte stands for what the      *)
(* header says.                                                            *)
(***************************************************************************)
EXTENDS NumberSets, Sequences

CONSTANTS
  HeaderLen,     \* PACKAGE_EXTRA_LEN, 28
  NetBufferLen,  \* NET_BUFFER_LEN, 8192
  LowMark,       \* of the stream, 65536
  HighMark,      \* of the stream, 128 * 1024
  MaxRead,       \* of the stream, 65536
  FirstMark,     \* low mark before the stream, 29
  FirstRead,     \* what libevent reads at a time by itself, 16384
  Replies, Frames,  \* messages of the hbserver
  MaxCommand,    \* bound: length of a command
  MaxMessages    \* bound: messages of the hbserver

ASSUME IntakeAssumption ==
  /\ HeaderLen \in Nat \ {0} /\ NetBufferLen \in Nat \ {0}
  /\ LowMark \in Nat /\ HighMark \in Nat /\ LowMark <= HighMark
  /\ HeaderLen + NetBufferLen <= HighMark
  /\ MaxRead \in Nat \ {0} /\ FirstMark \in Nat /\ FirstRead \in Nat \ {0}
  /\ FirstRead + HeaderLen + NetBufferLen <= HighMark
  /\ FirstMark <= HeaderLen + NetBufferLen
  \* a block is at most what cBuffer of a NET_LAYER holds (get_frame.h:78)
  /\ \A m \in Replies \cup Frames : m.blocks \in Seq(0 .. NetBufferLen) \ {<<>>}
  \* where an answer says that the request succeeded, if it does
  /\ \A m \in Replies :
       \/ m.success = <<0, 0>>
       \/ \E b \in 1 .. Len(m.blocks) : \E i \in 1 .. m.blocks[b] : m.success = <<b, i>>

VARIABLES
  phase,      \* connecting, cmd, stream, refused, closed
  asked,      \* the blocks of StartStream, until the hbserver has read them
  said,       \* the messages of the hbserver
  wire,       \* their bytes on the way
  input,      \* the input buffer
  suspended,  \* reading is suspended: the high mark is reached
  callback,   \* idle, due, running
  data,       \* hGetStreamFromSource up to iRecvStreamDataLen
  replyText,  \* what strstr sees of it: up to the first NUL
  started,    \* the send task has been started
  frames      \* the frames put into the queue

inputVars  == <<wire, input, suspended>>
sourceVars == <<data, replyText, started, frames>>
intakeAll  == <<phase, asked, said, inputVars, callback, sourceVars>>

NoCommand == [command |-> 0, blocks |-> <<>>]

IntakeInit ==
  /\ phase = "connecting" /\ asked = NoCommand /\ said = <<>>
  /\ wire = <<>> /\ input = <<>> /\ suspended = FALSE /\ callback = "idle"
  /\ data = <<>> /\ replyText = <<>> /\ started = FALSE /\ frames = <<>>

-----------------------------------------------------------------------------
\* SendDataToStream

LastShort(n) == n % NetBufferLen           \* mutant: a full last block is lost
\* iLastBlockLength
LastLength(n) == IF n % NetBufferLen = 0 THEN NetBufferLen ELSE n % NetBufferLen
\* iSplit
BlockCount(n) ==
  IF n % NetBufferLen = 0 THEN n \div NetBufferLen
  ELSE (n + NetBufferLen) \div NetBufferLen

Split(n) ==
  [i \in 1 .. BlockCount(n) |->
     [from |-> (i - 1) * NetBufferLen,
      len  |-> IF i = BlockCount(n) THEN LastLength(n) ELSE NetBufferLen,
      head |-> i = 1, end |-> i = BlockCount(n)]]

\* BEV_EVENT_CONNECTED: the command for the camera
Connected(n) ==
  /\ phase = "connecting"
  /\ phase' = "cmd" /\ asked' = [command |-> n, blocks |-> Split(n)]
  /\ UNCHANGED <<said, inputVars, callback, sourceVars>>

-----------------------------------------------------------------------------
\* The hbserver, the network, and libevent

BytesOf(m, number) ==
  LET block(j) == [i \in 1 .. HeaderLen + m.blocks[j] |->
                     [m |-> number, b |-> j, i |-> i - HeaderLen]]
      upTo[j \in 0 .. Len(m.blocks)] ==
        IF j = 0 THEN <<>> ELSE upTo[j - 1] \o block(j)
  IN  upTo[Len(m.blocks)]

\* an answer first, then frames
HbserverSays(m) ==
  /\ phase \in {"cmd", "stream"} /\ Len(said) < MaxMessages
  /\ m \in IF said = <<>> THEN Replies ELSE Frames
  /\ asked' = NoCommand
  /\ said' = Append(said, m)
  /\ wire' = wire \o BytesOf(m, Len(said) + 1)
  /\ UNCHANGED <<phase, input, suspended, callback, sourceVars>>

LowSwapped ==                              \* mutant: the two marks swapped
  IF phase = "stream" THEN HighMark + 1 ELSE FirstMark
Low == IF phase = "stream" THEN LowMark ELSE FirstMark
\* how much one read of the socket takes
ReadRoom == IF phase = "stream"
        THEN IF MaxRead <= HighMark - Len(input) THEN MaxRead
             ELSE HighMark - Len(input)
        ELSE FirstRead

\* the suspension follows the length of the input buffer
SuspendAt(now, ph) == suspended' = (ph = "stream" /\ Len(now) >= HighMark)

SocketRead ==
  /\ phase \in {"cmd", "stream"} /\ ~suspended /\ callback = "idle"
  /\ \E n \in 1 .. Len(wire) :
       LET now == input \o SubSeq(wire, 1, n)
       IN  /\ n <= ReadRoom
           /\ input' = now /\ wire' = SubSeq(wire, n + 1, Len(wire))
           /\ SuspendAt(now, phase)
           /\ callback' = IF Len(now) >= Low THEN "due" ELSE "idle"
  /\ UNCHANGED <<phase, asked, said, sourceVars>>

\* end of file, error, or 15 seconds without a read: recv_stream_err_cb frees
\* the bufferevent with what is in its input buffer
ConnectionEnds ==
  /\ phase \in {"cmd", "stream"} /\ ~suspended /\ callback = "idle"
  /\ phase' = "closed" /\ input' = <<>> /\ wire' = <<>>
  /\ UNCHANGED <<asked, said, suspended, callback, sourceVars>>

-----------------------------------------------------------------------------
\* recv_cmd_from_hbserver and recv_stream_cb

\* the former clears the buffer first, but not iRecvStreamDataLen
CallbackBegins ==
  /\ callback = "due"
  /\ callback' = "running"
  /\ replyText' = IF phase = "cmd" THEN <<>> ELSE replyText
  /\ UNCHANGED <<phase, asked, said, inputVars, data, started, frames>>

\* the header at the beginning of the input buffer
Package ==
  LET m == said[input[1].m]
      b == input[1].b
  IN  [iActLength |-> HeaderLen + m.blocks[b],
       byBlockEndFlag |-> b = Len(m.blocks),
       byDataType |-> m.type, byFrameType |-> m.frame]

\* the two early returns
BlockThere == Len(input) >= HeaderLen /\ Len(input) >= Package.iActLength

CallbackReturns ==
  /\ callback = "running" /\ ~BlockThere
  /\ callback' = "idle"
  /\ UNCHANGED <<phase, asked, said, inputVars, sourceVars>>

PayloadLen == Package.iActLength - HeaderLen
Payload == SubSeq(input, HeaderLen + 1, HeaderLen + PayloadLen)

\* both callbacks take a block out of the input buffer
TakeBlock(ph) ==
  /\ callback = "running" /\ BlockThere
  /\ input' = SubSeq(input, HeaderLen + PayloadLen + 1, Len(input))
  /\ SuspendAt(input', ph)
  /\ UNCHANGED <<asked, said, wire>>

Received == data \o Payload
\* the text has a hole where the first blocks were cleared
ReplyTextNow == IF Len(replyText) = Len(data) THEN replyText \o Payload ELSE replyText

MiddleBlock ==
  /\ TakeBlock(phase) /\ ~Package.byBlockEndFlag
  /\ data' = Received
  /\ replyText' = IF phase = "cmd" THEN ReplyTextNow ELSE replyText
  /\ UNCHANGED <<phase, callback, started, frames>>

KeptAfterReply == Received                 \* mutant: length not reset
AfterReply == <<>>

\* strstr
Successful == \E i \in 1 .. Len(ReplyTextNow) :
                said[ReplyTextNow[i].m].success = <<ReplyTextNow[i].b, ReplyTextNow[i].i>>

\* ImOK is sent, and the stream gets its callbacks and its marks
ReplyAccepted ==
  /\ phase = "cmd" /\ TakeBlock("stream") /\ Package.byBlockEndFlag /\ Successful
  /\ phase' = "stream" /\ callback' = "idle"
  /\ data' = AfterReply /\ replyText' = ReplyTextNow
  /\ UNCHANGED <<started, frames>>

ReplyRefused ==
  /\ phase = "cmd" /\ TakeBlock("cmd") /\ Package.byBlockEndFlag /\ ~Successful
  /\ phase' = "refused" /\ callback' = "idle"
  /\ data' = Received /\ replyText' = ReplyTextNow
  /\ UNCHANGED <<started, frames>>

StartedNow == started \/ Package.byFrameType = 1

FrameType ==
  CASE Package.byFrameType = 0 -> "BP"
    [] Package.byFrameType = 1 -> "I"
    [] Package.byFrameType = 4 -> "audio"
    [] OTHER -> "none"

KeptAfterDrop == Received                  \* mutant: length not reset
AfterDrop == <<>>

\* before the first I frame, and what is no media
FrameDropped ==
  /\ phase = "stream" /\ TakeBlock(phase) /\ Package.byBlockEndFlag
  /\ ~StartedNow \/ Package.byDataType # 13
  /\ started' = StartedNow
  /\ data' = AfterDrop
  /\ callback' = "idle"
  /\ UNCHANGED <<phase, replyText, frames>>

FrameQueued ==
  /\ phase = "stream" /\ TakeBlock(phase) /\ Package.byBlockEndFlag
  /\ StartedNow /\ Package.byDataType = 13
  /\ started' = TRUE
  /\ frames' = Append(frames, [type |-> FrameType, bytes |-> Received])
  /\ data' = <<>>
  /\ callback' = "idle"
  /\ UNCHANGED <<phase, replyText>>

\* no client, a task that has quit, or 512 frames waiting: the callback breaks
\* out of its loop
CallbackBreaks ==
  /\ phase = "stream" /\ callback = "running" /\ BlockThere /\ Package.byBlockEndFlag
  /\ phase' = "closed" /\ callback' = "idle" /\ input' = <<>> /\ wire' = <<>>
  /\ suspended' = FALSE
  /\ UNCHANGED <<asked, said, sourceVars>>

IntakeNext ==
  \/ \E n \in 0 .. MaxCommand : Connected(n)
  \/ \E m \in Replies \cup Frames : HbserverSays(m)
  \/ SocketRead \/ ConnectionEnds
  \/ CallbackBegins \/ CallbackReturns
  \/ MiddleBlock \/ ReplyAccepted \/ ReplyRefused \/ FrameDropped \/ FrameQueued \/ CallbackBreaks

IntakeSpec == IntakeInit /\ [][IntakeNext]_intakeAll

-----------------------------------------------------------------------------
\* Properties

Byte == [m : Nat, b : Nat, i : Int]

IntakeTypeOK ==
  /\ phase \in {"connecting", "cmd", "stream", "refused", "closed"}
  /\ said \in Seq(Replies \cup Frames)
  /\ wire \in Seq(Byte) /\ input \in Seq(Byte)
  /\ suspended \in BOOLEAN /\ callback \in {"idle", "due", "running"}
  /\ data \in Seq(Byte) /\ replyText \in Seq(Byte)
  /\ started \in BOOLEAN
  /\ phase = "stream" => Len(input) <= HighMark

\* The blocks of a command are the command, in order, without a gap, each of a
\* length the receiver has room for; the flags mark the first and the last.
CommandWhole ==
  LET bs == asked.blocks
      upTo(i) == IF i = 0 THEN 0 ELSE bs[i].from + bs[i].len
  IN  /\ upTo(Len(bs)) = asked.command
      /\ \A i \in 1 .. Len(bs) :
           /\ bs[i].from = upTo(i - 1) /\ bs[i].len \in 1 .. NetBufferLen
           /\ bs[i].head <=> i = 1
           /\ bs[i].end <=> i = Len(bs)

\* An answer in one block is heard for what it says.  (One of several blocks
\* is refused when they come in several callbacks.)
ReplyHeard ==
  /\ phase = "refused" => said[1].success = <<0, 0>> \/ Len(said[1].blocks) > 1
  /\ phase = "stream" => said[1].success # <<0, 0>>

\* The message of the next byte that no callback has taken: those before it,
\* of which the first is the answer, have been taken as a whole.
Left == input \o wire
NextMessage == IF Left = <<>> THEN Len(said) + 1 ELSE Left[1].m
Taken == 2 .. NextMessage - 1

\* what the first j blocks of message m bring
PayloadTo(blocks, m, j) ==
  LET upTo[k \in 0 .. Len(blocks)] ==
        IF k = 0 THEN <<>>
        ELSE upTo[k - 1] \o [i \in 1 .. blocks[k] |-> [m |-> m, b |-> k, i |-> i]]
  IN  upTo[j]
PayloadOf(m) == PayloadTo(said[m].blocks, m, Len(said[m].blocks))

\* the media messages from the first I frame on
Due ==
  {m \in Taken : said[m].type = 13 /\ \E k \in Taken : k <= m /\ said[k].frame = 1}

FramesWhole ==
  phase = "stream" =>
    /\ Len(frames) = Cardinality(Due)
    /\ \A m \in Due : frames[Place(Due, m)].bytes = PayloadOf(m)

\* However TCP cuts the bytes, and wherever the blocks of a message end: the
\* command reaches the hbserver as it is, an answer in one block is heard for
\* what it says, and the queue gets the media frames of the camera from its
\* first I frame on, each one whole, in order, and nothing else
\* (get_frame_from_hbserver.c:22-85, 111-230, 324-391).
SourceUnderstood == CommandWhole /\ ReplyHeard /\ FramesWhole

\* Reading is suspended only while a callback is due that will take something
\* out of the buffer: a connection that is neither read nor emptied would have
\* no timeout either, and stay for ever (get_frame_from_hbserver.c:365).
NeverStalls == suspended => callback # "idle"
=============================================================================
