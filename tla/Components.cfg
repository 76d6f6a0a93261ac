SPECIFICATION MCSpec
CONSTANTS
  \* BoundedFifo
  Capacity = 4
  Window = 6
  \* ClientList
  Elems = {e1, e2, e3, e4}
  Head0 = Head0
  Tail0 = Tail0
  Null = Null
  \* FrameClock
  H = 1
  PtsValues = {0, 6, 13, 263}
  FrameTime = 7
  MaxTime = 560
  \* SendPath
  Clients = {c1, c2}
  PackSize = 2
  HL = 1
  PSML = 2
  PS_PES_PPL_LENGTH = 2
  LenField = 5
  MAX_RTP_PACKET_SIZE = 4
  RtpHeader = 2
  SeqNoMod = 3
  MaxFrame = 7
  None = None
  \* PortSearch
  Callers = {d1, d2}
  PortMod = 10
  Starts = {2, 3}
  MaxOthers = 3
  MaxTry = 12
  NoCall = NoCall
  \* SdpOffer
  Lines <- MCLines
  NInline = 1
  Grow = 1
  FmtTokens = 3
  MaxLines = 5
  NULL = NULL
  \* TcpTransfer
  Lengths <- MCLengths
  Room = 3
  \* ConfigFile
  SettingNames = {"UseRtcp", "MaxConnections"}
  DefaultOf <- MCDefaultOf
  ThreadsName = "MaxConnections"
  ConfigLines <- MCConfigLines
  MaxFileLines = 4
  NoValue = NoValue
  \* StreamIntake
  HeaderLen = 2
  NetBufferLen = 2
  LowMark = 3
  HighMark = 6
  MaxRead = 3
  FirstMark = 3
  FirstRead = 2
  Replies <- MCReplies
  Frames <- MCFrames
  MaxCommand = 5
  MaxMessages = 5
 
INVARIANTS FifoExact
INVARIANTS RepOk QuietLookupExact
INVARIANTS StampsAgree FollowsCamera
INVARIANTS  NoPacketSkipped StartsAfterKeyPacket
INVARIANTS PortsTold NoPortLost
INVARIANTS  LinesKept GoodOfferAnswered
INVARIANTS TransferExact
INVARIANTS  NeverStalls
INVARIANTS ConfigExact
PROPERTIES StrictlyForward SearchEnds
CHECK_DEADLOCK FALSE
