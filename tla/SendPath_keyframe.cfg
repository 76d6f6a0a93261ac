SPECIFICATION PathSpec
CONSTANTS
  Clients = {c1, c2}
  PackSize = 2
  HL = 1
  PSML = 2
  PS_PES_PPL_LENGTH = 2
  LenField = 5
  MAX_RTP_PACKET_SIZE = 4
  RtpHeader = 2
  SeqNoMod = 3
  MaxFrame = 2
  None = None
INVARIANT StartsWithKeyFrame
CHECK_DEADLOCK FALSE
