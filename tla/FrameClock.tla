----------------------------- MODULE FrameClock -----------------------------
(***************************************************************************)
(* The clock of a stream: send_rtp_to_client_task makes its own time from  *)
(* the differences of the time stamps of the camera (send_av_data.c:212-   *)
(* 255), and the frame carries that time three times: as SCR of the pack   *)
(* header, as PTS and DTS of the PES headers (ps.c) and as time stamp of   *)
(* the RTP packets (rtp_pack.c).                                           *)
(*                                                                         *)
(* The clock fields are split into groups of H, 2H and 3H bits; in the     *)
(* code H is 5, an HB_U32 has 6H + 2 bits and a clock field 6H + 3.        *)
(***************************************************************************)
EXTENDS Integers

CONSTANTS
  H,
  PtsValues,  \* time stamps a camera may send; 0 is no time stamp
  FrameTime,       \* 3600: the time of a frame when nothing better is known
  MaxTime     \* bound: the time reached

ASSUME ClockAssumption ==
  /\ H \in Nat \ {0} /\ FrameTime \in Nat \ {0} /\ MaxTime \in Nat
  /\ PtsValues \subseteq Nat

VARIABLES
  u64TimestampOld, u64AddTime, u64Time,
  stamped,        \* u64Time of the video frame that was packed last
  scr, pts, rtp,  \* its fields; the DTS is a copy of the PTS
  \* --- the camera, as far as the properties speak of it
  cameraSteady,   \* every time stamp so far was later than the one before
  cameraBegin     \* the first time stamp

clockVars  == <<u64TimestampOld, u64AddTime, u64Time>>
stampVars  == <<stamped, scr, pts, rtp>>
cameraVars == <<cameraSteady, cameraBegin>>
clockAll   == <<clockVars, stampVars, cameraVars>>

\* 2 to the power n
Pow2(n) ==
  LET p[i \in 0 .. n] == IF i = 0 THEN 1 ELSE 2 * p[i - 1] IN p[n]

U32 == Pow2(6 * H + 2)   \* HB_U32
ClockField == Pow2(6 * H + 3)

Bits(t, low, n) == (t \div Pow2(low)) % Pow2(n)

ScrOverlap(t) ==                           \* mutant: a group read one bit off
  [b32 |-> Bits(t, 6 * H, 3), b29 |-> Bits(t, 4 * H, 2 * H),
   b19 |-> Bits(t, 3 * H + 1, H), b14 |-> Bits(t, H, 2 * H), b4 |-> Bits(t, 0, H)]
\* ps_packheader_make, from an HB_U64
Scr(t) == [b32 |-> Bits(t, 6 * H, 3), b29 |-> Bits(t, 4 * H, 2 * H),
           b19 |-> Bits(t, 3 * H, H), b14 |-> Bits(t, H, 2 * H), b4 |-> Bits(t, 0, H)]

PtsLow(t) ==                               \* mutant: 2H bits in the middle
  [b32 |-> Bits(t % U32, 6 * H, 3), b29 |-> Bits(t % U32, 3 * H, 2 * H),
   b14 |-> Bits(t % U32, 0, 3 * H)]
\* ps_pesheader_make, ps_pts and ps_dts: the time goes through an HB_U32
Pts(t) == [b32 |-> Bits(t % U32, 6 * H, 3), b29 |-> Bits(t % U32, 3 * H, 3 * H),
           b14 |-> Bits(t % U32, 0, 3 * H)]

\* set_rtp_pack1 takes an HB_U32
Rtp(t) == t % U32

ClockInit ==
  /\ u64TimestampOld = 0 /\ u64AddTime = 0 /\ u64Time = 0
  /\ stamped = 0 /\ scr = Scr(0) /\ pts = Pts(0) /\ rtp = Rtp(0)
  /\ cameraSteady = TRUE /\ cameraBegin = 0

AddTimeZero(p) ==                          \* mutant: no step without time stamp
  IF u64TimestampOld = 0 \/ p = 0 THEN 0
  ELSE IF p < u64TimestampOld THEN u64AddTime
  ELSE p - u64TimestampOld
AddTimeStep(p) ==                          \* mutant: the first frame steps too
  IF u64TimestampOld = 0 \/ p = 0 \/ p = u64TimestampOld THEN FrameTime
  ELSE IF p < u64TimestampOld THEN u64AddTime
  ELSE p - u64TimestampOld
\* by how much the frame with time stamp p moves the time on: a clock that
\* runs back repeats the step before
AddTime(p) ==
  IF u64TimestampOld = 0 THEN IF p = 0 THEN FrameTime ELSE 0
  ELSE IF p = 0 \/ p = u64TimestampOld THEN FrameTime
  ELSE IF p < u64TimestampOld THEN u64AddTime
  ELSE p - u64TimestampOld

\* a time stamp of 0 is not remembered once there was another
Remember(p) ==
  u64TimestampOld' = IF p = 0 THEN u64TimestampOld ELSE p

Advance(p) ==
  /\ u64Time + AddTime(p) <= MaxTime
  /\ u64Time' = u64Time + AddTime(p)
  /\ u64AddTime' = IF AddTime(p) <= 0 THEN FrameTime ELSE AddTime(p)
  /\ Remember(p)
  /\ cameraSteady' = (cameraSteady /\ p > u64TimestampOld)
  /\ cameraBegin' = IF cameraBegin = 0 THEN p ELSE cameraBegin

VideoFrame(p) ==
  /\ Advance(p)
  /\ stamped' = u64Time' /\ scr' = Scr(u64Time') /\ pts' = Pts(u64Time')
  /\ rtp' = Rtp(u64Time')

\* audio moves the time and is dropped
AudioFrame(p) == Advance(p) /\ UNCHANGED stampVars

ClockNext == \E p \in PtsValues : VideoFrame(p) \/ AudioFrame(p)

ClockSpec == ClockInit /\ [][ClockNext]_clockAll

-----------------------------------------------------------------------------
\* Properties

ScrValue == scr.b32 * Pow2(6 * H) + scr.b29 * Pow2(4 * H) + scr.b19 * Pow2(3 * H)
            + scr.b14 * Pow2(H) + scr.b4
PtsValue == pts.b32 * Pow2(6 * H) + pts.b29 * Pow2(3 * H) + pts.b14

ClockTypeOK ==
  /\ u64TimestampOld \in Nat /\ u64AddTime \in Nat /\ u64Time \in Nat
  /\ stamped \in 0 .. u64Time
  /\ cameraSteady \in BOOLEAN /\ cameraBegin \in Nat

\* The groups of the SCR, put together, are the time of the frame.
ScrIsTime == ScrValue = stamped % ClockField
\* The PTS and the RTP time stamp are one clock, over the wrap of the HB_U32.
PtsIsRtp == PtsValue = rtp /\ rtp = stamped % U32
\* Until the time has gone once round the HB_U32, PTS and SCR agree.
StampsAgreeAtFirst == stamped < U32 => PtsValue = ScrValue

\* The three stamps of a frame tell one time, although each is cut into other
\* bit fields: the SCR (ps.c:503-531), the PTS and DTS, which go through an
\* HB_U32 (ps.c:653) and the RTP time stamp (rtp_pack.c:233).  After 2^32 the
\* PTS is behind the SCR by half its range.
StampsAgree == ScrIsTime /\ PtsIsRtp /\ StampsAgreeAtFirst

\* While the camera sends increasing time stamps the time is the camera's,
\* counted from its first frame (send_av_data.c:243).
FollowsCamera == cameraSteady => u64Time = u64TimestampOld - cameraBegin

\* Whatever the camera's clock does, also when it runs back or stands still,
\* every frame after the first time stamp gets a later time
\* (send_av_data.c:232-255).
StrictlyForward ==
  [][u64TimestampOld # 0 => u64Time' > u64Time]_clockVars
=============================================================================
