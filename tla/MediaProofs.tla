---------------------------- MODULE MediaProofs -----------------------------
(***************************************************************************)
(* Theorems about the way of a frame to its clients: StreamIntake, FrameClock *)
(* and SendPath.  They hold for every camera and every way TCP cuts its    *)
(* bytes, every frame time and width of the clock fields, and every        *)
(* multiplexer, packet size and set of clients that the assumptions of these *)
(* modules admit.                                                          *)
(***************************************************************************)
EXTENDS FrameClock, StreamIntake, SendPath, SequenceFacts, FiniteSetTheorems

-----------------------------------------------------------------------------
\* FrameClock

\* There is a step to repeat, and a first time stamp, as soon as the camera
\* has sent a time stamp.
StepKnown ==
  /\ u64TimestampOld # 0 => u64AddTime >= 1
  /\ u64TimestampOld # 0 <=> cameraBegin # 0

ClockInv == ClockTypeOK /\ StepKnown /\ FollowsCamera

\* What a frame adds is a number, and more than zero once there was a time
\* stamp; it is the difference of the time stamps of a clock that runs on.
LEMMA AddTimeFacts ==
  ASSUME ClockTypeOK, StepKnown, NEW p \in PtsValues
  PROVE  /\ p \in Nat /\ AddTime(p) \in Nat
         /\ u64TimestampOld # 0 => AddTime(p) >= 1
         /\ u64TimestampOld # 0 /\ p > u64TimestampOld =>
              AddTime(p) = p - u64TimestampOld
         /\ u64TimestampOld = 0 /\ p # 0 => AddTime(p) = 0
<1>1. p \in Nat /\ FrameTime \in Nat /\ FrameTime >= 1
  BY ClockAssumption
<1> QED BY <1>1 DEF ClockTypeOK, StepKnown, AddTime

\* The clock starts at zero.
LEMMA ClockInvInit == ClockInit => ClockInv
BY DEF ClockInit, ClockInv, ClockTypeOK, StepKnown, FollowsCamera

\* A frame, video or audio, moves the time on.
LEMMA AdvanceInv ==
  ASSUME ClockInv, NEW p \in PtsValues, Advance(p),
         stamped' \in {stamped, u64Time'}
  PROVE  ClockInv' /\ (u64TimestampOld # 0 => u64Time' > u64Time)
<1> DEFINE a == AddTime(p)
<1>1. /\ p \in Nat /\ a \in Nat
      /\ u64TimestampOld # 0 => a >= 1
      /\ u64TimestampOld # 0 /\ p > u64TimestampOld => a = p - u64TimestampOld
      /\ u64TimestampOld = 0 /\ p # 0 => a = 0
  BY AddTimeFacts DEF ClockInv
<1>2. /\ u64Time' = u64Time + a
      /\ u64AddTime' = IF a <= 0 THEN FrameTime ELSE a
      /\ u64TimestampOld' = IF p = 0 THEN u64TimestampOld ELSE p
      /\ cameraSteady' = (cameraSteady /\ p > u64TimestampOld)
      /\ cameraBegin' = IF cameraBegin = 0 THEN p ELSE cameraBegin
  BY DEF Advance, Remember
<1>3. /\ u64TimestampOld \in Nat /\ u64AddTime \in Nat /\ u64Time \in Nat
      /\ stamped \in 0 .. u64Time /\ cameraSteady \in BOOLEAN
      /\ cameraBegin \in Nat /\ FrameTime \in Nat /\ FrameTime >= 1
  BY ClockAssumption DEF ClockInv, ClockTypeOK
<1> HIDE DEF a
<1>4. ClockTypeOK'
  <2>1. u64Time' \in Nat /\ u64Time' >= u64Time
    BY <1>1, <1>2, <1>3
  <2>2. stamped' \in 0 .. u64Time'
    BY <2>1, <1>3
  <2>3. cameraSteady' \in BOOLEAN
    BY <1>2
  <2>4. u64TimestampOld' \in Nat /\ u64AddTime' \in Nat /\ cameraBegin' \in Nat
    BY <1>1, <1>2, <1>3
  <2> QED BY <2>1, <2>2, <2>3, <2>4 DEF ClockTypeOK
<1>5. StepKnown'
  BY <1>1, <1>2, <1>3 DEF ClockInv, StepKnown
<1>6. ASSUME cameraSteady'
      PROVE  u64Time' = u64TimestampOld' - cameraBegin'
  <2>1. u64Time = u64TimestampOld - cameraBegin /\ p > u64TimestampOld
    BY <1>2, <1>6 DEF ClockInv, FollowsCamera
  <2>2. CASE u64TimestampOld = 0
    BY <1>1, <1>2, <1>3, <2>1, <2>2 DEF ClockInv, StepKnown
  <2>3. CASE u64TimestampOld # 0
    BY <1>1, <1>2, <1>3, <2>1, <2>3 DEF ClockInv, StepKnown
  <2> QED BY <2>2, <2>3
<1>7. FollowsCamera'
  BY <1>6 DEF FollowsCamera
<1>8. u64TimestampOld # 0 => u64Time' > u64Time
  BY <1>1, <1>2, <1>3
<1> QED BY <1>4, <1>5, <1>7, <1>8 DEF ClockInv

\* Every step of the clock.
LEMMA ClockInvNext ==
  ClockInv /\ [ClockNext]_clockAll =>
    ClockInv' /\ (clockVars' = clockVars \/ (u64TimestampOld # 0 => u64Time' > u64Time))
<1> SUFFICES ASSUME ClockInv, [ClockNext]_clockAll
             PROVE  /\ ClockInv'
                    /\ \/ clockVars' = clockVars
                       \/ u64TimestampOld # 0 => u64Time' > u64Time
  OBVIOUS
<1>1. ASSUME NEW p \in PtsValues, VideoFrame(p)
      PROVE  ClockInv' /\ (u64TimestampOld # 0 => u64Time' > u64Time)
  BY <1>1, AdvanceInv DEF VideoFrame
<1>2. ASSUME NEW p \in PtsValues, AudioFrame(p)
      PROVE  ClockInv' /\ (u64TimestampOld # 0 => u64Time' > u64Time)
  BY <1>2, AdvanceInv DEF AudioFrame, stampVars
<1>3. CASE UNCHANGED clockAll
  BY <1>3 DEF ClockInv, ClockTypeOK, StepKnown, FollowsCamera, clockAll,
              clockVars, stampVars, cameraVars
<1> QED BY <1>1, <1>2, <1>3 DEF ClockNext

\* Types of the clock; the time of a packed frame is never ahead of the clock.
THEOREM ClockTypeCorrect == ClockSpec => []ClockTypeOK
<1>1. ClockInv => ClockTypeOK
  BY DEF ClockInv
<1> QED BY <1>1, ClockInvInit, ClockInvNext, PTL DEF ClockSpec

\* While the camera's clock runs on, the time of the stream is the camera's,
\* counted from its first frame (send_av_data.c:243).
THEOREM TimeIsCameras == ClockSpec => []FollowsCamera
<1>1. ClockInv => FollowsCamera
  BY DEF ClockInv
<1> QED BY <1>1, ClockInvInit, ClockInvNext, PTL DEF ClockSpec

\* Whatever the camera's clock does, each frame after its first time stamp has
\* a later time than the one before (send_av_data.c:232-255).
THEOREM TimeRunsForward == ClockSpec => StrictlyForward
<1>1. ClockInv /\ [ClockNext]_clockAll =>
        ClockInv' /\ [u64TimestampOld # 0 => u64Time' > u64Time]_clockVars
  BY ClockInvNext
<1> QED BY <1>1, ClockInvInit, PTL DEF ClockSpec, StrictlyForward

\* Powers of two: the recursion that Pow2 is.
Doubling == [p \in Nat \X Nat |-> 2 * p[2]]
LEMMA Pow2Is ==
  ASSUME NEW m \in Nat, NEW w \in Recursions(Nat, 1, Doubling, m), NEW n \in 0 .. m
  PROVE  Pow2(n) = w[n]
<1> DEFINE Def(g) == g = [i \in 0 .. n |-> IF i = 0 THEN 1 ELSE 2 * g[i - 1]]
           v == [i \in 0 .. n |-> w[i]]
           c == CHOOSE g : Def(g)
<1>1. \A i \in 0 .. n : i # 0 => i - 1 \in 0 .. n /\ i \in 1 .. m /\ i - 1 \in 0 .. m
  OBVIOUS
<1>2. w[0] = 1 /\ \A i \in 1 .. m : w[i] = 2 * w[i - 1]
  <2>1. /\ w \in [0 .. m -> Nat] /\ w[0] = 1
        /\ \A i \in 1 .. m : w[i] = Doubling[<<i, w[i - 1]>>]
    BY DEF Recursions
  <2>2. \A i \in 1 .. m : i - 1 \in 0 .. m /\ i \in Nat
    OBVIOUS
  <2>3. \A i \in 1 .. m : w[i - 1] \in Nat
    BY <2>1, <2>2
  <2>4. \A i, x \in Nat : Doubling[<<i, x>>] = 2 * x
    BY DEF Doubling
  <2> QED BY <2>1, <2>2, <2>3, <2>4
<1>3. Def(v)
  <2>1. ASSUME NEW i \in 0 .. n PROVE v[i] = IF i = 0 THEN 1 ELSE 2 * v[i - 1]
    BY <1>1, <1>2
  <2>2. v = [i \in 0 .. n |-> v[i]]
    OBVIOUS
  <2> HIDE DEF v
  <2> QED BY <2>1, <2>2
<1>4. Def(c)
  BY <1>3
<1>5. Pow2(n) = c[n]
  BY DEF Pow2
<1> HIDE DEF c, v
<1>6. \A i \in 0 .. n : c[i] = IF i = 0 THEN 1 ELSE 2 * c[i - 1]
  BY <1>4
<1> DEFINE T == {d \in Nat : d <= n => c[d] = w[d]}
<1>7. 0 \in T
  <2>1. 0 \in 0 .. n
    OBVIOUS
  <2> QED BY <2>1, <1>2, <1>6
<1>8. ASSUME NEW d \in Nat, d \in T PROVE d + 1 \in T
  <2> SUFFICES ASSUME d + 1 <= n PROVE c[d + 1] = w[d + 1]
    OBVIOUS
  <2>1. PICK k \in 0 .. n : k = d + 1 /\ k - 1 = d /\ k # 0 /\ d <= n
    OBVIOUS
  <2>2. c[k] = 2 * c[k - 1] /\ w[k] = 2 * w[k - 1]
    BY <2>1, <1>1, <1>2, <1>6
  <2>3. c[k - 1] = w[k - 1]
    BY <2>1, <1>8
  <2> QED BY <2>1, <2>2, <2>3
<1>9. n \in T
  <2> HIDE DEF T
  <2> QED BY <1>7, <1>8, SetInduction
<1> QED BY <1>5, <1>9

LEMMA Pow2Step ==
  ASSUME NEW n \in Nat
  PROVE  Pow2(0) = 1 /\ Pow2(n) \in Nat /\ Pow2(n + 1) = 2 * Pow2(n)
<1>1. Doubling \in [Nat \X Nat -> Nat]
  BY DEF Doubling
<1>2. PICK w : w \in Recursions(Nat, 1, Doubling, n + 1)
  <2>1. Recursions(Nat, 1, Doubling, n + 1) # {}
    <3>1. n + 1 \in Nat /\ 1 \in Nat
      OBVIOUS
    <3> QED BY <3>1, <1>1, RecursionExists
  <2> QED BY <2>1
<1>3. 0 \in 0 .. n + 1 /\ n \in 0 .. n + 1 /\ n + 1 \in 0 .. n + 1
  OBVIOUS
<1>4. Pow2(0) = w[0] /\ Pow2(n) = w[n] /\ Pow2(n + 1) = w[n + 1]
  BY <1>2, <1>3, Pow2Is
<1>5. /\ w \in [0 .. n + 1 -> Nat] /\ w[0] = 1
      /\ w[n + 1] = Doubling[<<n + 1, w[n + 1 - 1]>>]
  <2>1. n + 1 \in 1 .. n + 1
    OBVIOUS
  <2> QED BY <1>2, <2>1 DEF Recursions
<1>6. w[n] \in Nat /\ n + 1 - 1 = n
  BY <1>3, <1>5
<1>7. Doubling[<<n + 1, w[n]>>] = 2 * w[n]
  BY <1>6 DEF Doubling
<1> QED BY <1>4, <1>5, <1>6, <1>7

LEMMA Pow2Positive ==
  ASSUME NEW n \in Nat PROVE Pow2(n) \in Nat \ {0}
<1> DEFINE T == {d \in Nat : Pow2(d) \in Nat \ {0}}
<1>1. 0 \in T
  BY Pow2Step
<1>2. ASSUME NEW d \in Nat, d \in T PROVE d + 1 \in T
  <2>1. PICK x \in Nat \ {0} : x = Pow2(d)
    BY <1>2
  <2>2. Pow2(d + 1) = 2 * x
    BY <2>1, Pow2Step
  <2> QED BY <2>2
<1>3. n \in T
  <2> HIDE DEF T
  <2> QED BY <1>1, <1>2, SetInduction
<1> QED BY <1>3

LEMMA Pow2Sum ==
  ASSUME NEW a \in Nat, NEW b \in Nat
  PROVE  Pow2(a + b) = Pow2(a) * Pow2(b)
<1> DEFINE T == {d \in Nat : Pow2(a + d) = Pow2(a) * Pow2(d)}
<1>0. PICK x \in Nat : x = Pow2(a)
  BY Pow2Positive
<1>1. 0 \in T
  <2>1. x * 1 = x /\ a + 0 = a
    OBVIOUS
  <2> QED BY <1>0, <2>1, Pow2Step
<1>2. ASSUME NEW d \in Nat, d \in T PROVE d + 1 \in T
  <2>1. PICK y \in Nat : y = Pow2(d)
    BY Pow2Positive
  <2>2. a + (d + 1) = (a + d) + 1 /\ a + d \in Nat
    OBVIOUS
  <2>3. Pow2(a + d) = x * y /\ Pow2(d + 1) = 2 * y
    BY <1>0, <1>2, <2>1, Pow2Step
  <2>4. Pow2((a + d) + 1) = 2 * (x * y)
    BY <2>2, <2>3, Pow2Step
  <2>5. 2 * (x * y) = x * (2 * y)
    OBVIOUS
  <2> QED BY <1>0, <2>2, <2>3, <2>4, <2>5
<1>3. b \in T
  <2> HIDE DEF T
  <2> QED BY <1>1, <1>2, SetInduction
<1> QED BY <1>3

\* What division leaves, and that it is one number.
LEMMA DivMod ==
  ASSUME NEW t \in Nat, NEW m \in Nat \ {0}
  PROVE  /\ t \div m \in Nat /\ t % m \in 0 .. m - 1
         /\ t = m * (t \div m) + (t % m)
<1>1. t % m \in 0 .. m - 1
  OBVIOUS
<1>2. t \div m \in Int
  OBVIOUS
<1>3. t = m * (t \div m) + (t % m)
  OBVIOUS
<1>4. t \div m \in Nat
  <2>1. PICK q \in Int, r \in 0 .. m - 1 : q = t \div m /\ r = t % m /\ t = m * q + r
    BY <1>1, <1>2, <1>3
  <2> SUFFICES ASSUME q < 0 PROVE FALSE
    BY <2>1
  <2>2. PICK d \in Nat : q = -(1 + d)
    <3>1. -q - 1 \in Nat /\ q = -(1 + (-q - 1))
      OBVIOUS
    <3> QED BY <3>1
  <2>3. m * (-(1 + d)) = -m - m * d /\ m * d \in Nat
    OBVIOUS
  <2>4. t = (-m - m * d) + r
    BY <2>1, <2>2, <2>3
  <2>5. PICK e \in Nat : e = m * d
    BY <2>3
  <2> QED BY <2>1, <2>4, <2>5
<1> QED BY <1>1, <1>3, <1>4
LEMMA RestIs ==
  ASSUME NEW m \in Nat \ {0}, NEW k \in Nat, NEW s \in 0 .. m - 1
  PROVE  (m * k + s) % m = s
<1>1. PICK t \in Nat : t = m * k + s
  OBVIOUS
<1>2. PICK q \in Nat, r \in 0 .. m - 1 : q = t \div m /\ r = t % m /\ t = m * q + r
  BY DivMod
<1>3. ASSUME NEW x \in Nat, NEW y \in Nat, x < y PROVE m * y >= m * x + m
  <2>1. PICK d \in Nat : y = x + 1 + d
    <3>1. y - x - 1 \in Nat /\ y = x + 1 + (y - x - 1)
      BY <1>3
    <3> QED BY <3>1
  <2>2. m * (x + 1 + d) = m * x + m + m * d /\ m * d \in Nat
    OBVIOUS
  <2> QED BY <2>1, <2>2
<1>4. ~(q < k)
  <2> SUFFICES ASSUME q < k PROVE FALSE
    OBVIOUS
  <2>1. m * k >= m * q + m /\ m * k \in Nat /\ m * q \in Nat
    BY <1>3
  <2> QED BY <2>1, <1>1, <1>2
<1>5. ~(k < q)
  <2> SUFFICES ASSUME k < q PROVE FALSE
    OBVIOUS
  <2>1. m * q >= m * k + m /\ m * k \in Nat /\ m * q \in Nat
    BY <1>3
  <2> QED BY <2>1, <1>1, <1>2
<1>6. k = q
  BY <1>4, <1>5
<1>7. m * k \in Nat
  OBVIOUS
<1> QED BY <1>1, <1>2, <1>6, <1>7

\* The bits below low, and the group of n bits from low on, are the bits below
\* low + n.
LEMMA GroupsJoin ==
  ASSUME NEW t \in Nat, NEW low \in Nat, NEW n \in Nat
  PROVE  /\ Bits(t, low, n) \in Nat
         /\ (t % Pow2(low)) + Bits(t, low, n) * Pow2(low) = t % Pow2(low + n)
<1>1. PICK a \in Nat \ {0}, b \in Nat \ {0} : a = Pow2(low) /\ b = Pow2(n)
  BY Pow2Positive
<1>2. Pow2(low + n) = a * b
  BY <1>1, Pow2Sum
<1>3. PICK q \in Nat, r \in 0 .. a - 1 : q = t \div a /\ r = t % a /\ t = a * q + r
  <2>1. /\ t \div a \in Nat /\ t % a \in 0 .. a - 1
        /\ t = a * (t \div a) + (t % a)
    BY DivMod
  <2> QED BY <2>1
<1>4. PICK p \in Nat, s \in 0 .. b - 1 : p = q \div b /\ s = q % b /\ q = b * p + s
  <2>1. /\ q \div b \in Nat /\ q % b \in 0 .. b - 1
        /\ q = b * (q \div b) + (q % b)
    BY <1>3, DivMod
  <2> QED BY <2>1
<1>5. t = (a * b) * p + (a * s + r)
  <2>1. a * (b * p + s) = (a * b) * p + a * s /\ (a * b) * p \in Nat /\ a * s \in Nat
    OBVIOUS
  <2>2. t = a * (b * p + s) + r
    BY <1>3, <1>4
  <2>3. PICK x \in Nat, y \in Nat : x = (a * b) * p /\ y = a * s
    BY <2>1
  <2>4. t = (x + y) + r /\ r \in Nat
    BY <2>1, <2>2, <2>3
  <2>5. t = x + (y + r)
    BY <2>4
  <2> QED BY <2>3, <2>5
<1>6. a * b \in Nat \ {0} /\ a * s + r \in 0 .. (a * b) - 1
  <2>1. PICK d \in Nat : b = s + 1 + d
    <3>1. b - s - 1 \in Nat /\ b = s + 1 + (b - s - 1)
      OBVIOUS
    <3> QED BY <3>1
  <2>2. a * (s + 1 + d) = a * s + a + a * d /\ a * s \in Nat /\ a * d \in Nat
    OBVIOUS
  <2> QED BY <2>1, <2>2
<1>7. t % (a * b) = a * s + r
  <2>1. PICK m \in Nat \ {0} : m = a * b
    BY <1>6
  <2>2. PICK z \in 0 .. m - 1 : z = a * s + r
    BY <1>6, <2>1
  <2>3. (m * p + z) % m = z
    BY <2>1, <2>2, RestIs
  <2> QED BY <2>1, <2>2, <2>3, <1>5
<1>8. Bits(t, low, n) = s
  BY <1>1, <1>3, <1>4 DEF Bits
<1>9. r + s * a = a * s + r
  OBVIOUS
<1>10. t % Pow2(low) = r /\ t % Pow2(low + n) = a * s + r
  BY <1>1, <1>2, <1>3, <1>7
<1>11. Bits(t, low, n) * Pow2(low) = s * a
  BY <1>1, <1>8
<1> QED BY <1>8, <1>9, <1>10, <1>11

\* A number that fits is its own rest.
LEMMA SmallRest ==
  ASSUME NEW t \in Nat, NEW m \in Nat \ {0}, t < m
  PROVE  t % m = t
  OBVIOUS

\* The bits from 0 on.
LEMMA LowBits ==
  ASSUME NEW t \in Nat, NEW n \in Nat
  PROVE  Bits(t, 0, n) = t % Pow2(n)
<1>1. t \div 1 = t
  OBVIOUS
<1> QED BY <1>1, Pow2Step DEF Bits

\* Both are numbers.
LEMMA RestOfPower ==
  ASSUME NEW t \in Nat, NEW n \in Nat PROVE t % Pow2(n) \in Nat
<1>1. PICK a \in Nat \ {0} : a = Pow2(n)
  BY Pow2Positive
<1>2. t % a \in Nat
  BY DivMod
<1> QED BY <1>1, <1>2
LEMMA GroupProduct ==
  ASSUME NEW t \in Nat, NEW low \in Nat, NEW n \in Nat
  PROVE  Bits(t, low, n) * Pow2(low) \in Nat
<1>1. PICK a \in Nat \ {0}, s \in Nat : a = Pow2(low) /\ s = Bits(t, low, n)
  BY Pow2Positive, GroupsJoin
<1> QED BY <1>1

\* The groups of a time stamp, put together, are the time: five groups ...
LEMMA ScrGroups ==
  ASSUME NEW t \in Nat
  PROVE  Bits(t, 6 * H, 3) * Pow2(6 * H) + Bits(t, 4 * H, 2 * H) * Pow2(4 * H)
         + Bits(t, 3 * H, H) * Pow2(3 * H) + Bits(t, H, 2 * H) * Pow2(H) + Bits(t, 0, H)
         = t % ClockField
<1>1. /\ H \in Nat /\ 2 * H \in Nat /\ 3 * H \in Nat /\ 4 * H \in Nat /\ 6 * H \in Nat
      /\ H + 2 * H = 3 * H /\ 3 * H + H = 4 * H /\ 4 * H + 2 * H = 6 * H /\ 3 \in Nat
  BY ClockAssumption
<1>2. Bits(t, 0, H) = t % Pow2(H)
  BY <1>1, LowBits
<1>3. (t % Pow2(H)) + Bits(t, H, 2 * H) * Pow2(H) = t % Pow2(3 * H)
  BY <1>1, GroupsJoin
<1>4. (t % Pow2(3 * H)) + Bits(t, 3 * H, H) * Pow2(3 * H) = t % Pow2(4 * H)
  BY <1>1, GroupsJoin
<1>5. (t % Pow2(4 * H)) + Bits(t, 4 * H, 2 * H) * Pow2(4 * H) = t % Pow2(6 * H)
  BY <1>1, GroupsJoin
<1>6. (t % Pow2(6 * H)) + Bits(t, 6 * H, 3) * Pow2(6 * H) = t % ClockField
  BY <1>1, GroupsJoin DEF ClockField
<1>7. PICK w14 \in Nat : w14 = Bits(t, H, 2 * H) * Pow2(H)
  BY <1>1, GroupProduct
<1>8. PICK w19 \in Nat : w19 = Bits(t, 3 * H, H) * Pow2(3 * H)
  BY <1>1, GroupProduct
<1>9. PICK w29 \in Nat : w29 = Bits(t, 4 * H, 2 * H) * Pow2(4 * H)
  BY <1>1, GroupProduct
<1>10. PICK w32 \in Nat : w32 = Bits(t, 6 * H, 3) * Pow2(6 * H)
  BY <1>1, GroupProduct
<1>11. PICK r \in Nat : r = t % Pow2(H)
  BY <1>1, RestOfPower
<1>12. r + w14 + w19 + w29 + w32 = t % ClockField
  BY <1>3, <1>4, <1>5, <1>6, <1>7, <1>8, <1>9, <1>10, <1>11
<1>13. w32 + w29 + w19 + w14 + r = r + w14 + w19 + w29 + w32
  OBVIOUS
<1> QED BY <1>2, <1>7, <1>8, <1>9, <1>10, <1>11, <1>12, <1>13

\* ... or three.
LEMMA PtsGroups ==
  ASSUME NEW t \in Nat
  PROVE  Bits(t, 6 * H, 3) * Pow2(6 * H) + Bits(t, 3 * H, 3 * H) * Pow2(3 * H)
         + Bits(t, 0, 3 * H) = t % ClockField
<1>1. /\ H \in Nat /\ 3 * H \in Nat /\ 6 * H \in Nat /\ 3 * H + 3 * H = 6 * H /\ 3 \in Nat
  BY ClockAssumption
<1>2. Bits(t, 0, 3 * H) = t % Pow2(3 * H)
  BY <1>1, LowBits
<1>3. (t % Pow2(3 * H)) + Bits(t, 3 * H, 3 * H) * Pow2(3 * H) = t % Pow2(6 * H)
  BY <1>1, GroupsJoin
<1>4. (t % Pow2(6 * H)) + Bits(t, 6 * H, 3) * Pow2(6 * H) = t % ClockField
  BY <1>1, GroupsJoin DEF ClockField
<1>5. PICK w29 \in Nat : w29 = Bits(t, 3 * H, 3 * H) * Pow2(3 * H)
  BY <1>1, GroupProduct
<1>6. PICK w32 \in Nat : w32 = Bits(t, 6 * H, 3) * Pow2(6 * H)
  BY <1>1, GroupProduct
<1>7. PICK r \in Nat : r = t % Pow2(3 * H)
  BY <1>1, RestOfPower
<1>8. r + w29 + w32 = t % ClockField
  BY <1>3, <1>4, <1>5, <1>6, <1>7
<1>9. w32 + w29 + r = r + w29 + w32
  OBVIOUS
<1> QED BY <1>2, <1>5, <1>6, <1>7, <1>8, <1>9

\* The fields of the frame packed last.
FieldsKnown ==
  /\ stamped \in Nat
  /\ scr = Scr(stamped) /\ pts = Pts(stamped) /\ rtp = Rtp(stamped)

LEMMA FieldsAgree ==
  ASSUME FieldsKnown PROVE StampsAgree
<1>1. PICK t \in Nat : t = stamped
  BY DEF FieldsKnown
<1>2. U32 \in Nat \ {0} /\ ClockField \in Nat \ {0} /\ U32 <= ClockField
  <2>1. 6 * H + 2 \in Nat /\ (6 * H + 2) + 1 = 6 * H + 3
    BY ClockAssumption
  <2>2. PICK x \in Nat \ {0} : x = U32
    BY <2>1, Pow2Positive DEF U32
  <2>3. ClockField = 2 * x
    BY <2>1, <2>2, Pow2Step DEF U32, ClockField
  <2> QED BY <2>2, <2>3
<1>3. PICK u \in Nat : u = t % U32 /\ u < U32
  BY <1>2, DivMod
<1>4. ScrValue = t % ClockField
  BY <1>1, ScrGroups DEF FieldsKnown, ScrValue, Scr
<1>5. PtsValue = u % ClockField
  BY <1>1, <1>3, PtsGroups DEF FieldsKnown, PtsValue, Pts
<1>6. u % ClockField = u
  <2>1. u < ClockField
    BY <1>2, <1>3
  <2> QED BY <1>2, <2>1, SmallRest
<1>7. rtp = u
  BY <1>1, <1>3 DEF FieldsKnown, Rtp
<1>8. ASSUME t < U32 PROVE PtsValue = ScrValue
  <2>1. u = t
    BY <1>2, <1>3, <1>8, SmallRest
  <2> QED BY <2>1, <1>4, <1>5
<1> QED BY <1>1, <1>3, <1>4, <1>5, <1>6, <1>7, <1>8
        DEF StampsAgree, ScrIsTime, PtsIsRtp, StampsAgreeAtFirst

\* The fields are those of the time stamped last, from the start on.
LEMMA FieldsKnownInit == ClockInit => FieldsKnown
BY DEF ClockInit, FieldsKnown

\* A video frame writes all of them from one time, an audio frame none.
LEMMA FieldsKnownNext ==
  ClockInv /\ FieldsKnown /\ [ClockNext]_clockAll => ClockInv' /\ FieldsKnown'
<1> SUFFICES ASSUME ClockInv, FieldsKnown, [ClockNext]_clockAll
             PROVE  FieldsKnown'
  BY ClockInvNext
<1>1. u64Time' \in Nat
  BY ClockInvNext DEF ClockInv, ClockTypeOK
<1>2. ASSUME NEW p \in PtsValues, VideoFrame(p) PROVE FieldsKnown'
  BY <1>1, <1>2 DEF VideoFrame, FieldsKnown, Scr, Pts, Rtp
<1>3. ASSUME UNCHANGED stampVars PROVE FieldsKnown'
  BY <1>3 DEF stampVars, FieldsKnown, Scr, Pts, Rtp
<1> QED BY <1>2, <1>3 DEF ClockNext, AudioFrame, clockAll

\* The SCR of the pack header (ps.c:503-531), the PTS and DTS of the PES
\* headers (ps.c:653) and the time stamp of the RTP packets (rtp_pack.c:233) of
\* a frame tell one time, for every time and every width of the bit fields, up
\* to the wraps of the fields they are cut into.
THEOREM StampsOfOneTime == ClockSpec => []StampsAgree
<1>1. FieldsKnown => StampsAgree
  BY FieldsAgree
<1> QED BY <1>1, ClockInvInit, FieldsKnownInit, FieldsKnownNext, PTL DEF ClockSpec

-----------------------------------------------------------------------------
\* StreamIntake

\* bytes of blocks that the messages S have
KnownIn(S) ==
  {x \in Byte : /\ x.m \in 1 .. Len(S) /\ x.b \in 1 .. Len(S[x.m].blocks)
                /\ x.i \in 1 - HeaderLen .. S[x.m].blocks[x.b]}
KnownByte == KnownIn(said)
BytesKnown == wire \in Seq(KnownByte) /\ input \in Seq(KnownByte)

\* the byte that comes after x, and the last one
ByteAt(m, b, i) == [m |-> m, b |-> b, i |-> i]
NextByte(S, x) ==
  IF x.i < S[x.m].blocks[x.b] THEN ByteAt(x.m, x.b, x.i + 1)
  ELSE IF x.b < Len(S[x.m].blocks) THEN ByteAt(x.m, x.b + 1, 1 - HeaderLen)
  ELSE ByteAt(x.m + 1, 1, 1 - HeaderLen)
LastByte(S) ==
  LET bs == S[Len(S)].blocks IN ByteAt(Len(S), Len(bs), bs[Len(bs)])
Linked(S, s) == \A k \in 1 .. Len(s) - 1 : s[k + 1] = NextByte(S, s[k])

\* A callback runs only on a connection that reads.
CallbackReads ==
  /\ callback # "idle" => phase \in {"cmd", "stream"}
  /\ phase = "connecting" => input = <<>>

\* Before the stream, when there are no marks, the callback keeps the input
\* buffer below a block and what one read brings.
AnswerFits ==
  phase = "cmd" =>
    /\ Len(input) < HeaderLen + NetBufferLen + FirstRead
    /\ callback = "idle" => Len(input) < HeaderLen + NetBufferLen

\* Reading is suspended when the buffer is full, and then a callback is due.
FullIsDue == suspended => phase = "stream" /\ Len(input) >= HighMark /\ callback # "idle"

IntakeInv == IntakeTypeOK /\ BytesKnown /\ CallbackReads /\ AnswerFits /\ FullIsDue

\* The blocks of a message.
LEMMA BlocksAre ==
  ASSUME NEW S \in Seq(Replies \cup Frames), NEW m \in 1 .. Len(S)
  PROVE  /\ Len(S[m].blocks) \in Nat \ {0}
         /\ \A b \in 1 .. Len(S[m].blocks) : S[m].blocks[b] \in 0 .. NetBufferLen
<1>1. S[m] \in Replies \cup Frames
  BY ElementOfSeq
<1>2. S[m].blocks \in Seq(0 .. NetBufferLen) /\ S[m].blocks # <<>>
  BY <1>1, IntakeAssumption
<1>3. Len(S[m].blocks) \in Nat /\ Len(S[m].blocks) # 0
  BY <1>2, EmptySeq, LenProperties
<1> QED BY <1>2, <1>3, ElementOfSeq

\* One sequence of bytes behind another.
LEMMA LinkedJoin ==
  ASSUME NEW S, NEW V, NEW s \in Seq(V), NEW t \in Seq(V), Linked(S, s), Linked(S, t),
         s # <<>>, t # <<>>, t[1] = NextByte(S, s[Len(s)])
  PROVE  /\ Linked(S, s \o t) /\ s \o t \in Seq(V) /\ s \o t # <<>>
         /\ (s \o t)[1] = s[1] /\ (s \o t)[Len(s \o t)] = t[Len(t)]
<1>1. PICK a \in Nat \ {0} : a = Len(s)
  BY EmptySeq, LenProperties
<1>2. PICK c \in Nat \ {0} : c = Len(t)
  BY EmptySeq, LenProperties
<1>3. /\ s \o t \in Seq(V) /\ Len(s \o t) = a + c
      /\ \A k \in 1 .. a + c : (s \o t)[k] = IF k <= a THEN s[k] ELSE t[k - a]
  BY <1>1, <1>2, ConcatProperties
<1> DEFINE j == s \o t
<1> HIDE DEF j
<1>4. ASSUME NEW k \in 1 .. a + c - 1 PROVE j[k + 1] = NextByte(S, j[k])
  <2>1. k \in 1 .. a + c /\ k + 1 \in 1 .. a + c
    OBVIOUS
  <2>2. CASE k < a
    <3>1. s[k + 1] = NextByte(S, s[k])
      <4>1. k \in 1 .. Len(s) - 1
        BY <1>1, <2>2
      <4> QED BY <4>1 DEF Linked
    <3> QED BY <1>3, <2>1, <2>2, <3>1 DEF j
  <2>3. CASE k = a
    <3>1. j[k + 1] = t[1] /\ j[k] = s[a]
      BY <1>3, <2>1, <2>3 DEF j
    <3> QED BY <1>1, <3>1
  <2>4. CASE k > a
    <3>1. PICK i \in 1 .. c - 1 : i = k - a
      BY <2>4
    <3>2. t[i + 1] = NextByte(S, t[i])
      BY <1>2 DEF Linked
    <3>3. j[k + 1] = t[(k + 1) - a] /\ j[k] = t[k - a] /\ (k + 1) - a = i + 1
      BY <1>3, <2>1, <2>4, <3>1 DEF j
    <3> QED BY <3>1, <3>2, <3>3
  <2> QED BY <2>2, <2>3, <2>4
<1>5. Linked(S, j)
  BY <1>3, <1>4 DEF Linked, j
<1>6. j[1] = s[1] /\ j[Len(j)] = t[Len(t)] /\ j # <<>>
  <2>1. 1 \in 1 .. a + c /\ 1 <= a /\ a + c \in 1 .. a + c /\ ~(a + c <= a) /\ (a + c) - a = c
    OBVIOUS
  <2>2. j[1] = s[1] /\ j[a + c] = t[(a + c) - a]
    BY <1>3, <2>1 DEF j
  <2>3. j # <<>>
    BY <1>3 DEF j
  <2> QED BY <1>2, <1>3, <2>1, <2>2, <2>3 DEF j
<1> QED BY <1>3, <1>5, <1>6 DEF j

\* Where the bytes of a message come from, and in which order.
LEMMA MessageBytes ==
  ASSUME NEW S \in Seq(Replies \cup Frames), NEW number \in 1 .. Len(S)
  PROVE  LET m == S[number]
             s == BytesOf(m, number)
         IN  /\ s \in Seq(KnownIn(S)) /\ Linked(S, s) /\ s # <<>>
             /\ s[1] = ByteAt(number, 1, 1 - HeaderLen)
             /\ s[Len(s)] = ByteAt(number, Len(m.blocks), m.blocks[Len(m.blocks)])
<1> DEFINE m == S[number]
           L == Len(m.blocks)
           V == KnownIn(S)
           block(j) == [i \in 1 .. HeaderLen + m.blocks[j] |->
                          [m |-> number, b |-> j, i |-> i - HeaderLen]]
           Def(k) == k = [j \in 0 .. L |-> IF j = 0 THEN <<>> ELSE k[j - 1] \o block(j)]
           F == [x \in Nat \X Seq(V) |->
                   IF x[1] \in 1 .. L THEN x[2] \o block(x[1]) ELSE <<>>]
<1>1. /\ L \in Nat \ {0} /\ HeaderLen \in Nat \ {0} /\ number \in Nat
      /\ \A j \in 1 .. L : m.blocks[j] \in Nat
  BY BlocksAre, IntakeAssumption
<1>2. ASSUME NEW j \in 1 .. L
      PROVE  /\ block(j) \in Seq(V) /\ Linked(S, block(j)) /\ block(j) # <<>>
             /\ block(j)[1] = ByteAt(number, j, 1 - HeaderLen)
             /\ block(j)[Len(block(j))] = ByteAt(number, j, m.blocks[j])
  <2>1. PICK n \in Nat \ {0} : n = HeaderLen + m.blocks[j]
    BY <1>1
  <2>2. \A i \in 1 .. n : block(j)[i] = ByteAt(number, j, i - HeaderLen)
    BY <2>1 DEF ByteAt
  <2>3. \A i \in 1 .. n : ByteAt(number, j, i - HeaderLen) \in V
    <3> SUFFICES ASSUME NEW i \in 1 .. n PROVE ByteAt(number, j, i - HeaderLen) \in V
      OBVIOUS
    <3>1. i - HeaderLen \in Int /\ i - HeaderLen \in 1 - HeaderLen .. m.blocks[j]
      BY <1>1, <2>1
    <3>2. j \in Nat
      BY <1>1
    <3> HIDE DEF m, L
    <3> QED BY <1>1, <3>1, <3>2 DEF KnownIn, Byte, ByteAt, m, L
  <2>4. block(j) = [i \in 1 .. n |-> ByteAt(number, j, i - HeaderLen)]
    BY <2>1 DEF ByteAt
  <2> HIDE DEF V
  <2>5. block(j) \in [1 .. n -> V]
    BY <2>3, <2>4
  <2>6. block(j) \in Seq(V) /\ Len(block(j)) = n /\ block(j) # <<>>
    <3> HIDE DEF block
    <3>1. block(j) \in Seq(V) /\ DOMAIN block(j) = 1 .. n
      BY <2>5, SeqDef
    <3>2. Len(block(j)) = n
      BY <3>1, LenProperties
    <3> QED BY <3>1, <3>2, EmptySeq
  <2> DEFINE B == block(j)
  <2> HIDE DEF block, B
  <2>7. ASSUME NEW k \in 1 .. n - 1 PROVE B[k + 1] = NextByte(S, B[k])
    <3>1. k \in 1 .. n /\ k + 1 \in 1 .. n /\ k - HeaderLen < m.blocks[j]
          /\ (k + 1) - HeaderLen = (k - HeaderLen) + 1
      BY <1>1, <2>1
    <3>2. B[k] = ByteAt(number, j, k - HeaderLen) /\ B[k + 1] = ByteAt(number, j, (k - HeaderLen) + 1)
      BY <2>2, <3>1 DEF B
    <3>3. NextByte(S, ByteAt(number, j, k - HeaderLen)) = ByteAt(number, j, (k - HeaderLen) + 1)
      BY <3>1 DEF NextByte, ByteAt
    <3> QED BY <3>2, <3>3
  <2>8. Linked(S, B)
    BY <2>6, <2>7 DEF Linked, B
  <2>9. 1 \in 1 .. n /\ n \in 1 .. n /\ n - HeaderLen = m.blocks[j]
    BY <1>1, <2>1
  <2> QED BY <2>2, <2>6, <2>8, <2>9 DEF B
<1> HIDE DEF V, block, L, m
<1>3. F \in [Nat \X Seq(V) -> Seq(V)]
  <2>1. ASSUME NEW x \in Nat \X Seq(V)
        PROVE  (IF x[1] \in 1 .. L THEN x[2] \o block(x[1]) ELSE <<>>) \in Seq(V)
    <3>1. x[2] \in Seq(V) /\ <<>> \in Seq(V)
      OBVIOUS
    <3>2. CASE x[1] \in 1 .. L
      <4>1. block(x[1]) \in Seq(V)
        BY <1>2, <3>2
      <4> QED BY <3>1, <3>2, <4>1, ConcatProperties
    <3>3. CASE x[1] \notin 1 .. L
      BY <3>1, <3>3
    <3> QED BY <3>2, <3>3
  <2> QED BY <2>1
<1>4. <<>> \in Seq(V)
  OBVIOUS
<1>5. \A j \in 1 .. L : \A s \in Seq(V) : F[<<j, s>>] = s \o block(j)
  <2>1. \A j \in 1 .. L : j \in Nat
    BY <1>1
  <2> QED BY <2>1
<1> HIDE DEF F
<1>6. PICK g \in Recursions(Seq(V), <<>>, F, L) : TRUE
  <2>1. Recursions(Seq(V), <<>>, F, L) # {}
    BY <1>1, <1>3, <1>4, RecursionExists
  <2> QED BY <2>1
<1>7. /\ g \in [0 .. L -> Seq(V)] /\ g[0] = <<>>
      /\ \A j \in 1 .. L : g[j] = F[<<j, g[j - 1]>>]
  BY <1>6 DEF Recursions
<1>8. Def(g)
  <2>1. g = [j \in 0 .. L |-> g[j]]
    BY <1>7
  <2>2. ASSUME NEW j \in 0 .. L
        PROVE  g[j] = IF j = 0 THEN <<>> ELSE g[j - 1] \o block(j)
    <3>1. j # 0 => j \in 1 .. L /\ j - 1 \in 0 .. L
      BY <1>1
    <3> QED BY <1>5, <1>7, <3>1
  <2> QED BY <2>1, <2>2
<1> DEFINE k == CHOOSE f : Def(f)
<1>9. Def(k)
  BY <1>8
<1>10. BytesOf(m, number) = k[L]
  BY DEF BytesOf, block, L
<1> HIDE DEF k
<1>11. \A j \in 0 .. L : k[j] = IF j = 0 THEN <<>> ELSE k[j - 1] \o block(j)
  BY <1>9
<1> DEFINE Good(j) ==
             /\ k[j] \in Seq(V) /\ Linked(S, k[j]) /\ k[j] # <<>>
             /\ k[j][1] = ByteAt(number, 1, 1 - HeaderLen)
             /\ k[j][Len(k[j])] = ByteAt(number, j, m.blocks[j])
           T == {j \in Nat : j + 1 \in 0 .. L => Good(j + 1)}
<1>12. 0 \in T
  <2>1. 0 \in 0 .. L /\ 1 \in 0 .. L /\ 1 \in 1 .. L /\ 1 # 0 /\ 1 - 1 = 0 /\ 0 + 1 = 1
    BY <1>1
  <2>2. k[0] = <<>> /\ k[1] = k[1 - 1] \o block(1)
    BY <1>11, <2>1
  <2>3. block(1) \in Seq(V)
    BY <1>2, <2>1
  <2>4. k[1] = block(1)
    BY <2>1, <2>2, <2>3, ConcatEmptySeq
  <2>5. Good(1)
    BY <1>2, <2>1, <2>4
  <2> QED BY <2>1, <2>5
<1>13. ASSUME NEW j \in Nat, j \in T PROVE j + 1 \in T
  <2> SUFFICES ASSUME (j + 1) + 1 \in 0 .. L PROVE Good((j + 1) + 1)
    OBVIOUS
  <2>1. PICK i \in 1 .. L : i = j + 1 /\ i + 1 \in 1 .. L /\ i < L
    BY <1>1
  <2>2. Good(i)
    <3>1. i \in 0 .. L
      BY <1>1, <2>1
    <3> QED BY <1>13, <2>1, <3>1
  <2>3. k[i + 1] = k[i] \o block(i + 1)
    <3>1. i + 1 \in 0 .. L /\ i + 1 # 0 /\ (i + 1) - 1 = i
      BY <1>1, <2>1
    <3> QED BY <1>11, <3>1
  <2>4. /\ block(i + 1) \in Seq(V) /\ Linked(S, block(i + 1)) /\ block(i + 1) # <<>>
        /\ block(i + 1)[1] = ByteAt(number, i + 1, 1 - HeaderLen)
        /\ block(i + 1)[Len(block(i + 1))] = ByteAt(number, i + 1, m.blocks[i + 1])
    BY <1>2, <2>1
  <2>5. NextByte(S, ByteAt(number, i, m.blocks[i])) = ByteAt(number, i + 1, 1 - HeaderLen)
    <3>1. ~(m.blocks[i] < m.blocks[i])
      BY <1>1, <2>1
    <3> QED BY <2>1, <3>1 DEF NextByte, ByteAt, m, L
  <2> DEFINE s == k[i]
             t == block(i + 1)
  <2>6. /\ s \in Seq(V) /\ t \in Seq(V) /\ Linked(S, s) /\ Linked(S, t) /\ s # <<>> /\ t # <<>>
        /\ t[1] = NextByte(S, s[Len(s)])
    BY <2>2, <2>4, <2>5
  <2> HIDE DEF s, t
  <2>7. /\ Linked(S, s \o t) /\ s \o t \in Seq(V) /\ s \o t # <<>>
        /\ (s \o t)[1] = s[1] /\ (s \o t)[Len(s \o t)] = t[Len(t)]
    BY <2>6, LinkedJoin
  <2>8. Good(i + 1)
    BY <2>2, <2>3, <2>4, <2>7 DEF s, t
  <2> QED BY <2>1, <2>8
<1> HIDE DEF T, Good
<1>14. Good(L)
  <2>1. PICK l \in Nat : l + 1 = L
    BY <1>1
  <2>2. l \in T
    BY <1>12, <1>13, SetInduction
  <2>3. l + 1 \in 0 .. L
    BY <1>1, <2>1
  <2> QED BY <2>1, <2>2, <2>3 DEF T
<1> QED BY <1>10, <1>14 DEF Good, V, m, L

LEMMA IntakeStarts == IntakeInit => IntakeInv
<1> SUFFICES ASSUME IntakeInit PROVE IntakeInv
  OBVIOUS
<1> USE DEF IntakeInit
<1>1. \A S : <<>> \in Seq(S)
  OBVIOUS
<1>2. IntakeTypeOK
  BY <1>1 DEF IntakeTypeOK
<1>3. BytesKnown
  BY <1>1 DEF BytesKnown
<1> QED BY <1>2, <1>3, IntakeAssumption
        DEF IntakeInv, CallbackReads, AnswerFits, FullIsDue

\* The numbers of the marks.
LEMMA Marks ==
  /\ HeaderLen \in Nat /\ HeaderLen >= 1 /\ NetBufferLen \in Nat /\ NetBufferLen >= 1
  /\ LowMark \in Nat /\ HighMark \in Nat /\ LowMark <= HighMark
  /\ MaxRead \in Nat /\ FirstMark \in Nat /\ FirstRead \in Nat /\ FirstRead >= 1
  /\ FirstRead + HeaderLen + NetBufferLen <= HighMark
  /\ FirstMark <= HeaderLen + NetBufferLen
  BY IntakeAssumption

\* What is known of the bytes and of the messages.
LEMMA Buffers ==
  ASSUME IntakeInv
  PROVE  /\ wire \in Seq(KnownByte) /\ input \in Seq(KnownByte)
         /\ data \in Seq(Byte) /\ replyText \in Seq(Byte)
         /\ Len(wire) \in Nat /\ Len(input) \in Nat
         /\ said \in Seq(Replies \cup Frames)
  BY DEF IntakeInv, IntakeTypeOK, BytesKnown

\* The block at the beginning of the buffer is one of a message, and is as
\* long as a block may be.
LEMMA PackageFits ==
  ASSUME IntakeInv, Len(input) >= HeaderLen
  PROVE  Package.iActLength \in HeaderLen .. HeaderLen + NetBufferLen
<1>1. input[1] \in KnownByte
  <2>1. 1 \in 1 .. Len(input)
    BY Marks, Buffers
  <2> QED BY <2>1, Buffers, ElementOfSeq
<1> DEFINE m == input[1].m
           b == input[1].b
<1>2. m \in 1 .. Len(said) /\ b \in 1 .. Len(said[m].blocks)
  BY <1>1 DEF KnownByte, KnownIn
<1> HIDE DEF m, b
<1>3. said[m] \in Replies \cup Frames
  BY <1>2, Buffers, ElementOfSeq
<1>4. said[m].blocks \in Seq(0 .. NetBufferLen)
  BY <1>3, IntakeAssumption
<1>5. said[m].blocks[b] \in 0 .. NetBufferLen
  BY <1>2, <1>4, ElementOfSeq
<1>6. Package.iActLength = HeaderLen + said[m].blocks[b]
  BY DEF Package, m, b
<1> QED BY <1>5, <1>6, Marks

\* Taking a block out of the buffer.
LEMMA Taking ==
  ASSUME IntakeInv, NEW ph, TakeBlock(ph)
  PROVE  /\ callback = "running" /\ UNCHANGED <<asked, said, wire>>
         /\ input' \in Seq(KnownByte) /\ Len(input') \in Nat /\ Len(input') < Len(input)
         /\ suspended' = (ph = "stream" /\ Len(input') >= HighMark)
         /\ Received \in Seq(Byte) /\ ReplyTextNow \in Seq(Byte)
<1>1. /\ callback = "running" /\ UNCHANGED <<asked, said, wire>> /\ BlockThere
      /\ input' = SubSeq(input, HeaderLen + PayloadLen + 1, Len(input))
      /\ suspended' = (ph = "stream" /\ Len(input') >= HighMark)
  BY DEF TakeBlock, SuspendAt
<1>2. /\ PayloadLen \in Nat /\ HeaderLen + PayloadLen <= Len(input)
      /\ HeaderLen \in Nat /\ HeaderLen >= 1
  BY <1>1, PackageFits, Marks DEF BlockThere, PayloadLen
<1> DEFINE p == PayloadLen
<1> HIDE DEF p
<1>3. p \in Nat /\ HeaderLen + p <= Len(input) /\ Len(input) \in Nat
  BY <1>2, Buffers DEF p
<1>4. /\ input' \in Seq(KnownByte) /\ Len(input') = Len(input) - (HeaderLen + p)
  <2>1. input' = SubSeq(input, HeaderLen + p + 1, Len(input))
    BY <1>1 DEF p
  <2>2. \A i \in HeaderLen + p + 1 .. Len(input) : input[i] \in KnownByte
    <3>1. \A i \in HeaderLen + p + 1 .. Len(input) : i \in 1 .. Len(input)
      BY <1>2, <1>3
    <3> QED BY <3>1, Buffers, ElementOfSeq
  <2> QED BY <1>2, <1>3, <2>1, <2>2, SubSeqProperties, Buffers
<1>5. Payload \in Seq(KnownByte)
  <2>1. Payload = SubSeq(input, HeaderLen + 1, HeaderLen + p)
    BY DEF Payload, p
  <2>2. \A i \in HeaderLen + 1 .. HeaderLen + p : input[i] \in KnownByte
    <3>1. \A i \in HeaderLen + 1 .. HeaderLen + p : i \in 1 .. Len(input)
      BY <1>2, <1>3
    <3> QED BY <3>1, Buffers, ElementOfSeq
  <2> QED BY <1>2, <1>3, <2>1, <2>2, SubSeqProperties, Buffers
<1>6. Payload \in Seq(Byte)
  <2>1. KnownByte \subseteq Byte
    BY DEF KnownByte, KnownIn
  <2> QED BY <1>5, <2>1, SeqMonotonic
<1>7. Received \in Seq(Byte) /\ ReplyTextNow \in Seq(Byte)
  BY <1>6, Buffers, ConcatProperties DEF Received, ReplyTextNow
<1> QED BY <1>1, <1>2, <1>3, <1>4, <1>7

\* What a callback keeps that leaves the hbserver and the wire alone.
LEMMA SameMessages ==
  ASSUME IntakeInv, UNCHANGED <<said, wire>>, input' \in Seq(KnownByte)
  PROVE  BytesKnown'
<1>1. KnownByte' = KnownByte
  BY DEF KnownByte
<1> QED BY <1>1 DEF IntakeInv, BytesKnown

LEMMA ConnectedKeeps ==
  ASSUME IntakeInv, NEW c, Connected(c)
  PROVE  IntakeInv'
<1> USE DEF Connected, inputVars, sourceVars
<1>1. IntakeTypeOK'
  BY DEF IntakeInv, IntakeTypeOK
<1>2. BytesKnown'
  BY SameMessages, Buffers
<1>3. CallbackReads' /\ AnswerFits'
  <2>1. input = <<>>
    BY DEF IntakeInv, CallbackReads
  <2>2. Len(input) = 0
    BY <2>1
  <2> QED BY <2>2, Marks DEF IntakeInv, CallbackReads, AnswerFits
<1>4. FullIsDue'
  BY DEF IntakeInv, FullIsDue
<1> QED BY <1>1, <1>2, <1>3, <1>4 DEF IntakeInv

LEMMA HbserverSaysKeeps ==
  ASSUME IntakeInv, NEW m \in Replies \cup Frames, HbserverSays(m)
  PROVE  IntakeInv'
<1> USE DEF inputVars, sourceVars
<1>1. /\ said' = Append(said, m) /\ wire' = wire \o BytesOf(m, Len(said) + 1)
      /\ UNCHANGED <<phase, input, suspended, callback, data, replyText, started>>
      /\ phase \in {"cmd", "stream"}
  BY DEF HbserverSays
<1>2. PICK L \in Nat : L = Len(said)
  BY Buffers
<1>3. /\ said' \in Seq(Replies \cup Frames) /\ Len(said') = L + 1
      /\ said'[L + 1] = m /\ \A i \in 1 .. L : said'[i] = said[i]
  BY <1>1, <1>2, Buffers
<1> DEFINE New == KnownIn(said')
<1>4. KnownByte' = New
  BY DEF KnownByte, KnownIn, Byte
<1>5. KnownByte \subseteq New
  <2>1. \A i \in 1 .. L : i \in 1 .. L + 1
    BY <1>2
  <2> QED BY <1>2, <1>3, <2>1 DEF KnownByte, KnownIn
<1> HIDE DEF New
<1>7. wire \in Seq(New) /\ input \in Seq(New)
  BY <1>5, Buffers, SeqMonotonic
<1>8. BytesOf(m, L + 1) \in Seq(New)
  <2>1. L + 1 \in 1 .. Len(said') /\ said'[L + 1] = m
    BY <1>2, <1>3
  <2> QED BY <1>3, <2>1, MessageBytes DEF New
<1>9. wire' \in Seq(New)
  BY <1>1, <1>2, <1>7, <1>8, ConcatProperties
<1>10. BytesKnown'
  BY <1>1, <1>4, <1>7, <1>9 DEF BytesKnown
<1>11. New \subseteq Byte
  BY DEF New, KnownIn
<1>12. wire' \in Seq(Byte)
  BY <1>9, <1>11, SeqMonotonic
<1>13. IntakeTypeOK'
  BY <1>1, <1>3, <1>12 DEF IntakeInv, IntakeTypeOK, Byte
<1>14. CallbackReads' /\ AnswerFits' /\ FullIsDue'
  BY <1>1 DEF IntakeInv, CallbackReads, AnswerFits, FullIsDue
<1> QED BY <1>10, <1>13, <1>14 DEF IntakeInv

LEMMA SocketReadKeeps == ASSUME IntakeInv, SocketRead PROVE IntakeInv'
<1> USE DEF sourceVars
<1>1. PICK k \in 1 .. Len(wire) :
        /\ k <= ReadRoom
        /\ input' = input \o SubSeq(wire, 1, k) /\ wire' = SubSeq(wire, k + 1, Len(wire))
        /\ suspended' = (phase = "stream" /\ Len(input') >= HighMark)
        /\ callback' = IF Len(input') >= Low THEN "due" ELSE "idle"
  BY DEF SocketRead, SuspendAt
<1>2. /\ phase \in {"cmd", "stream"} /\ ~suspended /\ callback = "idle"
      /\ UNCHANGED <<phase, asked, said, data, replyText, started>>
  BY DEF SocketRead
<1>3. PICK W \in Nat : W = Len(wire)
  BY Buffers
<1>4. \A i \in 1 .. W : wire[i] \in KnownByte
  BY <1>3, Buffers, ElementOfSeq
<1>5. /\ SubSeq(wire, 1, k) \in Seq(KnownByte) /\ Len(SubSeq(wire, 1, k)) = k
      /\ wire' \in Seq(KnownByte)
  <2>1. k \in 1 .. W /\ \A i \in 1 .. k : i \in 1 .. W
    BY <1>3
  <2>2. \A i \in k + 1 .. W : i \in 1 .. W
    BY <2>1
  <2> QED BY <1>1, <1>3, <1>4, <2>1, <2>2, SubSeqProperties, Buffers
<1>6. input' \in Seq(KnownByte) /\ Len(input') = Len(input) + k
  BY <1>1, <1>5, Buffers, ConcatProperties
<1>7. BytesKnown'
  <2>1. KnownByte' = KnownByte
    BY <1>2 DEF KnownByte
  <2> QED BY <1>5, <1>6, <2>1 DEF BytesKnown
<1>8. KnownByte \subseteq Byte
  BY DEF KnownByte, KnownIn
<1>9. wire' \in Seq(Byte) /\ input' \in Seq(Byte)
  BY <1>5, <1>6, <1>8, SeqMonotonic
<1>10. phase = "stream" => k <= HighMark - Len(input)
  BY <1>1, <1>3, Buffers, Marks DEF ReadRoom
<1>11. phase = "stream" => Len(input') <= HighMark
  BY <1>3, <1>6, <1>10, Buffers, Marks
<1>12. suspended' \in BOOLEAN /\ callback' \in {"idle", "due", "running"}
  BY <1>1
<1>13. IntakeTypeOK'
  BY <1>2, <1>9, <1>11, <1>12 DEF IntakeInv, IntakeTypeOK, Byte
<1>14. CallbackReads'
  BY <1>2 DEF CallbackReads
<1>15. AnswerFits'
  <2> SUFFICES ASSUME phase = "cmd" PROVE AnswerFits'
    BY <1>2 DEF AnswerFits
  <2>1. k <= FirstRead /\ Low = FirstMark /\ Len(input) < HeaderLen + NetBufferLen
    BY <1>1, <1>2 DEF ReadRoom, Low, IntakeInv, AnswerFits
  <2>2. Len(input') < HeaderLen + NetBufferLen + FirstRead
    BY <1>3, <1>6, <2>1, Buffers, Marks
  <2>3. callback' = "idle" => Len(input') < HeaderLen + NetBufferLen
    <3>1. callback' = "idle" => ~(Len(input') >= Low)
      BY <1>1
    <3> QED BY <1>3, <1>6, <2>1, <3>1, Buffers, Marks
  <2> QED BY <2>2, <2>3 DEF AnswerFits
<1>16. FullIsDue'
  <2> SUFFICES ASSUME suspended' PROVE phase = "stream" /\ Len(input') >= HighMark /\ callback' # "idle"
    BY <1>2 DEF FullIsDue
  <2>1. phase = "stream" /\ Len(input') >= HighMark
    BY <1>1
  <2>2. Len(input') >= Low
    BY <1>3, <1>6, <2>1, Buffers, Marks DEF Low
  <2> QED BY <1>1, <2>1, <2>2
<1> QED BY <1>7, <1>13, <1>14, <1>15, <1>16 DEF IntakeInv

LEMMA ConnectionEndsKeeps == ASSUME IntakeInv, ConnectionEnds PROVE IntakeInv'
<1> USE DEF ConnectionEnds, sourceVars
<1>1. \A S : <<>> \in Seq(S)
  OBVIOUS
<1>2. IntakeTypeOK'
  BY <1>1 DEF IntakeInv, IntakeTypeOK
<1>3. BytesKnown'
  BY <1>1 DEF BytesKnown
<1> QED BY <1>2, <1>3 DEF IntakeInv, CallbackReads, AnswerFits, FullIsDue

LEMMA CallbackBeginsKeeps == ASSUME IntakeInv, CallbackBegins PROVE IntakeInv'
<1> USE DEF CallbackBegins, inputVars
<1>1. replyText' \in Seq(Byte)
  BY Buffers
<1>2. IntakeTypeOK'
  BY <1>1 DEF IntakeInv, IntakeTypeOK, Byte
<1>3. BytesKnown'
  BY SameMessages, Buffers
<1>4. CallbackReads' /\ AnswerFits' /\ FullIsDue'
  BY DEF IntakeInv, CallbackReads, AnswerFits, FullIsDue
<1> QED BY <1>2, <1>3, <1>4 DEF IntakeInv

\* A callback that returns leaves less than a block behind, so the buffer is
\* not full.
LEMMA CallbackReturnsKeeps == ASSUME IntakeInv, CallbackReturns PROVE IntakeInv'
<1> USE DEF CallbackReturns, inputVars, sourceVars
<1>1. Len(input) < HeaderLen + NetBufferLen
  <2> SUFFICES ASSUME Len(input) >= HeaderLen + NetBufferLen PROVE FALSE
    BY Buffers, Marks
  <2>1. Len(input) >= HeaderLen
    BY Buffers, Marks
  <2>2. Len(input) >= Package.iActLength
    BY <2>1, Buffers, Marks, PackageFits
  <2> QED BY <2>1, <2>2 DEF BlockThere
<1>2. IntakeTypeOK'
  BY DEF IntakeInv, IntakeTypeOK, Byte
<1>3. BytesKnown'
  BY SameMessages, Buffers
<1>4. ~suspended
  <2>1. ~(Len(input) >= HighMark)
    BY <1>1, Buffers, Marks
  <2> QED BY <2>1 DEF IntakeInv, FullIsDue
<1>5. CallbackReads' /\ AnswerFits' /\ FullIsDue'
  BY <1>1, <1>4 DEF IntakeInv, CallbackReads, AnswerFits, FullIsDue
<1> QED BY <1>2, <1>3, <1>5 DEF IntakeInv

LEMMA MiddleBlockKeeps == ASSUME IntakeInv, MiddleBlock PROVE IntakeInv'
<1>1. /\ TakeBlock(phase) /\ data' = Received
      /\ replyText' = IF phase = "cmd" THEN ReplyTextNow ELSE replyText
      /\ UNCHANGED <<phase, callback, started, frames>>
  BY DEF MiddleBlock
<1>2. /\ callback = "running" /\ UNCHANGED <<said, wire>>
      /\ input' \in Seq(KnownByte) /\ Len(input') \in Nat /\ Len(input') < Len(input)
      /\ suspended' = (phase = "stream" /\ Len(input') >= HighMark)
      /\ data' \in Seq(Byte) /\ replyText' \in Seq(Byte)
  BY <1>1, Taking, Buffers
<1>3. BytesKnown'
  BY <1>2, SameMessages
<1>4. input' \in Seq(Byte)
  <2>1. KnownByte \subseteq Byte
    BY DEF KnownByte, KnownIn
  <2> QED BY <1>2, <2>1, SeqMonotonic
<1>5. IntakeTypeOK'
  <2>1. phase = "stream" => Len(input') <= HighMark
    BY <1>2, Buffers, Marks DEF IntakeInv, IntakeTypeOK
  <2> QED BY <1>1, <1>2, <1>4, <2>1 DEF IntakeInv, IntakeTypeOK, Byte
<1>6. AnswerFits'
  <2> SUFFICES ASSUME phase = "cmd" PROVE Len(input') < HeaderLen + NetBufferLen + FirstRead
    BY <1>1, <1>2 DEF AnswerFits
  <2> QED BY <1>2, Buffers, Marks DEF IntakeInv, AnswerFits
<1>7. CallbackReads' /\ FullIsDue'
  BY <1>1, <1>2 DEF IntakeInv, CallbackReads, FullIsDue
<1> QED BY <1>3, <1>5, <1>6, <1>7 DEF IntakeInv

\* What a callback keeps that takes the last block of a message and is through.
LEMMA LastBlockKeeps ==
  ASSUME IntakeInv, NEW ph \in {"cmd", "stream"}, TakeBlock(ph),
         phase' \in {"stream", "refused"}, phase = "stream" => phase' = "stream",
         phase' = "stream" => ph = "stream", phase' = "refused" => ph = "cmd",
         callback' = "idle",
         data' \in Seq(Byte), replyText' \in Seq(Byte), started' \in BOOLEAN
  PROVE  IntakeInv'
<1>1. /\ callback = "running" /\ UNCHANGED <<said, wire>>
      /\ input' \in Seq(KnownByte) /\ Len(input') \in Nat /\ Len(input') < Len(input)
      /\ suspended' = (ph = "stream" /\ Len(input') >= HighMark)
  BY Taking
<1>2. phase \in {"cmd", "stream"}
  BY <1>1 DEF IntakeInv, CallbackReads
<1>3. Len(input') < HighMark
  <2>1. phase = "stream" => Len(input) <= HighMark
    BY DEF IntakeInv, IntakeTypeOK
  <2>2. phase = "cmd" => Len(input) <= HighMark
    BY Buffers, Marks DEF IntakeInv, AnswerFits
  <2> QED BY <1>1, <1>2, <2>1, <2>2, Buffers, Marks
<1>4. ~suspended'
  <2>1. ~(Len(input') >= HighMark)
    BY <1>1, <1>3, Marks
  <2> QED BY <1>1, <2>1
<1>5. BytesKnown'
  BY <1>1, SameMessages
<1>6. input' \in Seq(Byte)
  <2>1. KnownByte \subseteq Byte
    BY DEF KnownByte, KnownIn
  <2> QED BY <1>1, <2>1, SeqMonotonic
<1>7. IntakeTypeOK'
  <2>1. Len(input') <= HighMark
    BY <1>1, <1>3, Marks
  <2> QED BY <1>1, <1>4, <1>6, <2>1 DEF IntakeInv, IntakeTypeOK, Byte
<1>8. CallbackReads' /\ AnswerFits' /\ FullIsDue'
  BY <1>4 DEF CallbackReads, AnswerFits, FullIsDue
<1> QED BY <1>5, <1>7, <1>8 DEF IntakeInv

LEMMA ReplyKeeps == ASSUME IntakeInv, ReplyAccepted \/ ReplyRefused PROVE IntakeInv'
<1>1. started \in BOOLEAN /\ <<>> \in Seq(Byte)
  BY DEF IntakeInv, IntakeTypeOK
<1>2. CASE ReplyAccepted
  <2>1. /\ TakeBlock("stream") /\ phase = "cmd" /\ phase' = "stream" /\ callback' = "idle"
        /\ data' = <<>> /\ replyText' = ReplyTextNow /\ started' = started
    BY <1>2 DEF ReplyAccepted, AfterReply
  <2>2. ReplyTextNow \in Seq(Byte)
    BY <2>1, Taking
  <2> QED BY <1>1, <2>1, <2>2, LastBlockKeeps
<1>3. CASE ReplyRefused
  <2>1. /\ TakeBlock("cmd") /\ phase = "cmd" /\ phase' = "refused" /\ callback' = "idle"
        /\ data' = Received /\ replyText' = ReplyTextNow /\ started' = started
    BY <1>3 DEF ReplyRefused
  <2>2. ReplyTextNow \in Seq(Byte) /\ Received \in Seq(Byte)
    BY <2>1, Taking
  <2> QED BY <1>1, <2>1, <2>2, LastBlockKeeps
<1> QED BY <1>2, <1>3

LEMMA FrameKeeps == ASSUME IntakeInv, FrameDropped \/ FrameQueued PROVE IntakeInv'
<1>1. /\ phase = "stream" /\ phase' = "stream" /\ TakeBlock("stream") /\ callback' = "idle"
      /\ data' = <<>> /\ replyText' = replyText /\ started' \in BOOLEAN
  <2>1. StartedNow \in BOOLEAN
    BY DEF StartedNow, IntakeInv, IntakeTypeOK
  <2> QED BY <2>1 DEF FrameDropped, FrameQueued, AfterDrop
<1>2. data' \in Seq(Byte) /\ replyText' \in Seq(Byte)
  BY <1>1, Buffers, EmptySeq
<1> QED BY <1>1, <1>2, LastBlockKeeps

LEMMA CallbackBreaksKeeps == ASSUME IntakeInv, CallbackBreaks PROVE IntakeInv'
<1> USE DEF CallbackBreaks, sourceVars
<1>1. \A S : <<>> \in Seq(S)
  OBVIOUS
<1>2. IntakeTypeOK'
  BY <1>1 DEF IntakeInv, IntakeTypeOK
<1>3. BytesKnown'
  BY <1>1 DEF BytesKnown
<1> QED BY <1>2, <1>3 DEF CallbackReads, AnswerFits, FullIsDue, IntakeInv

LEMMA IntakeStep == IntakeInv /\ [IntakeNext]_intakeAll => IntakeInv'
<1> SUFFICES ASSUME IntakeInv, [IntakeNext]_intakeAll PROVE IntakeInv'
  OBVIOUS
<1>1. CASE UNCHANGED intakeAll
  <2>1. UNCHANGED <<phase, asked, said, wire, input, suspended, callback, data, replyText,
                    started, frames>>
    BY <1>1 DEF intakeAll, inputVars, sourceVars
  <2>2. KnownByte' = KnownByte
    BY <2>1 DEF KnownByte
  <2> QED BY <2>1, <2>2 DEF IntakeInv, IntakeTypeOK, Byte, BytesKnown, CallbackReads,
                            AnswerFits, FullIsDue
<1>2. CASE \E c \in 0 .. MaxCommand : Connected(c)
  BY <1>2, ConnectedKeeps
<1>3. CASE \E m \in Replies \cup Frames : HbserverSays(m)
  BY <1>3, HbserverSaysKeeps
<1>4. CASE SocketRead
  BY <1>4, SocketReadKeeps
<1>5. CASE ConnectionEnds
  BY <1>5, ConnectionEndsKeeps
<1>6. CASE CallbackBegins
  BY <1>6, CallbackBeginsKeeps
<1>7. CASE CallbackReturns
  BY <1>7, CallbackReturnsKeeps
<1>8. CASE MiddleBlock
  BY <1>8, MiddleBlockKeeps
<1>9. CASE ReplyAccepted \/ ReplyRefused
  BY <1>9, ReplyKeeps
<1>10. CASE FrameDropped \/ FrameQueued
  BY <1>10, FrameKeeps
<1>11. CASE CallbackBreaks
  BY <1>11, CallbackBreaksKeeps
<1> QED BY <1>1, <1>2, <1>3, <1>4, <1>5, <1>6, <1>7, <1>8, <1>9, <1>10, <1>11 DEF IntakeNext

\* The variables of the connection keep their types, and the input buffer of
\* a stream never exceeds its high mark.
THEOREM IntakeTypeCorrect == IntakeSpec => []IntakeTypeOK
<1>1. IntakeInv => IntakeTypeOK
  BY DEF IntakeInv
<1> QED BY <1>1, IntakeStarts, IntakeStep, PTL DEF IntakeSpec

\* Reading is never suspended without a callback that will take something out
\* of the buffer, for any marks and block sizes that fit each other.
THEOREM IntakeNeverStalls == IntakeSpec => []NeverStalls
<1>1. IntakeInv => NeverStalls
  BY DEF IntakeInv, FullIsDue, NeverStalls
<1> QED BY <1>1, IntakeStarts, IntakeStep, PTL DEF IntakeSpec

\* The bytes that no callback has taken: the rest of what was said, from a
\* block on.
NextBlock == IF Left = <<>> THEN 1 ELSE Left[1].b
LeftInOrder ==
  /\ Linked(said, Left)
  /\ Left # <<>> => Left[1].i = 1 - HeaderLen /\ Left[Len(Left)] = LastByte(said)

\* The receive buffer has the blocks of the message that have been taken.
DataSoFar ==
  phase \in {"connecting", "cmd", "stream"} =>
    data = IF NextBlock = 1 THEN <<>>
           ELSE PayloadTo(said[NextMessage].blocks, NextMessage, NextBlock - 1)

\* The first message is the answer, the stream begins after it.
AnswerFirst ==
  /\ phase = "connecting" => said = <<>>
  /\ said # <<>> => said[1] \in Replies
  /\ phase \in {"connecting", "cmd"} => NextMessage = 1 /\ frames = <<>> /\ ~started
  /\ phase = "stream" => NextMessage >= 2

\* What the callback sees of an answer is part of it, from the block on that
\* it began with.
ReplySoFar ==
  phase \in {"connecting", "cmd"} =>
    /\ \A k \in 1 .. Len(replyText) : replyText[k].m = 1 /\ replyText[k].b >= 1
    /\ callback = "running" => Len(replyText) <= Len(data)

StartedByKeyFrame ==
  phase = "stream" => (started <=> \E k \in Taken : said[k].frame = 1)

CommandSplit ==
  \/ asked = NoCommand
  \/ \E n \in Nat : asked = [command |-> n, blocks |-> Split(n)]

FrameUnit == [type : {"BP", "I", "audio", "none"}, bytes : Seq(Byte)]
SourceInv ==
  /\ frames \in Seq(FrameUnit)
  /\ IntakeInv /\ LeftInOrder /\ DataSoFar /\ AnswerFirst /\ ReplySoFar
  /\ StartedByKeyFrame /\ CommandSplit /\ ReplyHeard /\ FramesWhole

\* What the blocks of a message bring, block by block.
BlockBytes(blocks, m, j) == [i \in 1 .. blocks[j] |-> ByteAt(m, j, i)]
LEMMA PayloadSteps ==
  ASSUME NEW blocks \in Seq(Nat), NEW m \in Nat
  PROVE  /\ PayloadTo(blocks, m, 0) = <<>>
         /\ \A j \in 1 .. Len(blocks) :
              /\ PayloadTo(blocks, m, j) = PayloadTo(blocks, m, j - 1) \o BlockBytes(blocks, m, j)
              /\ PayloadTo(blocks, m, j - 1) \in Seq(Byte)
              /\ BlockBytes(blocks, m, j) \in Seq(Byte)
<1> DEFINE L == Len(blocks)
           V == Seq(Byte)
           block(j) == BlockBytes(blocks, m, j)
           Def(k) == k = [j \in 0 .. L |-> IF j = 0 THEN <<>> ELSE k[j - 1] \o block(j)]
           F == [x \in Nat \X V |-> IF x[1] \in 1 .. L THEN x[2] \o block(x[1]) ELSE <<>>]
<1>1. L \in Nat /\ <<>> \in V /\ \A j \in 1 .. L : blocks[j] \in Nat
  OBVIOUS
<1>2. ASSUME NEW j \in 1 .. L PROVE block(j) \in V
  <2>1. PICK n \in Nat : n = blocks[j]
    BY <1>1
  <2>2. \A i \in 1 .. n : ByteAt(m, j, i) \in Byte
    BY <1>1 DEF ByteAt, Byte
  <2>3. block(j) \in [1 .. n -> Byte]
    BY <2>1, <2>2 DEF BlockBytes
  <2> QED BY <2>3, SeqDef
<1> HIDE DEF V, L
<1>3. F \in [Nat \X V -> V]
  <2>1. ASSUME NEW x \in Nat \X V
        PROVE  (IF x[1] \in 1 .. L THEN x[2] \o block(x[1]) ELSE <<>>) \in V
    <3>1. x[2] \in V
      OBVIOUS
    <3>2. CASE x[1] \in 1 .. L
      <4>1. block(x[1]) \in V
        BY <1>2, <3>2
      <4> HIDE DEF block
      <4>2. x[2] \o block(x[1]) \in V
        BY <3>1, <4>1, ConcatProperties DEF V
      <4> QED BY <3>2, <4>2
    <3>3. CASE x[1] \notin 1 .. L
      BY <1>1, <3>3
    <3> QED BY <3>2, <3>3
  <2> QED BY <2>1
<1>4. \A j \in 1 .. L : \A s \in V : F[<<j, s>>] = s \o block(j)
  <2>1. \A j \in 1 .. L : j \in Nat
    BY <1>1
  <2> QED BY <2>1
<1> HIDE DEF F, block
<1>5. PICK g \in Recursions(V, <<>>, F, L) : TRUE
  BY <1>1, <1>3, RecursionExists
<1>6. /\ g \in [0 .. L -> V] /\ g[0] = <<>>
      /\ \A j \in 1 .. L : g[j] = F[<<j, g[j - 1]>>]
  BY <1>5 DEF Recursions
<1>7. Def(g)
  <2>1. g = [j \in 0 .. L |-> g[j]]
    BY <1>6
  <2>2. ASSUME NEW j \in 0 .. L
        PROVE  g[j] = IF j = 0 THEN <<>> ELSE g[j - 1] \o block(j)
    <3>1. j # 0 => j \in 1 .. L /\ j - 1 \in 0 .. L
      BY <1>1
    <3> QED BY <1>4, <1>6, <3>1
  <2> QED BY <2>1, <2>2
<1> DEFINE k == CHOOSE f : Def(f)
<1>8. Def(k)
  BY <1>7
<1>9. \A j : PayloadTo(blocks, m, j) = k[j]
  BY DEF PayloadTo, L, block, BlockBytes, ByteAt
<1> HIDE DEF k
<1>10. \A j \in 0 .. L : k[j] = IF j = 0 THEN <<>> ELSE k[j - 1] \o block(j)
  BY <1>8
<1> DEFINE T == {j \in Nat : j \in 0 .. L => k[j] \in V}
<1>11. 0 \in T
  <2>1. 0 \in 0 .. L
    BY <1>1
  <2> QED BY <1>1, <1>10, <2>1
<1>12. ASSUME NEW j \in Nat, j \in T PROVE j + 1 \in T
  <2> SUFFICES ASSUME j + 1 \in 0 .. L PROVE k[j + 1] \in V
    OBVIOUS
  <2>1. j \in 0 .. L /\ j + 1 # 0 /\ (j + 1) - 1 = j /\ j + 1 \in 1 .. L
    BY <1>1
  <2>2. k[j] \in V /\ block(j + 1) \in V
    BY <1>2, <1>12, <2>1
  <2>3. k[j + 1] = k[j] \o block(j + 1)
    BY <1>10, <2>1
  <2> QED BY <2>2, <2>3, ConcatProperties DEF V
<1> HIDE DEF T, Def
<1>13. Nat \subseteq T
  BY <1>11, <1>12, SetInduction
<1>14. k[0] = <<>>
  <2>1. 0 \in 0 .. L
    BY <1>1
  <2> QED BY <1>10, <2>1
<1>15. ASSUME NEW j \in 1 .. L
       PROVE  k[j] = k[j - 1] \o block(j) /\ k[j - 1] \in V /\ block(j) \in V
  <2>1. j \in 0 .. L /\ j # 0 /\ j - 1 \in 0 .. L /\ j - 1 \in Nat
    BY <1>1
  <2>2. k[j - 1] \in V
    BY <1>13, <2>1 DEF T
  <2> QED BY <1>2, <1>10, <2>1, <2>2
<1> QED BY <1>9, <1>14, <1>15 DEF L, V, block

\* The bytes left, in the input buffer and on the way.
LEMMA LeftFacts ==
  ASSUME IntakeInv
  PROVE  /\ Left \in Seq(KnownByte) /\ Len(Left) = Len(input) + Len(wire)
         /\ \A k \in 1 .. Len(input) : Left[k] = input[k]
         /\ Len(said) \in Nat
         /\ Left # <<>> => /\ NextMessage \in 1 .. Len(said)
                           /\ NextBlock \in 1 .. Len(said[NextMessage].blocks)
         /\ NextMessage \in Nat \ {0}
<1>1. /\ Left \in Seq(KnownByte) /\ Len(Left) = Len(input) + Len(wire)
      /\ \A k \in 1 .. Len(input) : Left[k] = input[k]
  <2>1. /\ Left \in Seq(KnownByte) /\ Len(Left) = Len(input) + Len(wire)
        /\ \A k \in 1 .. Len(input) + Len(wire) :
             Left[k] = IF k <= Len(input) THEN input[k] ELSE wire[k - Len(input)]
    BY Buffers, ConcatProperties DEF Left
  <2>2. \A k \in 1 .. Len(input) : k \in 1 .. Len(input) + Len(wire) /\ k <= Len(input)
    BY Buffers
  <2> QED BY <2>1, <2>2
<1>2. Len(said) \in Nat
  BY Buffers
<1>3. ASSUME Left # <<>>
      PROVE  NextMessage \in 1 .. Len(said) /\ NextBlock \in 1 .. Len(said[NextMessage].blocks)
  <2>1. 1 \in 1 .. Len(Left)
    BY <1>1, <1>3, EmptySeq, LenProperties
  <2>2. Left[1] \in KnownByte
    BY <1>1, <2>1, ElementOfSeq
  <2> QED BY <1>3, <2>2 DEF NextMessage, NextBlock, KnownByte, KnownIn
<1>4. NextMessage \in Nat \ {0}
  <2>1. Left = <<>> => NextMessage = Len(said) + 1
    BY DEF NextMessage
  <2> QED BY <1>2, <1>3, <2>1
<1> QED BY <1>1, <1>2, <1>3, <1>4

\* What a callback takes out is the next block of the stream; the next one
\* after it is that of the same message, or the first of the next message.
LEMMA BlockTaken ==
  ASSUME IntakeInv, LeftInOrder, NEW ph, TakeBlock(ph)
  PROVE  /\ NextMessage \in 1 .. Len(said)
         /\ NextBlock \in 1 .. Len(said[NextMessage].blocks)
         /\ Payload = BlockBytes(said[NextMessage].blocks, NextMessage, NextBlock)
         /\ Package.byBlockEndFlag <=> NextBlock = Len(said[NextMessage].blocks)
         /\ Package.byDataType = said[NextMessage].type
         /\ Package.byFrameType = said[NextMessage].frame
         /\ LeftInOrder' /\ said' = said
         /\ IF NextBlock = Len(said[NextMessage].blocks)
            THEN NextMessage' = NextMessage + 1 /\ NextBlock' = 1
            ELSE NextMessage' = NextMessage /\ NextBlock' = NextBlock + 1
<1>1. /\ BlockThere /\ said' = said /\ wire' = wire
      /\ input' = SubSeq(input, HeaderLen + PayloadLen + 1, Len(input))
  BY DEF TakeBlock
<1>2. /\ PayloadLen \in Nat /\ HeaderLen + PayloadLen <= Len(input)
      /\ HeaderLen \in Nat /\ HeaderLen >= 1 /\ Len(input) \in Nat /\ Len(wire) \in Nat
  BY <1>1, PackageFits, Marks, Buffers DEF BlockThere, PayloadLen
<1>3. PICK p \in Nat \ {0} : p = HeaderLen + PayloadLen /\ p <= Len(input)
  BY <1>2
<1>4. /\ Left \in Seq(KnownByte) /\ Len(Left) = Len(input) + Len(wire)
      /\ \A k \in 1 .. Len(input) : Left[k] = input[k]
  BY LeftFacts
<1>5. PICK n \in Nat : n = Len(Left)
  BY <1>2, <1>4
<1>6. p <= n /\ n >= 1 /\ Left # <<>>
  BY <1>2, <1>3, <1>4, <1>5, EmptySeq
<1>7. PICK m \in 1 .. Len(said) : m = NextMessage
  BY <1>6, LeftFacts
<1> DEFINE bs == said[m].blocks
<1>8. PICK b \in 1 .. Len(bs) : b = NextBlock
  BY <1>6, <1>7, LeftFacts
<1>9. Len(bs) \in Nat \ {0} /\ bs[b] \in Nat /\ m \in Nat /\ b \in Nat /\ Len(said) \in Nat
  <2>1. bs[b] \in 0 .. NetBufferLen
    BY <1>8, BlocksAre, Buffers
  <2> QED BY <2>1, Marks, BlocksAre, Buffers
<1> HIDE DEF bs
<1>10. Left[1] = ByteAt(m, b, 1 - HeaderLen)
  <2>1. Left[1].m = m /\ Left[1].b = b /\ Left[1].i = 1 - HeaderLen
    BY <1>6, <1>7, <1>8 DEF NextMessage, NextBlock, LeftInOrder
  <2>2. Left[1] \in Byte
    <3>1. 1 \in 1 .. Len(Left)
      BY <1>5, <1>6
    <3>2. Left[1] \in KnownByte
      BY <1>4, <3>1, ElementOfSeq
    <3> QED BY <3>2 DEF KnownByte, KnownIn
  <2> QED BY <2>1, <2>2 DEF Byte, ByteAt
<1>11. input[1].m = m /\ input[1].b = b
  <2>1. 1 \in 1 .. Len(input)
    BY <1>2, <1>3
  <2> QED BY <1>4, <1>10, <2>1 DEF ByteAt
<1>12. /\ Package.byBlockEndFlag <=> b = Len(bs)
       /\ Package.byDataType = said[m].type /\ Package.byFrameType = said[m].frame
       /\ Package.iActLength = HeaderLen + bs[b]
  BY <1>11 DEF Package, bs
<1>13. PayloadLen = bs[b] /\ p = HeaderLen + bs[b]
  BY <1>2, <1>3, <1>9, <1>12 DEF PayloadLen
<1>14. \A k \in 1 .. n - 1 : Left[k + 1] = NextByte(said, Left[k])
  BY <1>5 DEF LeftInOrder, Linked
<1> DEFINE T == {k \in Nat : k + 1 \in 1 .. p => Left[k + 1] = ByteAt(m, b, (k + 1) - HeaderLen)}
<1>15. 0 \in T
  BY <1>10
<1>16. ASSUME NEW k \in Nat, k \in T PROVE k + 1 \in T
  <2> SUFFICES ASSUME (k + 1) + 1 \in 1 .. p
               PROVE  Left[(k + 1) + 1] = ByteAt(m, b, ((k + 1) + 1) - HeaderLen)
    OBVIOUS
  <2>1. PICK j \in 1 .. n - 1 : j = k + 1 /\ j \in 1 .. p /\ j < p
    BY <1>3, <1>5, <1>6
  <2>2. Left[j] = ByteAt(m, b, j - HeaderLen)
    BY <1>16, <2>1
  <2>3. Left[j + 1] = NextByte(said, Left[j])
    BY <1>14, <2>1
  <2>4. j - HeaderLen < bs[b] /\ (j - HeaderLen) + 1 = (j + 1) - HeaderLen
    BY <1>2, <1>9, <1>13, <2>1
  <2>5. NextByte(said, ByteAt(m, b, j - HeaderLen)) = ByteAt(m, b, (j + 1) - HeaderLen)
    BY <2>4 DEF NextByte, ByteAt, bs
  <2> QED BY <2>1, <2>2, <2>3, <2>5
<1>17. \A k \in 1 .. p : Left[k] = ByteAt(m, b, k - HeaderLen)
  <2> HIDE DEF T
  <2>1. Nat \subseteq T
    BY <1>15, <1>16, SetInduction
  <2> SUFFICES ASSUME NEW k \in 1 .. p PROVE Left[k] = ByteAt(m, b, k - HeaderLen)
    OBVIOUS
  <2>2. PICK j \in Nat : j + 1 = k
    BY <1>3
  <2>3. j \in T
    BY <2>1
  <2> QED BY <2>2, <2>3 DEF T
<1> HIDE DEF T
<1>18. Payload = BlockBytes(bs, m, b)
  <2>1. PICK l \in Nat : l = bs[b]
    BY <1>9
  <2>2. Payload = SubSeq(input, HeaderLen + 1, HeaderLen + l)
    BY <1>13, <2>1 DEF Payload
  <2>3. Payload \in Seq(KnownByte) /\ Len(Payload) = l
        /\ \A i \in 1 .. l : Payload[i] = input[HeaderLen + i]
    <3>1. HeaderLen + l \in Nat /\ HeaderLen <= HeaderLen + l /\ HeaderLen + l <= Len(input)
          /\ (HeaderLen + l) - HeaderLen = l
      BY <1>2, <1>3, <1>13, <2>1
    <3> QED BY <1>2, <2>2, <3>1, Buffers, Between, SMTT(30)
  <2>4. \A i \in 1 .. l : input[HeaderLen + i] = ByteAt(m, b, i)
    <3> SUFFICES ASSUME NEW i \in 1 .. l PROVE input[HeaderLen + i] = ByteAt(m, b, i)
      OBVIOUS
    <3>1. HeaderLen + i \in 1 .. p /\ HeaderLen + i \in 1 .. Len(input)
          /\ (HeaderLen + i) - HeaderLen = i
      BY <1>2, <1>3, <1>13, <2>1, SMTT(30)
    <3> QED BY <1>4, <1>17, <3>1
  <2>5. Payload = [i \in 1 .. l |-> ByteAt(m, b, i)]
    <3>1. Payload = [i \in 1 .. l |-> Payload[i]]
      BY <2>3, LenProperties
    <3> HIDE DEF Payload
    <3> QED BY <2>3, <2>4, <3>1
  <2> QED BY <2>1, <2>5 DEF BlockBytes
<1>19. /\ Left' = SubSeq(Left, p + 1, n) /\ Left' \in Seq(KnownByte) /\ Len(Left') = n - p
       /\ \A k \in 1 .. n - p : Left'[k] = Left[p + k]
  <2>1. PICK a \in Nat, w \in Nat : a = Len(input) /\ w = Len(wire)
    BY <1>2
  <2>2. a + w = n /\ p <= a
    BY <1>3, <1>4, <1>5, <2>1
  <2> DEFINE r == SubSeq(input, p + 1, a)
             q == SubSeq(Left, p + 1, n)
  <2>3. r \in Seq(KnownByte) /\ Len(r) = a - p /\ \A k \in 1 .. a - p : r[k] = input[p + k]
    BY <2>1, <2>2, Buffers, Between
  <2>4. q \in Seq(KnownByte) /\ Len(q) = n - p /\ \A k \in 1 .. n - p : q[k] = Left[p + k]
    BY <1>4, <1>5, <1>6, Between
  <2>5. Left' = r \o wire
    BY <1>1, <1>3, <2>1 DEF Left
  <2>6. /\ r \o wire \in Seq(KnownByte) /\ Len(r \o wire) = n - p
        /\ \A k \in 1 .. n - p :
             (r \o wire)[k] = IF k <= a - p THEN r[k] ELSE wire[k - (a - p)]
    <3> HIDE DEF r
    <3>1. Len(r) + Len(wire) = n - p
      BY <2>1, <2>2, <2>3
    <3>2. r \in Seq(KnownByte) /\ wire \in Seq(KnownByte) /\ Len(r) = a - p
      BY <2>3, Buffers
    <3> QED BY <3>1, <3>2, ConcatProperties
  <2>7. \A k \in 1 .. n : Left[k] = IF k <= a THEN input[k] ELSE wire[k - a]
    BY <2>1, <2>2, Buffers, ConcatProperties DEF Left
  <2> HIDE DEF r, q
  <2>8. ASSUME NEW k \in 1 .. n - p PROVE (r \o wire)[k] = q[k]
    <3>1. p + k \in 1 .. n
      OBVIOUS
    <3>2. CASE k <= a - p
      <4>1. k \in 1 .. a - p /\ p + k <= a
        BY <2>2, <3>2
      <4> QED BY <2>3, <2>4, <2>6, <2>7, <3>1, <3>2, <4>1
    <3>3. CASE ~(k <= a - p)
      <4>1. ~(p + k <= a) /\ (p + k) - a = k - (a - p)
        BY <2>2, <3>3
      <4> QED BY <2>4, <2>6, <2>7, <3>1, <3>3, <4>1
    <3> QED BY <3>2, <3>3
  <2>9. r \o wire = q
    BY <2>4, <2>6, <2>8, SeqEqual
  <2> QED BY <2>4, <2>5, <2>9 DEF q
<1>20. Linked(said, Left')
  <2> SUFFICES ASSUME NEW k \in 1 .. (n - p) - 1 PROVE Left'[k + 1] = NextByte(said, Left'[k])
    BY <1>19 DEF Linked
  <2>1. k \in 1 .. n - p /\ k + 1 \in 1 .. n - p /\ p + k \in 1 .. n - 1
        /\ (p + k) + 1 = p + (k + 1)
    BY <1>3, <1>5, SMTT(30)
  <2> QED BY <1>14, <1>19, <2>1
<1>21. Left[p] = ByteAt(m, b, bs[b])
  <2>1. p \in 1 .. p /\ p - HeaderLen = bs[b]
    BY <1>2, <1>3, <1>9, <1>13
  <2> QED BY <1>17, <2>1
<1>22. CASE p = n
  <2>1. Left[p] = LastByte(said)
    BY <1>5, <1>6, <1>22 DEF LeftInOrder
  <2>2. m = Len(said) /\ b = Len(bs)
    BY <1>21, <2>1 DEF LastByte, ByteAt, bs
  <2>3. Left' = <<>>
    <3>1. Len(Left') = 0
      BY <1>5, <1>19, <1>22
    <3> QED BY <1>19, <3>1, EmptySeq
  <2>4. LeftInOrder'
    BY <1>1, <1>20, <2>3 DEF LeftInOrder
  <2>5. NextMessage' = m + 1 /\ NextBlock' = 1
    BY <1>1, <2>2, <2>3 DEF NextMessage, NextBlock
  <2> QED BY <1>1, <1>7, <1>8, <1>12, <1>18, <2>2, <2>4, <2>5 DEF bs
<1>23. CASE p # n
  <2>1. p \in 1 .. n - 1 /\ 1 \in 1 .. n - p /\ n - p \in 1 .. n - p /\ p + (n - p) = n
    BY <1>3, <1>5, <1>6, <1>23
  <2>2. Left'[1] = NextByte(said, ByteAt(m, b, bs[b])) /\ Left' # <<>>
    <3>1. Left'[1] = Left[p + 1]
      BY <1>19, <2>1
    <3>2. Left' # <<>>
      <4>1. Len(Left') # 0
        BY <1>19, <2>1
      <4> QED BY <4>1, EmptySeq
    <3> QED BY <1>14, <1>21, <2>1, <3>1, <3>2
  <2>3. Left'[1] = IF b < Len(bs) THEN ByteAt(m, b + 1, 1 - HeaderLen)
                   ELSE ByteAt(m + 1, 1, 1 - HeaderLen)
    <3>1. ~(bs[b] < bs[b])
      BY <1>9
    <3> QED BY <2>2, <3>1 DEF NextByte, ByteAt, bs
  <2>4. LeftInOrder'
    <3>1. Left'[Len(Left')] = LastByte(said)
      <4>1. Left'[n - p] = Left[p + (n - p)]
        BY <1>19, <2>1
      <4> QED BY <1>5, <1>6, <1>19, <2>1, <4>1 DEF LeftInOrder
    <3>2. Left'[1].i = 1 - HeaderLen
      BY <2>3 DEF ByteAt
    <3> QED BY <1>1, <1>20, <3>1, <3>2 DEF LeftInOrder
  <2>5. IF b = Len(bs) THEN NextMessage' = m + 1 /\ NextBlock' = 1
        ELSE NextMessage' = m /\ NextBlock' = b + 1
    <3>1. b < Len(bs) <=> b # Len(bs)
      BY <1>8, <1>9
    <3>2. NextMessage' = Left'[1].m /\ NextBlock' = Left'[1].b
      BY <2>2 DEF NextMessage, NextBlock
    <3> QED BY <2>3, <3>1, <3>2 DEF ByteAt
  <2> QED BY <1>1, <1>7, <1>8, <1>12, <1>18, <2>4, <2>5 DEF bs
<1> QED BY <1>22, <1>23

LEMMA SourceStarts == IntakeInit => SourceInv
<1> SUFFICES ASSUME IntakeInit PROVE SourceInv
  OBVIOUS
<1>1. /\ phase = "connecting" /\ asked = NoCommand /\ said = <<>> /\ wire = <<>> /\ input = <<>>
      /\ data = <<>> /\ replyText = <<>> /\ started = FALSE /\ frames = <<>>
      /\ callback = "idle"
  BY DEF IntakeInit
<1>2. Left = <<>> /\ Len(Left) = 0 /\ Len(said) = 0 /\ Len(replyText) = 0
  BY <1>1 DEF Left
<1>3. NextMessage = 1 /\ NextBlock = 1
  BY <1>2 DEF NextMessage, NextBlock
<1>4. LeftInOrder
  BY <1>2 DEF LeftInOrder, Linked
<1>5. frames \in Seq(FrameUnit)
  BY <1>1
<1>6. DataSoFar /\ AnswerFirst /\ ReplySoFar
  BY <1>1, <1>2, <1>3 DEF DataSoFar, AnswerFirst, ReplySoFar
<1>7. StartedByKeyFrame /\ CommandSplit /\ ReplyHeard /\ FramesWhole
  BY <1>1 DEF StartedByKeyFrame, CommandSplit, ReplyHeard, FramesWhole
<1> QED BY <1>4, <1>5, <1>6, <1>7, IntakeStarts DEF SourceInv

\* The frames that are due, while no message is taken.
LEMMA SameDue ==
  ASSUME IntakeInv, NextMessage' = NextMessage,
         \A k \in 1 .. Len(said) : said'[k] = said[k]
  PROVE  /\ Taken' = Taken /\ Due' = Due /\ \A k \in Taken : said'[k] = said[k]
         /\ \A k \in Due : PayloadOf(k)' = PayloadOf(k)
<1>1. \A k \in Taken : k \in 1 .. Len(said)
  <2>1. NextMessage \in Nat /\ NextMessage <= Len(said) + 1 /\ Len(said) \in Nat
    <3>1. Left = <<>> => NextMessage = Len(said) + 1
      BY DEF NextMessage
    <3> QED BY <3>1, LeftFacts
  <2> QED BY <2>1 DEF Taken
<1>2. Taken' = Taken /\ \A k \in Taken : said'[k] = said[k]
  BY <1>1 DEF Taken
<1>3. Due' = Due
  BY <1>2 DEF Due
<1>4. \A k \in Due : PayloadOf(k)' = PayloadOf(k)
  BY <1>2 DEF Due, PayloadOf
<1> QED BY <1>2, <1>3, <1>4

\* What holds on when nothing is said or taken.
LEMMA NothingTaken ==
  ASSUME SourceInv, IntakeInv', said' = said, Left' = Left,
         data' = data, frames' = frames, started' = started,
         phase' = phase \/ (phase = "connecting" /\ phase' = "cmd"),
         CommandSplit', ReplySoFar'
  PROVE  SourceInv'
<1>1. NextMessage' = NextMessage /\ NextBlock' = NextBlock
  BY DEF NextMessage, NextBlock
<1>2. Taken' = Taken /\ Due' = Due /\ \A k \in Due : PayloadOf(k)' = PayloadOf(k)
  BY <1>1, SameDue DEF SourceInv
<1>3. LeftInOrder'
  BY DEF SourceInv, LeftInOrder
<1>4. DataSoFar' /\ AnswerFirst'
  BY <1>1 DEF SourceInv, DataSoFar, AnswerFirst
<1>5. StartedByKeyFrame' /\ ReplyHeard'
  BY <1>2 DEF SourceInv, StartedByKeyFrame, ReplyHeard
<1>6. FramesWhole'
  BY <1>2 DEF SourceInv, FramesWhole
<1>7. (frames \in Seq(FrameUnit))'
  BY DEF SourceInv, FrameUnit, Byte
<1> QED BY <1>3, <1>4, <1>5, <1>6, <1>7 DEF SourceInv

LEMMA ConnectedKeepsSource ==
  ASSUME SourceInv, NEW c \in 0 .. MaxCommand, Connected(c) PROVE SourceInv'
<1>1. /\ phase = "connecting" /\ phase' = "cmd" /\ asked' = [command |-> c, blocks |-> Split(c)]
      /\ UNCHANGED <<said, wire, input, suspended, callback, data, replyText, started, frames>>
  BY DEF Connected, inputVars, sourceVars
<1>2. IntakeInv'
  BY ConnectedKeeps DEF SourceInv
<1>3. CommandSplit'
  <2>1. c \in Nat
    OBVIOUS
  <2> QED BY <1>1, <2>1 DEF CommandSplit, Split, BlockCount, LastLength
<1>4. ReplySoFar'
  BY <1>1 DEF SourceInv, ReplySoFar
<1>5. Left' = Left
  BY <1>1 DEF Left
<1> QED BY <1>1, <1>2, <1>3, <1>4, <1>5, NothingTaken

LEMMA SocketReadKeepsSource == ASSUME SourceInv, SocketRead PROVE SourceInv'
<1>1. PICK n \in 1 .. Len(wire) :
        input' = input \o SubSeq(wire, 1, n) /\ wire' = SubSeq(wire, n + 1, Len(wire))
  BY DEF SocketRead
<1>2. /\ UNCHANGED <<phase, asked, said, data, replyText, started, frames>>
      /\ callback' # "running"
  BY DEF SocketRead, sourceVars
<1>3. IntakeInv'
  BY SocketReadKeeps DEF SourceInv
<1>4. Left' = Left
  <2>1. wire \in Seq(KnownByte) /\ input \in Seq(KnownByte) /\ Len(wire) \in Nat
    BY Buffers DEF SourceInv
  <2>2. SubSeq(wire, 1, n) \o SubSeq(wire, n + 1, Len(wire)) = wire
    <3>1. PICK w \in Nat : w = Len(wire)
      BY <2>1
    <3>2. n \in 1 .. w
      BY <3>1
    <3> DEFINE a == SubSeq(wire, 1, n)
               b == SubSeq(wire, n + 1, w)
    <3>3. a \in Seq(KnownByte) /\ Len(a) = n /\ \A k \in 1 .. n : a[k] = wire[k]
      <4>1. 0 \in Nat /\ 0 <= n /\ n <= Len(wire) /\ n - 0 = n /\ 0 + 1 = 1 /\ n \in Nat
        BY <3>1, <3>2
      <4>2. /\ SubSeq(wire, 0 + 1, n) \in Seq(KnownByte) /\ Len(SubSeq(wire, 0 + 1, n)) = n - 0
            /\ \A k \in 1 .. n - 0 : SubSeq(wire, 0 + 1, n)[k] = wire[0 + k]
        BY <2>1, <4>1, Between
      <4>3. \A k \in 1 .. n : 0 + k = k
        OBVIOUS
      <4> QED BY <4>1, <4>2, <4>3
    <3>4. b \in Seq(KnownByte) /\ Len(b) = w - n /\ \A k \in 1 .. w - n : b[k] = wire[n + k]
      BY <2>1, <3>1, <3>2, Between
    <3> HIDE DEF a, b
    <3>5. /\ a \o b \in Seq(KnownByte) /\ Len(a \o b) = w
          /\ \A k \in 1 .. w : (a \o b)[k] = IF k <= n THEN a[k] ELSE b[k - n]
      <4>1. Len(a) + Len(b) = w
        BY <3>2, <3>3, <3>4
      <4> QED BY <3>3, <3>4, <4>1, ConcatProperties
    <3>6. \A k \in 1 .. w : (a \o b)[k] = wire[k]
      <4> SUFFICES ASSUME NEW k \in 1 .. w PROVE (a \o b)[k] = wire[k]
        OBVIOUS
      <4>1. k <= n => k \in 1 .. n
        OBVIOUS
      <4>2. ~(k <= n) => k - n \in 1 .. w - n /\ n + (k - n) = k
        BY <3>2
      <4> QED BY <3>3, <3>4, <3>5, <4>1, <4>2
    <3>7. a \o b = wire
      BY <2>1, <3>1, <3>5, <3>6, SeqEqual
    <3> QED BY <3>1, <3>7 DEF a, b
  <2>3. SubSeq(wire, 1, n) \in Seq(KnownByte) /\ SubSeq(wire, n + 1, Len(wire)) \in Seq(KnownByte)
    BY <2>1
  <2>4. Left' = (input \o SubSeq(wire, 1, n)) \o SubSeq(wire, n + 1, Len(wire))
    BY <1>1 DEF Left
  <2>5. Left' = input \o (SubSeq(wire, 1, n) \o SubSeq(wire, n + 1, Len(wire)))
    <3> DEFINE a == SubSeq(wire, 1, n)
               b == SubSeq(wire, n + 1, Len(wire))
    <3>1. input \in Seq(KnownByte) /\ a \in Seq(KnownByte) /\ b \in Seq(KnownByte)
      BY <2>1, <2>3
    <3> HIDE DEF a, b
    <3>2. (input \o a) \o b = input \o (a \o b)
      BY <3>1, ConcatAssociative, SMTT(30)
    <3> QED BY <2>4, <3>2 DEF a, b
  <2> QED BY <2>2, <2>5 DEF Left
<1>5. CommandSplit' /\ ReplySoFar'
  <2>1. CommandSplit'
    BY <1>2 DEF SourceInv, CommandSplit, Split, BlockCount, LastLength
  <2> QED BY <1>2, <2>1 DEF SourceInv, ReplySoFar
<1> QED BY <1>2, <1>3, <1>4, <1>5, NothingTaken

LEMMA CallbackKeepsSource ==
  ASSUME SourceInv, CallbackBegins \/ CallbackReturns PROVE SourceInv'
<1>1. /\ UNCHANGED <<phase, asked, said, wire, input, data, started, frames>>
      /\ \/ replyText' = replyText /\ callback' = "idle"
         \/ replyText' = IF phase = "cmd" THEN <<>> ELSE replyText
      /\ callback # "idle"
  <2>1. CASE CallbackBegins
    BY <2>1 DEF CallbackBegins, inputVars
  <2>2. CASE CallbackReturns
    BY <2>2 DEF CallbackReturns, inputVars, sourceVars
  <2> QED BY <2>1, <2>2
<1>2. IntakeInv'
  BY CallbackBeginsKeeps, CallbackReturnsKeeps DEF SourceInv
<1>3. CommandSplit'
  BY <1>1 DEF SourceInv, CommandSplit, Split, BlockCount, LastLength
<1>4. ReplySoFar'
  <2>1. phase # "connecting"
    BY <1>1 DEF SourceInv, IntakeInv, CallbackReads
  <2>2. data \in Seq(Byte) /\ Len(data) \in Nat /\ Len(<<>>) = 0
    BY Buffers DEF SourceInv
  <2>3. Len(<<>>) <= Len(data) /\ 1 .. Len(<<>>) = {}
    BY <2>2
  <2> QED BY <1>1, <2>1, <2>3 DEF SourceInv, ReplySoFar
<1>5. Left' = Left
  BY <1>1 DEF Left
<1> QED BY <1>1, <1>2, <1>3, <1>4, <1>5, NothingTaken

LEMMA ClosingKeepsSource ==
  ASSUME SourceInv, ConnectionEnds \/ CallbackBreaks PROVE SourceInv'
<1>1. /\ phase' = "closed" /\ input' = <<>> /\ wire' = <<>>
      /\ UNCHANGED <<asked, said, frames>>
      /\ phase \in {"cmd", "stream"}
  BY DEF ConnectionEnds, CallbackBreaks, sourceVars
<1>2. IntakeInv'
  BY ConnectionEndsKeeps, CallbackBreaksKeeps DEF SourceInv
<1>3. LeftInOrder'
  <2>1. Left' = <<>>
    BY <1>1 DEF Left
  <2>2. Len(Left') = 0
    BY <2>1
  <2> QED BY <2>1, <2>2 DEF LeftInOrder, Linked
<1>4. DataSoFar' /\ ReplySoFar' /\ StartedByKeyFrame' /\ ReplyHeard' /\ FramesWhole'
  BY <1>1 DEF DataSoFar, ReplySoFar, StartedByKeyFrame, ReplyHeard, FramesWhole
<1>5. AnswerFirst' /\ CommandSplit'
  <2>1. CommandSplit'
    BY <1>1 DEF SourceInv, CommandSplit, Split, BlockCount, LastLength
  <2> QED BY <1>1, <2>1 DEF SourceInv, AnswerFirst
<1>6. (frames \in Seq(FrameUnit))'
  BY <1>1 DEF SourceInv, FrameUnit, Byte
<1> QED BY <1>2, <1>3, <1>4, <1>5, <1>6 DEF SourceInv

\* Another message is said.
LEMMA MessageSaid ==
  ASSUME IntakeInv, LeftInOrder, NEW m \in Replies \cup Frames, HbserverSays(m)
  PROVE  /\ LeftInOrder' /\ NextMessage' = NextMessage /\ NextBlock' = NextBlock
         /\ said' \in Seq(Replies \cup Frames) /\ Len(said') = Len(said) + 1
         /\ said'[Len(said) + 1] = m /\ \A k \in 1 .. Len(said) : said'[k] = said[k]
<1>1. /\ said' = Append(said, m) /\ wire' = wire \o BytesOf(m, Len(said) + 1) /\ input' = input
  BY DEF HbserverSays
<1>2. PICK L \in Nat : L = Len(said)
  BY Buffers
<1>3. /\ said' \in Seq(Replies \cup Frames) /\ Len(said') = L + 1
      /\ said'[L + 1] = m /\ \A k \in 1 .. L : said'[k] = said[k]
  BY <1>1, <1>2, Buffers
<1> DEFINE S == said'
           V == KnownIn(S)
           new == BytesOf(m, L + 1)
<1> HIDE DEF S
<1>4. \A k \in 1 .. L : k \in 1 .. L + 1
  BY <1>2
<1>5. KnownByte \subseteq V
  BY <1>2, <1>3, <1>4 DEF KnownByte, KnownIn, S
<1>6. /\ new \in Seq(V) /\ Linked(S, new) /\ new # <<>>
      /\ new[1] = ByteAt(L + 1, 1, 1 - HeaderLen) /\ new[Len(new)] = LastByte(S)
  <2>1. L + 1 \in 1 .. Len(S) /\ S[L + 1] = m /\ S \in Seq(Replies \cup Frames)
    BY <1>2, <1>3 DEF S
  <2>2. /\ new \in Seq(V) /\ Linked(S, new) /\ new # <<>>
        /\ new[1] = ByteAt(L + 1, 1, 1 - HeaderLen)
        /\ new[Len(new)] = ByteAt(L + 1, Len(m.blocks), m.blocks[Len(m.blocks)])
    BY <2>1, MessageBytes
  <2>3. Len(S) = L + 1
    BY <1>3 DEF S
  <2> QED BY <2>1, <2>2, <2>3 DEF LastByte
<1>7. Left \in Seq(KnownByte) /\ Left \in Seq(V)
  <2>1. Left \in Seq(KnownByte)
    BY LeftFacts
  <2> HIDE DEF V
  <2> QED BY <1>5, <2>1, SeqMonotonic
<1> HIDE DEF new, V
<1>8. Left' = Left \o new
  <2>1. wire \in Seq(V) /\ input \in Seq(V)
    BY <1>5, Buffers, SeqMonotonic
  <2>2. (input \o wire) \o new = input \o (wire \o new)
    BY <1>6, <2>1, ConcatAssociative
  <2> QED BY <1>1, <1>2, <2>2 DEF Left, new
<1>9. CASE Left = <<>>
  <2>1. Left' = new
    BY <1>6, <1>8, <1>9, ConcatEmptySeq
  <2>2. LeftInOrder'
    BY <1>6, <2>1 DEF LeftInOrder, S, ByteAt
  <2>3. NextMessage' = L + 1 /\ NextBlock' = 1
    BY <1>6, <2>1 DEF NextMessage, NextBlock, ByteAt
  <2>4. NextMessage = L + 1 /\ NextBlock = 1
    BY <1>2, <1>9 DEF NextMessage, NextBlock
  <2> QED BY <1>2, <1>3, <2>2, <2>3, <2>4
<1>10. CASE Left # <<>>
  <2>1. PICK n \in Nat \ {0} : n = Len(Left)
    BY <1>7, <1>10, EmptySeq
  <2>2. ASSUME NEW x \in KnownByte PROVE NextByte(S, x) = NextByte(said, x)
    <3>1. x.m \in 1 .. L
      BY <1>2 DEF KnownByte, KnownIn
    <3> QED BY <1>3, <3>1 DEF NextByte, S
  <2>3. Linked(S, Left)
    <3>1. \A k \in 1 .. n - 1 : k \in 1 .. Len(Left)
      BY <2>1
    <3>2. \A k \in 1 .. n - 1 : Left[k] \in KnownByte
      BY <1>7, <3>1, ElementOfSeq
    <3> QED BY <2>1, <2>2, <3>2 DEF LeftInOrder, Linked
  <2>4. new[1] = NextByte(S, Left[n])
    <3>1. Left[n] = LastByte(said) /\ Left[n] \in KnownByte
      <4>1. n \in 1 .. Len(Left)
        BY <2>1
      <4> QED BY <1>7, <1>10, <2>1, <4>1, ElementOfSeq DEF LeftInOrder
    <3>2. NextByte(S, Left[n]) = NextByte(said, LastByte(said))
      BY <2>2, <3>1
    <3>3. L \in 1 .. Len(said)
      <4>1. Left[n].m \in 1 .. L
        BY <1>2, <3>1 DEF KnownByte, KnownIn
      <4> QED BY <1>2, <4>1
    <3>4. Len(said[L].blocks) \in Nat
          /\ \A b \in 1 .. Len(said[L].blocks) : said[L].blocks[b] \in Nat
      BY <3>3, BlocksAre, Buffers, Marks
    <3>5. PICK b \in Nat : b = Len(said[L].blocks)
      BY <3>4
    <3>6. b \in 1 .. Len(said[L].blocks)
      BY <3>1, <3>5, <1>2 DEF LastByte, ByteAt, KnownByte, KnownIn
    <3>7. said[L].blocks[b] \in Nat
      BY <3>4, <3>6
    <3>8. ~(said[L].blocks[b] < said[L].blocks[b]) /\ ~(b < b)
      BY <3>7
    <3>9. NextByte(said, LastByte(said)) = ByteAt(L + 1, 1, 1 - HeaderLen)
      BY <1>2, <3>5, <3>8 DEF NextByte, LastByte, ByteAt
    <3> QED BY <1>6, <3>2, <3>9
  <2>5. /\ Linked(S, Left \o new) /\ Left \o new # <<>>
        /\ (Left \o new)[1] = Left[1] /\ (Left \o new)[Len(Left \o new)] = new[Len(new)]
    BY <1>6, <1>7, <1>10, <2>1, <2>3, <2>4, LinkedJoin
  <2>6. LeftInOrder'
    BY <1>6, <1>8, <1>10, <2>5 DEF LeftInOrder, S
  <2>7. NextMessage' = NextMessage /\ NextBlock' = NextBlock
    BY <1>8, <1>10, <2>5 DEF NextMessage, NextBlock
  <2> QED BY <1>2, <1>3, <2>6, <2>7
<1> QED BY <1>9, <1>10

LEMMA HbserverSaysKeepsSource ==
  ASSUME SourceInv, NEW m \in Replies \cup Frames, HbserverSays(m) PROVE SourceInv'
<1>1. /\ phase \in {"cmd", "stream"} /\ (said = <<>> => m \in Replies)
      /\ asked' = NoCommand
      /\ UNCHANGED <<phase, callback, data, replyText, started, frames>>
  BY DEF HbserverSays, sourceVars
<1>2. IntakeInv /\ LeftInOrder /\ IntakeInv'
  BY HbserverSaysKeeps DEF SourceInv
<1>3. /\ LeftInOrder' /\ NextMessage' = NextMessage /\ NextBlock' = NextBlock
      /\ said' \in Seq(Replies \cup Frames) /\ Len(said') = Len(said) + 1
      /\ said'[Len(said) + 1] = m /\ \A k \in 1 .. Len(said) : said'[k] = said[k]
  BY <1>2, MessageSaid
<1>4. /\ Taken' = Taken /\ Due' = Due /\ \A k \in Taken : said'[k] = said[k]
      /\ \A k \in Due : PayloadOf(k)' = PayloadOf(k)
  BY <1>2, <1>3, SameDue
<1>5. Len(said) \in Nat /\ (said # <<>> => 1 \in 1 .. Len(said)) /\ (said = <<>> => Len(said) = 0)
  <2>1. said \in Seq(Replies \cup Frames)
    BY <1>2, Buffers
  <2> QED BY <2>1, EmptySeq, LenProperties
<1>6. DataSoFar'
  <2>1. CASE NextBlock = 1
    BY <1>1, <1>3, <2>1 DEF SourceInv, DataSoFar
  <2>2. CASE NextBlock # 1
    <3>1. Left # <<>>
      BY <2>2 DEF NextBlock
    <3>2. NextMessage \in 1 .. Len(said)
      BY <1>2, <3>1, LeftFacts
    <3>3. said'[NextMessage] = said[NextMessage]
      BY <1>3, <3>2
    <3> QED BY <1>1, <1>3, <2>2, <3>3 DEF SourceInv, DataSoFar
  <2> QED BY <2>1, <2>2
<1>7. AnswerFirst'
  <2>1. said'[1] \in Replies
    <3>1. CASE said = <<>>
      BY <1>1, <1>3, <1>5, <3>1
    <3>2. CASE said # <<>>
      BY <1>3, <1>5, <3>2 DEF SourceInv, AnswerFirst
    <3> QED BY <3>1, <3>2
  <2> QED BY <1>1, <1>3, <2>1 DEF SourceInv, AnswerFirst
<1>8. ReplySoFar' /\ CommandSplit'
  BY <1>1 DEF SourceInv, ReplySoFar, CommandSplit, NoCommand
<1>9. StartedByKeyFrame'
  BY <1>1, <1>4 DEF SourceInv, StartedByKeyFrame
<1>10. ReplyHeard'
  <2> SUFFICES ASSUME phase = "stream" PROVE said'[1].success # <<0, 0>>
    BY <1>1 DEF ReplyHeard
  <2>1. NextMessage >= 2 /\ NextMessage \in Nat
    BY <1>2, LeftFacts DEF SourceInv, AnswerFirst
  <2>2. NextMessage <= Len(said) + 1
    <3>1. Left = <<>> => NextMessage = Len(said) + 1
      BY DEF NextMessage
    <3> QED BY <1>2, <1>5, <3>1, LeftFacts
  <2>3. 1 \in 1 .. Len(said)
    BY <1>5, <2>1, <2>2
  <2> QED BY <1>3, <2>3 DEF SourceInv, ReplyHeard
<1>11. FramesWhole'
  BY <1>1, <1>4 DEF SourceInv, FramesWhole
<1>12. (frames \in Seq(FrameUnit))'
  BY <1>1 DEF SourceInv, FrameUnit, Byte
<1> QED BY <1>2, <1>3, <1>6, <1>7, <1>8, <1>9, <1>10, <1>11, <1>12 DEF SourceInv

\* What a message has brought with the block that is taken.
LEMMA ReceivedIs ==
  ASSUME SourceInv, NEW ph, TakeBlock(ph)
  PROVE  /\ phase \in {"cmd", "stream"} /\ callback = "running"
         /\ Received = PayloadTo(said[NextMessage].blocks, NextMessage, NextBlock)
         /\ Received \in Seq(Byte) /\ Payload \in Seq(Byte)
         /\ Len(Received) = Len(data) + Len(Payload)
<1>1. /\ NextMessage \in 1 .. Len(said)
      /\ NextBlock \in 1 .. Len(said[NextMessage].blocks)
      /\ Payload = BlockBytes(said[NextMessage].blocks, NextMessage, NextBlock)
  BY BlockTaken DEF SourceInv
<1>2. callback = "running" /\ phase \in {"cmd", "stream"}
  BY Taking DEF SourceInv, IntakeInv, CallbackReads
<1>3. PICK m \in Nat : m = NextMessage /\ m \in 1 .. Len(said)
  BY <1>1
<1> DEFINE bs == said[m].blocks
<1>4. bs \in Seq(Nat) /\ NextBlock \in 1 .. Len(bs) /\ Len(bs) \in Nat
  <2>1. said[m] \in Replies \cup Frames
    BY <1>3, Buffers, ElementOfSeq DEF SourceInv
  <2>2. bs \in Seq(0 .. NetBufferLen) /\ 0 .. NetBufferLen \subseteq Nat
    BY <2>1, IntakeAssumption
  <2> HIDE DEF bs
  <2>3. bs \in Seq(Nat)
    BY <2>2, SeqMonotonic
  <2> QED BY <1>1, <1>3, <2>3, LenProperties DEF bs
<1> HIDE DEF bs
<1>5. PICK b \in 1 .. Len(bs) : b = NextBlock
  BY <1>4
<1>6. /\ PayloadTo(bs, m, 0) = <<>>
      /\ PayloadTo(bs, m, b) = PayloadTo(bs, m, b - 1) \o Payload
      /\ Payload \in Seq(Byte)
  BY <1>1, <1>3, <1>4, <1>5, PayloadSteps DEF bs
<1>7. data = PayloadTo(bs, m, b - 1)
  <2>1. data = IF b = 1 THEN <<>> ELSE PayloadTo(bs, m, b - 1)
    BY <1>2, <1>3, <1>5 DEF SourceInv, DataSoFar, bs
  <2>2. b = 1 => b - 1 = 0
    OBVIOUS
  <2> QED BY <1>6, <2>1, <2>2
<1>8. data \in Seq(Byte)
  BY Buffers DEF SourceInv
<1>9. Received = PayloadTo(bs, m, b)
  BY <1>6, <1>7 DEF Received
<1>10. Received \in Seq(Byte) /\ Len(Received) = Len(data) + Len(Payload)
  BY <1>6, <1>8, ConcatProperties DEF Received
<1> QED BY <1>2, <1>3, <1>5, <1>6, <1>9, <1>10 DEF bs

\* What strstr sees of the answer with that block.
LEMMA ReplyTextIs ==
  ASSUME SourceInv, phase = "cmd", NEW ph, TakeBlock(ph)
  PROVE  /\ \A k \in 1 .. Len(ReplyTextNow) : ReplyTextNow[k].m = 1 /\ ReplyTextNow[k].b >= 1
         /\ Len(ReplyTextNow) <= Len(Received)
         /\ NextBlock = 1 => ReplyTextNow = Payload
<1>1. /\ callback = "running" /\ Payload \in Seq(Byte)
      /\ Len(Received) = Len(data) + Len(Payload)
  BY ReceivedIs
<1>2. /\ NextMessage = 1 /\ \A k \in 1 .. Len(replyText) : replyText[k].m = 1 /\ replyText[k].b >= 1
      /\ Len(replyText) <= Len(data)
      /\ NextBlock = 1 => data = <<>>
  BY <1>1 DEF SourceInv, AnswerFirst, ReplySoFar, DataSoFar
<1>3. PICK r \in Nat : r = Len(replyText)
  BY Buffers, LenProperties DEF SourceInv
<1>4. PICK p \in Nat : p = Len(Payload)
  BY <1>1, LenProperties
<1>5. PICK d \in Nat : d = Len(data)
  BY Buffers, LenProperties DEF SourceInv
<1>6. \A i \in 1 .. p : Payload[i].m = 1 /\ Payload[i].b >= 1
  <2>1. /\ NextBlock \in Nat /\ NextBlock >= 1
        /\ Payload = [i \in 1 .. said[1].blocks[NextBlock] |-> ByteAt(1, NextBlock, i)]
    <3>1. NextBlock \in 1 .. Len(said[NextMessage].blocks)
          /\ Payload = BlockBytes(said[NextMessage].blocks, NextMessage, NextBlock)
      BY BlockTaken DEF SourceInv
    <3> QED BY <1>2, <3>1 DEF BlockBytes
  <2>2. DOMAIN Payload = 1 .. p
    BY <1>1, <1>4, LenProperties
  <2> QED BY <2>1, <2>2 DEF ByteAt
<1>7. replyText \in Seq(Byte)
  BY Buffers DEF SourceInv
<1>8. CASE ReplyTextNow = replyText \o Payload /\ r = d
  <2>1. /\ Len(ReplyTextNow) = r + p
        /\ \A k \in 1 .. r + p : ReplyTextNow[k] = IF k <= r THEN replyText[k] ELSE Payload[k - r]
    <3> DEFINE j == replyText \o Payload
    <3>1. /\ Len(j) = Len(replyText) + Len(Payload)
          /\ \A k \in 1 .. Len(replyText) + Len(Payload) :
               j[k] = IF k <= Len(replyText) THEN replyText[k] ELSE Payload[k - Len(replyText)]
      BY <1>1, <1>7, ConcatProperties
    <3> HIDE DEF j
    <3>2. /\ Len(j) = r + p
          /\ \A k \in 1 .. r + p : j[k] = IF k <= r THEN replyText[k] ELSE Payload[k - r]
      BY <1>3, <1>4, <3>1
    <3>3. ReplyTextNow = j
      BY <1>8 DEF j
    <3> QED BY <3>2, <3>3
  <2>2. ASSUME NEW k \in 1 .. r + p PROVE ReplyTextNow[k].m = 1 /\ ReplyTextNow[k].b >= 1
    <3>1. CASE k <= r
      <4>1. k \in 1 .. r
        BY <3>1
      <4> QED BY <1>2, <1>3, <2>1, <3>1, <4>1
    <3>2. CASE ~(k <= r)
      <4>1. k - r \in 1 .. p
        BY <3>2
      <4> QED BY <1>6, <2>1, <3>2, <4>1
    <3> QED BY <3>1, <3>2
  <2>3. Len(ReplyTextNow) <= Len(Received)
    BY <1>1, <1>4, <1>5, <1>8, <2>1
  <2>4. NextBlock = 1 => ReplyTextNow = Payload
    <3> SUFFICES ASSUME NextBlock = 1 PROVE ReplyTextNow = Payload
      OBVIOUS
    <3>1. d = 0
      BY <1>2, <1>5
    <3>2. replyText = <<>>
      BY <1>3, <1>7, <1>8, <3>1, EmptySeq
    <3> QED BY <1>1, <1>8, <3>2, ConcatEmptySeq
  <2> QED BY <2>1, <2>2, <2>3, <2>4
<1>9. CASE ReplyTextNow = replyText /\ r # d
  <2>1. Len(ReplyTextNow) <= Len(Received)
    BY <1>1, <1>2, <1>3, <1>4, <1>5, <1>9
  <2>2. NextBlock # 1
    <3> SUFFICES ASSUME NextBlock = 1 PROVE FALSE
      OBVIOUS
    <3>1. d = 0
      BY <1>2, <1>5
    <3> QED BY <1>2, <1>3, <1>5, <1>9, <3>1
  <2> QED BY <1>2, <1>9, <2>1, <2>2
<1> QED BY <1>3, <1>5, <1>8, <1>9 DEF ReplyTextNow

LEMMA MiddleBlockKeepsSource == ASSUME SourceInv, MiddleBlock PROVE SourceInv'
<1>1. /\ TakeBlock(phase) /\ ~Package.byBlockEndFlag /\ data' = Received
      /\ replyText' = IF phase = "cmd" THEN ReplyTextNow ELSE replyText
      /\ UNCHANGED <<phase, callback, started, frames>>
  BY DEF MiddleBlock
<1>2. IntakeInv'
  BY MiddleBlockKeeps DEF SourceInv
<1>3. asked' = asked /\ said' = said
  BY <1>1 DEF TakeBlock
<1>4. /\ LeftInOrder' /\ NextMessage' = NextMessage /\ NextBlock' = NextBlock + 1
      /\ NextBlock \in Nat /\ NextBlock >= 1
  <2>1. NextBlock \in 1 .. Len(said[NextMessage].blocks)
    BY <1>1, BlockTaken DEF SourceInv
  <2> QED BY <1>1, <2>1, BlockTaken DEF SourceInv
<1>5. /\ Taken' = Taken /\ Due' = Due /\ \A k \in Due : PayloadOf(k)' = PayloadOf(k)
  BY <1>3, <1>4, SameDue DEF SourceInv
<1>6. DataSoFar'
  <2>1. NextBlock' # 1 /\ NextBlock' - 1 = NextBlock
    BY <1>4
  <2>2. data' = PayloadTo(said[NextMessage].blocks, NextMessage, NextBlock)
    BY <1>1, ReceivedIs
  <2> QED BY <1>3, <1>4, <2>1, <2>2 DEF DataSoFar
<1>7. AnswerFirst'
  BY <1>1, <1>3, <1>4 DEF SourceInv, AnswerFirst
<1>8. ReplySoFar'
  <2>1. phase = "cmd" => /\ \A k \in 1 .. Len(replyText') : replyText'[k].m = 1 /\ replyText'[k].b >= 1
                         /\ Len(replyText') <= Len(data')
    BY <1>1, ReplyTextIs
  <2>2. phase \in {"cmd", "stream"}
    BY <1>1, ReceivedIs
  <2> QED BY <1>1, <2>1, <2>2 DEF ReplySoFar
<1>9. StartedByKeyFrame' /\ ReplyHeard'
  BY <1>1, <1>3, <1>5 DEF SourceInv, StartedByKeyFrame, ReplyHeard
<1>10. FramesWhole' /\ (frames \in Seq(FrameUnit))'
  BY <1>1, <1>5 DEF SourceInv, FramesWhole, FrameUnit, Byte
<1>11. CommandSplit'
  BY <1>3 DEF SourceInv, CommandSplit, Split, BlockCount, LastLength
<1> QED BY <1>2, <1>4, <1>6, <1>7, <1>8, <1>9, <1>10, <1>11 DEF SourceInv

LEMMA ReplyKeepsSource ==
  ASSUME SourceInv, ReplyAccepted \/ ReplyRefused PROVE SourceInv'
<1>1. /\ phase = "cmd" /\ Package.byBlockEndFlag /\ callback' = "idle"
      /\ \/ TakeBlock("stream") /\ Successful /\ phase' = "stream" /\ data' = <<>>
         \/ TakeBlock("cmd") /\ ~Successful /\ phase' = "refused"
      /\ UNCHANGED <<started, frames>>
  BY DEF ReplyAccepted, ReplyRefused, AfterReply
<1>2. PICK ph : TakeBlock(ph)
  BY <1>1
<1>3. IntakeInv'
  BY ReplyKeeps DEF SourceInv
<1>4. asked' = asked /\ said' = said
  BY <1>2 DEF TakeBlock
<1>5. /\ LeftInOrder' /\ NextMessage' = NextMessage + 1 /\ NextBlock' = 1
      /\ NextMessage \in 1 .. Len(said) /\ NextBlock = Len(said[NextMessage].blocks)
      /\ Payload = BlockBytes(said[NextMessage].blocks, NextMessage, NextBlock)
  BY <1>1, <1>2, BlockTaken DEF SourceInv
<1>6. NextMessage = 1 /\ NextMessage' = 2 /\ frames = <<>> /\ ~started
  BY <1>1, <1>5 DEF SourceInv, AnswerFirst
<1>7. /\ \A k \in 1 .. Len(ReplyTextNow) : ReplyTextNow[k].m = 1 /\ ReplyTextNow[k].b >= 1
      /\ NextBlock = 1 => ReplyTextNow = Payload
  BY <1>1, <1>2, ReplyTextIs
<1>8. 1 \in 1 .. Len(said) /\ said # <<>> /\ said[1] \in Replies
  <2>1. said \in Seq(Replies \cup Frames)
    BY Buffers DEF SourceInv
  <2>2. 1 \in 1 .. Len(said) /\ said # <<>>
    BY <1>5, <1>6, EmptySeq
  <2> QED BY <2>2 DEF SourceInv, AnswerFirst
<1>9. CommandSplit'
  BY <1>4 DEF SourceInv, CommandSplit, Split, BlockCount, LastLength
<1>10. (frames \in Seq(FrameUnit))'
  BY <1>1 DEF SourceInv, FrameUnit, Byte
<1>11. AnswerFirst'
  BY <1>1, <1>4, <1>6, <1>8 DEF AnswerFirst
<1>12. CASE phase' = "stream"
  <2>1. Successful /\ data' = <<>>
    BY <1>1, <1>12
  <2>2. PICK k \in 1 .. Len(ReplyTextNow) :
          said[ReplyTextNow[k].m].success = <<ReplyTextNow[k].b, ReplyTextNow[k].i>>
    BY <2>1 DEF Successful
  <2>3. ReplyHeard'
    <3>1. ReplyTextNow[k].m = 1 /\ ReplyTextNow[k].b >= 1
      BY <1>7
    <3>2. ReplyTextNow[k].b # 0
      BY <3>1
    <3>3. said[1].success # <<0, 0>>
      BY <2>2, <3>1, <3>2
    <3> QED BY <1>4, <1>12, <3>3 DEF ReplyHeard
  <2>4. Taken' = {}
    BY <1>6 DEF Taken
  <2>5. StartedByKeyFrame'
    BY <1>1, <1>6, <2>4 DEF StartedByKeyFrame
  <2>6. FramesWhole'
    <3>1. Due' = {}
      BY <2>4 DEF Due
    <3>2. Cardinality(Due') = 0 /\ Len(frames') = 0
      BY <1>1, <1>6, <3>1, FS_EmptySet
    <3> QED BY <3>1, <3>2 DEF FramesWhole
  <2>7. DataSoFar' /\ ReplySoFar'
    BY <1>5, <1>12, <2>1 DEF DataSoFar, ReplySoFar
  <2> QED BY <1>3, <1>5, <1>9, <1>10, <1>11, <2>3, <2>5, <2>6, <2>7 DEF SourceInv
<1>13. CASE phase' = "refused"
  <2>1. ~Successful
    BY <1>1, <1>13
  <2>2. ReplyHeard'
    <3> SUFFICES ASSUME said[1].success # <<0, 0>>, ~(Len(said[1].blocks) > 1) PROVE FALSE
      BY <1>4, <1>13 DEF ReplyHeard
    <3>1. Len(said[1].blocks) = 1
      <4>1. PICK l \in Nat \ {0} : l = Len(said[1].blocks)
        BY <1>8, BlocksAre, Buffers DEF SourceInv
      <4>2. ~(l > 1)
        BY <4>1
      <4>3. l = 1
        BY <4>2
      <4> QED BY <4>1, <4>3
    <3>2. PICK i \in 1 .. said[1].blocks[1] : said[1].success = <<1, i>>
      <4>1. PICK b \in 1 .. Len(said[1].blocks) : \E i \in 1 .. said[1].blocks[b] :
              said[1].success = <<b, i>>
        BY <1>8, IntakeAssumption
      <4>2. b = 1
        BY <3>1, <4>1
      <4> QED BY <4>1, <4>2
    <3>3. /\ ReplyTextNow = Payload
          /\ Payload = [j \in 1 .. said[1].blocks[1] |-> ByteAt(1, 1, j)]
      BY <1>5, <1>6, <1>7, <3>1 DEF BlockBytes
    <3>4. ReplyTextNow[i] = ByteAt(1, 1, i) /\ i \in 1 .. Len(ReplyTextNow)
      <4>1. ReplyTextNow \in Seq(Byte)
        BY <1>2, <3>3, ReceivedIs
      <4>2. DOMAIN ReplyTextNow = 1 .. Len(ReplyTextNow)
        BY <4>1, LenProperties
      <4>3. DOMAIN ReplyTextNow = 1 .. said[1].blocks[1]
        BY <3>3
      <4> QED BY <3>2, <3>3, <4>2, <4>3
    <3>5. ReplyTextNow[i].m = 1 /\ ReplyTextNow[i].b = 1 /\ ReplyTextNow[i].i = i
      BY <3>4 DEF ByteAt
    <3> QED BY <2>1, <3>2, <3>4, <3>5 DEF Successful
  <2>3. DataSoFar' /\ ReplySoFar' /\ StartedByKeyFrame' /\ FramesWhole'
    BY <1>13 DEF DataSoFar, ReplySoFar, StartedByKeyFrame, FramesWhole
  <2> QED BY <1>3, <1>5, <1>9, <1>10, <1>11, <2>2, <2>3 DEF SourceInv
<1> QED BY <1>1, <1>12, <1>13

\* The block that ends a message on the stream: one more message is taken, and
\* its frame is due from the first I frame on.
LEMMA MessageTaken ==
  ASSUME SourceInv, phase = "stream", NEW ph, TakeBlock(ph), Package.byBlockEndFlag
  PROVE  /\ LeftInOrder' /\ NextBlock' = 1 /\ NextMessage' = NextMessage + 1
         /\ NextMessage \in Nat /\ NextMessage >= 2
         /\ Received = PayloadOf(NextMessage) /\ Received \in Seq(Byte)
         /\ Due \subseteq 1 .. NextMessage - 1
         /\ StartedNow <=> \E k \in Taken' : said[k].frame = 1
         /\ Due' = IF StartedNow /\ Package.byDataType = 13 THEN Due \cup {NextMessage} ELSE Due
<1>1. /\ LeftInOrder' /\ NextBlock' = 1 /\ NextMessage' = NextMessage + 1 /\ said' = said
      /\ Package.byDataType = said[NextMessage].type
      /\ Package.byFrameType = said[NextMessage].frame
      /\ NextBlock = Len(said[NextMessage].blocks)
  BY BlockTaken DEF SourceInv
<1>2. PICK m \in Nat : m = NextMessage /\ m >= 2
  BY LeftFacts DEF SourceInv, AnswerFirst
<1>3. Received = PayloadOf(m) /\ Received \in Seq(Byte)
  BY <1>1, <1>2, ReceivedIs DEF PayloadOf
<1>4. Taken = 2 .. m - 1 /\ Taken' = 2 .. m
  <2>1. (m + 1) - 1 = m
    OBVIOUS
  <2> QED BY <1>1, <1>2, <2>1 DEF Taken
<1>5. Taken' = Taken \cup {m} /\ \A x \in Taken : x \in Nat /\ x < m
  BY <1>2, <1>4
<1>6. Due \subseteq 1 .. m - 1
  BY <1>2, <1>4 DEF Due
<1>7. StartedNow <=> \E k \in Taken' : said[k].frame = 1
  BY <1>1, <1>2, <1>5 DEF StartedNow, SourceInv, StartedByKeyFrame
<1>8. Due' = {x \in Taken' : said[x].type = 13 /\ \E k \in Taken' : k <= x /\ said[k].frame = 1}
  BY <1>1 DEF Due
<1>9. ASSUME NEW x \in Taken PROVE x \in Due' <=> x \in Due
  <2>1. \A k \in Taken' : k <= x => k \in Taken
    BY <1>2, <1>5
  <2> QED BY <1>5, <1>8, <2>1 DEF Due
<1>10. m \in Due' <=> said[m].type = 13 /\ StartedNow
  <2>1. \A k \in Taken' : k <= m
    BY <1>2, <1>5
  <2>2. m \in Taken'
    BY <1>5
  <2> QED BY <1>7, <1>8, <2>1, <2>2
<1>11. Due' = IF StartedNow /\ Package.byDataType = 13 THEN Due \cup {m} ELSE Due
  <2>1. Due' \subseteq Taken \cup {m} /\ Due \subseteq Taken
    BY <1>5, <1>8 DEF Due
  <2>2. \A x \in Taken : x \in Due' <=> x \in Due
    BY <1>9
  <2>3. m \in Due' <=> Package.byDataType = 13 /\ StartedNow
    BY <1>1, <1>2, <1>10
  <2>4. m \notin Due
    BY <1>2, <1>5, <2>1
  <2>5. CASE StartedNow /\ Package.byDataType = 13
    <3>1. Due' = Due \cup {m}
      BY <2>1, <2>2, <2>3, <2>5
    <3> QED BY <2>5, <3>1
  <2>6. CASE ~(StartedNow /\ Package.byDataType = 13)
    <3>1. Due' = Due
      BY <2>1, <2>2, <2>3, <2>4, <2>6
    <3> QED BY <2>6, <3>1
  <2> QED BY <2>5, <2>6
<1> QED BY <1>1, <1>2, <1>3, <1>6, <1>7, <1>11

LEMMA FrameKeepsSource ==
  ASSUME SourceInv, FrameDropped \/ FrameQueued PROVE SourceInv'
<1>1. /\ phase = "stream" /\ TakeBlock(phase) /\ Package.byBlockEndFlag
      /\ phase' = "stream" /\ started' = StartedNow /\ data' = <<>>
      /\ \/ ~(StartedNow /\ Package.byDataType = 13) /\ frames' = frames
         \/ /\ StartedNow /\ Package.byDataType = 13
            /\ frames' = Append(frames, [type |-> FrameType, bytes |-> Received])
  <2>1. started \in BOOLEAN
    BY DEF SourceInv, IntakeInv, IntakeTypeOK
  <2> QED BY <2>1 DEF FrameDropped, FrameQueued, AfterDrop, StartedNow
<1>2. IntakeInv'
  BY FrameKeeps DEF SourceInv
<1>3. asked' = asked /\ said' = said
  BY <1>1 DEF TakeBlock
<1>4. PICK n \in Nat : n = NextMessage - 1 /\ n + 1 = NextMessage
  <2>1. NextMessage \in Nat /\ NextMessage >= 2
    BY <1>1, MessageTaken
  <2>2. NextMessage - 1 \in Nat /\ (NextMessage - 1) + 1 = NextMessage
    BY <2>1
  <2> QED BY <2>2
<1>5. /\ LeftInOrder' /\ NextBlock' = 1 /\ NextMessage' = NextMessage + 1
      /\ NextMessage \in Nat /\ NextMessage >= 2
      /\ Received = PayloadOf(n + 1) /\ Received \in Seq(Byte)
      /\ Due \in SUBSET (1 .. n)
      /\ StartedNow <=> \E k \in Taken' : said[k].frame = 1
      /\ Due' = IF StartedNow /\ Package.byDataType = 13 THEN Due \cup {n + 1} ELSE Due
  BY <1>1, <1>4, MessageTaken
<1>6. DataSoFar' /\ ReplySoFar' /\ StartedByKeyFrame'
  BY <1>1, <1>3, <1>5 DEF DataSoFar, ReplySoFar, StartedByKeyFrame
<1>7. AnswerFirst'
  <2>1. NextMessage' >= 2
    BY <1>5
  <2> QED BY <1>1, <1>3, <2>1 DEF SourceInv, AnswerFirst
<1>8. ReplyHeard' /\ CommandSplit'
  <2>1. ReplyHeard'
    BY <1>1, <1>3 DEF SourceInv, ReplyHeard
  <2>2. CommandSplit'
    BY <1>3 DEF SourceInv, CommandSplit, Split, BlockCount, LastLength
  <2> QED BY <2>1, <2>2
<1>9. /\ frames \in Seq(FrameUnit) /\ Len(frames) = Cardinality(Due)
      /\ \A x \in Due : frames[Place(Due, x)].bytes = PayloadOf(x)
  BY <1>1 DEF SourceInv, FramesWhole
<1>10. \A x : PayloadOf(x)' = PayloadOf(x)
  BY <1>3 DEF PayloadOf
<1>11. CASE ~(StartedNow /\ Package.byDataType = 13) /\ frames' = frames
  <2>1. Due' = Due
    BY <1>5, <1>11
  <2>2. FramesWhole'
    BY <1>9, <1>10, <1>11, <2>1 DEF FramesWhole
  <2>3. (frames \in Seq(FrameUnit))'
    BY <1>9, <1>11 DEF FrameUnit, Byte
  <2> QED BY <1>2, <1>5, <1>6, <1>7, <1>8, <2>2, <2>3 DEF SourceInv
<1>12. CASE /\ StartedNow /\ Package.byDataType = 13
            /\ frames' = Append(frames, [type |-> FrameType, bytes |-> Received])
  <2>1. Due' = Due \cup {n + 1}
    BY <1>5, <1>12
  <2> DEFINE unit == [type |-> FrameType, bytes |-> Received]
  <2>2. unit \in FrameUnit /\ unit.bytes = Received
    <3>1. FrameType \in {"BP", "I", "audio", "none"}
      BY DEF FrameType
    <3> QED BY <1>5, <3>1 DEF FrameUnit
  <2> HIDE DEF unit
  <2>3. PICK c \in Nat : c = Len(frames)
    BY <1>9, LenProperties
  <2>4. /\ frames' \in Seq(FrameUnit) /\ Len(frames') = c + 1
        /\ \A i \in 1 .. c : frames'[i] = frames[i]
        /\ frames'[c + 1] = unit
    BY <1>9, <1>12, <2>2, <2>3, AppendProperties DEF unit
  <2>5. /\ Cardinality(Due') = c + 1
        /\ \A x \in Due : Place(Due', x) = Place(Due, x) /\ Place(Due, x) \in 1 .. c
        /\ Place(Due', n + 1) = c + 1
    <3>1. Due \in SUBSET (1 .. n) /\ Cardinality(Due) = c
      BY <1>5, <1>9, <2>3
    <3>2. \A x \in Due : Place(Due, x) \in 1 .. Cardinality(Due)
      BY <3>1, PlaceFacts
    <3>3. /\ Cardinality(Due \cup {n + 1}) = Cardinality(Due) + 1
          /\ \A x \in Due : Place(Due \cup {n + 1}, x) = Place(Due, x)
          /\ Place(Due \cup {n + 1}, n + 1) = Cardinality(Due) + 1
      BY <3>1, PlaceAdded
    <3> QED BY <2>1, <3>1, <3>2, <3>3
  <2>6. FramesWhole'
    <3> SUFFICES ASSUME NEW x \in Due' PROVE frames'[Place(Due', x)].bytes = PayloadOf(x)
      BY <1>10, <2>4, <2>5 DEF FramesWhole
    <3>1. CASE x \in Due
      BY <1>9, <2>4, <2>5, <3>1
    <3>2. CASE x = n + 1
      BY <1>5, <2>2, <2>4, <2>5, <3>2
    <3> QED BY <2>1, <3>1, <3>2
  <2>7. (frames \in Seq(FrameUnit))'
    BY <2>4 DEF FrameUnit, Byte
  <2> QED BY <1>2, <1>5, <1>6, <1>7, <1>8, <2>6, <2>7 DEF SourceInv
<1> QED BY <1>1, <1>11, <1>12

LEMMA SourceStep == SourceInv /\ [IntakeNext]_intakeAll => SourceInv'
<1> SUFFICES ASSUME SourceInv, [IntakeNext]_intakeAll PROVE SourceInv'
  OBVIOUS
<1>1. CASE UNCHANGED intakeAll
  <2>1. UNCHANGED <<phase, asked, said, wire, input, suspended, callback, data, replyText,
                    started, frames>>
    BY <1>1 DEF intakeAll, inputVars, sourceVars
  <2>2. IntakeInv'
    BY <1>1, IntakeStep DEF SourceInv
  <2>3. Left' = Left /\ ReplySoFar'
    BY <2>1 DEF Left, SourceInv, ReplySoFar
  <2>4. CommandSplit'
    BY <2>1 DEF SourceInv, CommandSplit, Split, BlockCount, LastLength
  <2> QED BY <2>1, <2>2, <2>3, <2>4, NothingTaken
<1>2. CASE \E c \in 0 .. MaxCommand : Connected(c)
  BY <1>2, ConnectedKeepsSource
<1>3. CASE \E m \in Replies \cup Frames : HbserverSays(m)
  BY <1>3, HbserverSaysKeepsSource
<1>4. CASE SocketRead
  BY <1>4, SocketReadKeepsSource
<1>5. CASE ConnectionEnds \/ CallbackBreaks
  BY <1>5, ClosingKeepsSource
<1>6. CASE CallbackBegins \/ CallbackReturns
  BY <1>6, CallbackKeepsSource
<1>7. CASE MiddleBlock
  BY <1>7, MiddleBlockKeepsSource
<1>8. CASE ReplyAccepted \/ ReplyRefused
  BY <1>8, ReplyKeepsSource
<1>9. CASE FrameDropped \/ FrameQueued
  BY <1>9, FrameKeepsSource
<1> QED BY <1>1, <1>2, <1>3, <1>4, <1>5, <1>6, <1>7, <1>8, <1>9 DEF IntakeNext

\* The blocks of a command, in numbers.
LEMMA BlocksOfLength ==
  ASSUME NEW n \in Nat
  PROVE  \E k \in Nat :
           /\ BlockCount(n) = k /\ LastLength(n) \in 1 .. NetBufferLen
           /\ k = 0 => n = 0
           /\ k > 0 => n = (k - 1) * NetBufferLen + LastLength(n)
<1>1. PICK N \in Nat \ {0} : N = NetBufferLen
  BY IntakeAssumption
<1>2. PICK q \in Nat, r \in 0 .. N - 1 : q = n \div N /\ r = n % N /\ n = N * q + r
  BY DivMod
<1>3. CASE r = 0
  <2>1. BlockCount(n) = q /\ LastLength(n) = N
    BY <1>1, <1>2, <1>3 DEF BlockCount, LastLength
  <2>2. q = 0 => n = 0
    BY <1>2, <1>3
  <2>3. q > 0 => n = (q - 1) * N + N
    <3>1. N * q = (q - 1) * N + N
      OBVIOUS
    <3> QED BY <1>2, <1>3, <3>1
  <2> QED BY <1>1, <2>1, <2>2, <2>3
<1>4. CASE r # 0
  <2>1. (n + N) \div N = q + 1
    <3>1. PICK p \in Nat, s \in 0 .. N - 1 :
            p = (n + N) \div N /\ s = (n + N) % N /\ n + N = N * p + s
      BY DivMod
    <3>2. n + N = N * (q + 1) + r /\ q + 1 \in Nat
      <4>1. N * (q + 1) = N * q + N
        OBVIOUS
      <4> QED BY <1>2, <4>1
    <3>3. s = r
      BY <3>1, <3>2, RestIs
    <3>4. N * p = N * (q + 1)
      <4>1. N * p \in Nat /\ N * (q + 1) \in Nat
        OBVIOUS
      <4> QED BY <1>2, <3>1, <3>2, <3>3, <4>1
    <3>5. p = q + 1
      BY <3>4
    <3> QED BY <3>1, <3>5
  <2>2. BlockCount(n) = q + 1 /\ LastLength(n) = r
    BY <1>1, <1>2, <1>4, <2>1 DEF BlockCount, LastLength
  <2>3. n = ((q + 1) - 1) * N + r
    <3>1. ((q + 1) - 1) * N = N * q
      OBVIOUS
    <3> QED BY <1>2, <3>1
  <2> QED BY <1>1, <1>2, <1>4, <2>2, <2>3
<1> QED BY <1>3, <1>4

LEMMA SplitIsWhole == CommandSplit => CommandWhole
<1> SUFFICES ASSUME CommandSplit PROVE CommandWhole
  OBVIOUS
<1>1. CASE asked = NoCommand
  <2>1. asked.blocks = <<>> /\ asked.command = 0 /\ Len(asked.blocks) = 0
    BY <1>1 DEF NoCommand
  <2> QED BY <2>1 DEF CommandWhole
<1>2. CASE \E n \in Nat : asked = [command |-> n, blocks |-> Split(n)]
  <2>1. PICK n \in Nat : asked = [command |-> n, blocks |-> Split(n)]
    BY <1>2
  <2>2. PICK k \in Nat : /\ BlockCount(n) = k /\ LastLength(n) \in 1 .. NetBufferLen
                         /\ k = 0 => n = 0
                         /\ k > 0 => n = (k - 1) * NetBufferLen + LastLength(n)
    BY BlocksOfLength
  <2>3. PICK N \in Nat \ {0} : N = NetBufferLen
    BY IntakeAssumption
  <2>4. PICK l \in 1 .. N : l = LastLength(n)
    BY <2>2, <2>3
  <2> DEFINE bs == asked.blocks
             block(i) == [from |-> (i - 1) * N, len |-> IF i = k THEN l ELSE N,
                          head |-> i = 1, end |-> i = k]
  <2>5. bs = [i \in 1 .. k |-> block(i)] /\ asked.command = n
    BY <2>1, <2>2, <2>3, <2>4 DEF Split
  <2>6. Len(bs) = k /\ \A i \in 1 .. k : bs[i] = block(i)
    BY <2>5
  <2> HIDE DEF bs
  <2>7. (IF k = 0 THEN 0 ELSE bs[k].from + bs[k].len) = n
    <3>1. CASE k = 0
      BY <2>2, <3>1
    <3>2. CASE k > 0
      <4>1. k \in 1 .. k /\ k # 0
        BY <3>2
      <4>2. bs[k].from = (k - 1) * N /\ bs[k].len = l
        BY <2>6, <4>1
      <4> QED BY <2>2, <2>3, <2>4, <3>2, <4>1, <4>2
    <3> QED BY <3>1, <3>2
  <2>8. ASSUME NEW i \in 1 .. k
        PROVE  /\ bs[i].from = IF i - 1 = 0 THEN 0 ELSE bs[i - 1].from + bs[i - 1].len
               /\ bs[i].len \in 1 .. N /\ (bs[i].head <=> i = 1) /\ (bs[i].end <=> i = k)
    <3>1. /\ bs[i].from = (i - 1) * N /\ bs[i].len = IF i = k THEN l ELSE N
          /\ bs[i].head = (i = 1) /\ bs[i].end = (i = k)
      BY <2>6
    <3>2. bs[i].len \in 1 .. N
      <4>1. l \in 1 .. N /\ N \in 1 .. N
        OBVIOUS
      <4> QED BY <3>1, <4>1
    <3>3. CASE i = 1
      <4>1. i - 1 = 0 /\ 0 * N = 0
        BY <3>3
      <4>2. bs[i].from = 0
        BY <3>1, <4>1
      <4> QED BY <3>1, <3>2, <4>1, <4>2
    <3>4. CASE i # 1
      <4>1. i - 1 \in 1 .. k /\ i - 1 # k /\ i - 1 # 0
        BY <3>4
      <4>2. bs[i - 1].from = ((i - 1) - 1) * N /\ bs[i - 1].len = N
        BY <2>6, <4>1
      <4>3. ((i - 1) - 1) * N + N = (i - 1) * N
        OBVIOUS
      <4>4. bs[i].from = bs[i - 1].from + bs[i - 1].len
        BY <3>1, <4>2, <4>3
      <4> QED BY <3>1, <3>2, <4>1, <4>4
    <3> QED BY <3>3, <3>4
  <2> QED BY <2>3, <2>5, <2>6, <2>7, <2>8 DEF CommandWhole, bs
<1> QED BY <1>1, <1>2 DEF CommandSplit

\* However TCP cuts the bytes and wherever the blocks of a message end, the
\* command reaches the hbserver as it is, an answer in one block is heard for
\* what it says, and the queue gets the media frames of the camera from its
\* first I frame on, each one whole and in order
\* (get_frame_from_hbserver.c:22-85, 111-230, 324-391).
THEOREM SourceIsUnderstood == IntakeSpec => []SourceUnderstood
<1>1. SourceInv => SourceUnderstood
  BY SplitIsWhole DEF SourceInv, SourceUnderstood
<1> QED BY <1>1, SourceStarts, SourceStep, PTL DEF IntakeSpec

-----------------------------------------------------------------------------
\* SendPath

-----------------------------------------------------------------------------
\* What the walk leaves of the list

\* the walk through a list that leaves out R, with what is kept of each prefix
WhatIsLeft(S, s, R) ==
  {kept \in [0 .. Len(s) -> Seq(S)] :
     /\ Without(s, R) = kept[Len(s)]
     /\ kept[0] = <<>>
     /\ \A i \in 1 .. Len(s) :
          kept[i] = IF s[i] \in R THEN kept[i - 1] ELSE Append(kept[i - 1], s[i])}

\* There is this walk.
LEMMA WithoutIsKept ==
  ASSUME NEW S, NEW s \in Seq(S), NEW R
  PROVE  WhatIsLeft(S, s, R) # {}
<1> DEFINE Def(k) ==
             k = [i \in 0 .. Len(s) |->
                    IF i = 0 THEN <<>>
                    ELSE IF s[i] \in R THEN k[i - 1] ELSE Append(k[i - 1], s[i])]
           F == [x \in Nat \X Seq(S) |->
                   IF x[1] \notin 1 .. Len(s) THEN <<>>
                   ELSE IF s[x[1]] \in R THEN x[2] ELSE Append(x[2], s[x[1]])]
<1>1. F \in [Nat \X Seq(S) -> Seq(S)]
  <2>1. ASSUME NEW x \in Nat \X Seq(S) PROVE F[x] \in Seq(S)
    <3>1. x[1] \in 1 .. Len(s) => s[x[1]] \in S
      BY ElementOfSeq
    <3> QED BY <3>1
  <2> QED BY <2>1
<1>2. <<>> \in Seq(S) /\ Len(s) \in Nat
  OBVIOUS
<1>3. PICK g \in Recursions(Seq(S), <<>>, F, Len(s)) : TRUE
  <2> HIDE DEF F
  <2> QED BY <1>1, <1>2, RecursionExists
<1> HIDE DEF F
<1>4. ASSUME NEW i \in 1 .. Len(s)
      PROVE  g[i] = IF s[i] \in R THEN g[i - 1] ELSE Append(g[i - 1], s[i])
  <2>1. i - 1 \in 0 .. Len(s) /\ g[i - 1] \in Seq(S) /\ i \in Nat
    BY <1>3 DEF Recursions
  <2>2. g[i] = F[<<i, g[i - 1]>>]
    BY <1>3 DEF Recursions
  <2> QED BY <2>1, <2>2 DEF F
<1>5. g \in [0 .. Len(s) -> Seq(S)] /\ g[0] = <<>>
  BY <1>3 DEF Recursions
<1>6. Def(g)
  <2>1. g = [i \in 0 .. Len(s) |-> g[i]]
    BY <1>5
  <2>2. ASSUME NEW i \in 0 .. Len(s)
        PROVE  g[i] = IF i = 0 THEN <<>>
                      ELSE IF s[i] \in R THEN g[i - 1] ELSE Append(g[i - 1], s[i])
    <3>1. i # 0 => i \in 1 .. Len(s)
      OBVIOUS
    <3> QED BY <1>4, <1>5, <3>1
  <2> QED BY <2>1, <2>2
<1> DEFINE k == CHOOSE f : Def(f)
<1>7. Def(k)
  BY <1>6
<1>8. Without(s, R) = k[Len(s)]
  BY DEF Without
<1>9. k = g
  <2>1. \A i \in 1 .. Len(s) :
          k[i] = IF s[i] \in R THEN k[i - 1] ELSE Append(k[i - 1], s[i])
    <3> HIDE DEF k
    <3>1. \A i \in 1 .. Len(s) : i \in 0 .. Len(s) /\ i # 0
      OBVIOUS
    <3> QED BY <1>7, <3>1
  <2>2. k[0] = <<>> /\ DOMAIN k = 0 .. Len(s) /\ k = [i \in DOMAIN k |-> k[i]]
    <3> HIDE DEF k
    <3>1. 0 \in 0 .. Len(s)
      OBVIOUS
    <3> QED BY <1>7, <3>1
  <2> DEFINE T == {i \in Nat : i \in 0 .. Len(s) => k[i] = g[i]}
  <2> HIDE DEF Def, k
  <2>3. 0 \in T
    BY <1>5, <2>2
  <2>4. ASSUME NEW i \in Nat, i \in T PROVE i + 1 \in T
    <3>1. SUFFICES ASSUME i + 1 \in 0 .. Len(s) PROVE k[i + 1] = g[i + 1]
      OBVIOUS
    <3>2. i + 1 \in 1 .. Len(s) /\ (i + 1) - 1 = i /\ i \in 0 .. Len(s)
      BY <3>1
    <3> QED BY <1>4, <2>1, <2>4, <3>2
  <2> HIDE DEF T
  <2>5. Nat \subseteq T
    BY <2>3, <2>4, SetInduction
  <2>6. \A i \in 0 .. Len(s) : k[i] = g[i]
    BY <2>5 DEF T
  <2>7. g = [i \in 0 .. Len(s) |-> g[i]]
    BY <1>5
  <2>8. k = [i \in 0 .. Len(s) |-> k[i]]
    BY <2>2
  <2>9. [i \in 0 .. Len(s) |-> k[i]] = [i \in 0 .. Len(s) |-> g[i]]
    BY <2>6
  <2> QED BY <2>7, <2>8, <2>9
<1> HIDE DEF k, Def
<1> QED BY <1>4, <1>5, <1>8, <1>9 DEF WhatIsLeft

\* The walk over the first n clients of a list without a repeated client takes
\* R of them out: the others keep their order, and the rest of the walk, which
\* goes on with n less Cardinality(R), is over those of the n that are left.
Leading(s, n) == {s[i] : i \in 1 .. n}
LEMMA WithoutFacts ==
  ASSUME NEW S, NEW s \in Seq(S), IsInjective(s), NEW n \in 0 .. Len(s),
         NEW R \in SUBSET Leading(s, n)
  PROVE  /\ Without(s, R) \in Seq(S) /\ IsInjective(Without(s, R))
         /\ ToSet(Without(s, R)) = ToSet(s) \ R
         /\ n - Cardinality(R) \in 0 .. Len(Without(s, R))
         /\ Leading(Without(s, R), n - Cardinality(R)) = Leading(s, n) \ R
<1>0. PICK kept \in WhatIsLeft(S, s, R) : TRUE
  BY WithoutIsKept
<1>1. /\ kept \in [0 .. Len(s) -> Seq(S)]
      /\ Without(s, R) = kept[Len(s)]
      /\ kept[0] = <<>>
      /\ \A i \in 1 .. Len(s) :
           kept[i] = IF s[i] \in R THEN kept[i - 1] ELSE Append(kept[i - 1], s[i])
  BY <1>0 DEF WhatIsLeft
<1> DEFINE E(i) == {s[j] : j \in 1 .. i}
           Good(i) ==
             /\ ToSet(kept[i]) = E(i) \ R
             /\ IsInjective(kept[i])
             /\ IsFiniteSet(E(i) \cap R)
             /\ Len(kept[i]) = i - Cardinality(E(i) \cap R)
           T == {i \in Nat : i \in 0 .. Len(s) => Good(i)}
<1>2. Len(s) \in Nat /\ n \in Nat /\ n <= Len(s)
  OBVIOUS
<1>3. ASSUME NEW i \in Nat, i + 1 \in 0 .. Len(s)
      PROVE  /\ i \in 0 .. Len(s) /\ kept[i] \in Seq(S) /\ s[i + 1] \in S
             /\ kept[i + 1] = IF s[i + 1] \in R THEN kept[i] ELSE Append(kept[i], s[i + 1])
             /\ E(i + 1) = E(i) \cup {s[i + 1]} /\ s[i + 1] \notin E(i)
  <2>1. i \in 0 .. Len(s) /\ i + 1 \in 1 .. Len(s) /\ (i + 1) - 1 = i
    BY <1>3
  <2>2. s[i + 1] \in S
    BY <2>1, ElementOfSeq
  <2>3. E(i + 1) = E(i) \cup {s[i + 1]}
    BY <2>1
  <2>4. ASSUME s[i + 1] \in E(i) PROVE FALSE
    <3>1. PICK j \in 1 .. i : s[j] = s[i + 1]
      BY <2>4
    <3>2. j \in DOMAIN s /\ i + 1 \in DOMAIN s /\ j # i + 1
      BY <2>1
    <3> QED BY <3>1, <3>2 DEF IsInjective
  <2> QED BY <1>1, <2>1, <2>2, <2>3, <2>4
<1>4. 0 \in T
  <2>1. E(0) = {} /\ ToSet(kept[0]) = {} /\ IsInjective(kept[0]) /\ Len(kept[0]) = 0
    BY <1>1 DEF ToSet, IsInjective
  <2>2. IsFiniteSet(E(0) \cap R) /\ Cardinality(E(0) \cap R) = 0
    BY <2>1, FS_EmptySet
  <2> QED BY <2>1, <2>2
<1>5. ASSUME NEW i \in Nat, i \in T PROVE i + 1 \in T
  <2> HIDE DEF E
  <2> SUFFICES ASSUME i + 1 \in 0 .. Len(s) PROVE Good(i + 1)
    OBVIOUS
  <2>1. /\ i \in 0 .. Len(s) /\ kept[i] \in Seq(S) /\ s[i + 1] \in S
        /\ kept[i + 1] = IF s[i + 1] \in R THEN kept[i] ELSE Append(kept[i], s[i + 1])
        /\ E(i + 1) = E(i) \cup {s[i + 1]} /\ s[i + 1] \notin E(i)
    BY <1>3
  <2>2. Good(i)
    BY <1>5, <2>1
  <2>3. Cardinality(E(i) \cap R) \in Nat
    BY <2>2, FS_CardinalityType
  <2>4. CASE s[i + 1] \in R
    <3>1. E(i + 1) \cap R = (E(i) \cap R) \cup {s[i + 1]} /\ s[i + 1] \notin E(i) \cap R
      BY <2>1, <2>4
    <3>2. /\ IsFiniteSet(E(i + 1) \cap R)
          /\ Cardinality(E(i + 1) \cap R) = Cardinality(E(i) \cap R) + 1
      <4> DEFINE X == E(i) \cap R
                 y == s[i + 1]
      <4>1. IsFiniteSet(X) /\ y \notin X /\ E(i + 1) \cap R = X \cup {y}
        BY <2>2, <3>1
      <4> HIDE DEF X, y
      <4>2. IsFiniteSet(X \cup {y}) /\ Cardinality(X \cup {y}) = Cardinality(X) + 1
        BY <4>1, FS_AddElement
      <4> QED BY <4>1, <4>2 DEF X
    <3>3. E(i + 1) \ R = E(i) \ R /\ kept[i + 1] = kept[i]
      BY <2>1, <2>4
    <3>4. Len(kept[i]) = (i + 1) - (Cardinality(E(i) \cap R) + 1)
      BY <2>2, <2>3
    <3> QED BY <2>2, <3>2, <3>3, <3>4
  <2>5. CASE s[i + 1] \notin R
    <3>1. kept[i + 1] = Append(kept[i], s[i + 1]) /\ s[i + 1] \notin ToSet(kept[i])
      BY <2>1, <2>2, <2>5
    <3>2. /\ ToSet(kept[i + 1]) = ToSet(kept[i]) \cup {s[i + 1]} /\ IsInjective(kept[i + 1])
      BY <2>1, <2>2, <3>1, AppendElems
    <3>3. E(i + 1) \cap R = E(i) \cap R /\ E(i + 1) \ R = (E(i) \ R) \cup {s[i + 1]}
      BY <2>1, <2>5
    <3>4. Len(kept[i + 1]) = Len(kept[i]) + 1
      BY <2>1, <3>1
    <3>5. Len(kept[i + 1]) = (i + 1) - Cardinality(E(i) \cap R)
      BY <2>2, <2>3, <3>4
    <3> QED BY <2>2, <3>2, <3>3, <3>5
  <2> QED BY <2>4, <2>5
<1> HIDE DEF T
<1>6. Nat \subseteq T
  BY <1>4, <1>5, SetInduction
<1>7. Good(n) /\ Good(Len(s))
  <2> HIDE DEF Good
  <2>1. n \in T /\ Len(s) \in T /\ n \in 0 .. Len(s) /\ Len(s) \in 0 .. Len(s)
    BY <1>2, <1>6
  <2> QED BY <2>1 DEF T
\* What comes later goes after what is there.
<1> DEFINE Longer(i) == /\ Len(kept[n]) <= Len(kept[i])
                        /\ \A j \in 1 .. Len(kept[n]) : kept[i][j] = kept[n][j]
           U == {d \in Nat : n + d \in 0 .. Len(s) => Longer(n + d)}
<1>8. kept[n] \in Seq(S) /\ Len(kept[n]) \in Nat
  <2>1. n \in 0 .. Len(s)
    OBVIOUS
  <2>2. kept[n] \in Seq(S)
    BY <1>1, <2>1
  <2> QED BY <2>2
<1>9. 0 \in U
  BY <1>2, <1>8
<1>10. ASSUME NEW d \in Nat, d \in U PROVE d + 1 \in U
  <2> HIDE DEF E, Good
  <2> SUFFICES ASSUME n + (d + 1) \in 0 .. Len(s) PROVE Longer(n + (d + 1))
    OBVIOUS
  <2> DEFINE i == n + d
  <2>1. i \in Nat /\ i + 1 = n + (d + 1) /\ i + 1 \in 0 .. Len(s)
    BY <1>2
  <2> HIDE DEF i
  <2>2. /\ i \in 0 .. Len(s) /\ kept[i] \in Seq(S) /\ s[i + 1] \in S
        /\ kept[i + 1] = IF s[i + 1] \in R THEN kept[i] ELSE Append(kept[i], s[i + 1])
    BY <1>3, <2>1
  <2>3. Longer(i)
    BY <1>10, <2>2 DEF i
  <2>4. Len(kept[i]) \in Nat
    BY <2>2
  <2>5. Longer(i + 1)
    <3>1. CASE kept[i + 1] = kept[i]
      BY <2>3, <3>1
    <3>2. CASE kept[i + 1] = Append(kept[i], s[i + 1])
      <4>1. Len(kept[i + 1]) = Len(kept[i]) + 1
        BY <2>2, <3>2
      <4>2. \A j \in 1 .. Len(kept[i]) : kept[i + 1][j] = kept[i][j]
        BY <2>2, <3>2
      <4>3. \A j \in 1 .. Len(kept[n]) : j \in 1 .. Len(kept[i])
        BY <1>8, <2>3, <2>4
      <4> QED BY <1>8, <2>3, <2>4, <4>1, <4>2, <4>3
    <3> QED BY <2>2, <3>1, <3>2
  <2> QED BY <2>1, <2>5
<1> HIDE DEF U
<1>11. Nat \subseteq U
  BY <1>9, <1>10, SetInduction
<1>12. Longer(Len(s))
  <2>1. Len(s) - n \in Nat /\ n + (Len(s) - n) = Len(s) /\ Len(s) \in 0 .. Len(s)
    BY <1>2
  <2> QED BY <1>11, <2>1 DEF U
<1>13. /\ E(Len(s)) = ToSet(s) /\ E(n) \cap R = R
  BY DEF ToSet, Leading
<1> DEFINE w == Without(s, R)
           m == n - Cardinality(R)
<1>14. w = kept[Len(s)] /\ m = Len(kept[n])
  BY <1>1, <1>7, <1>13
<1>15. w \in Seq(S)
  BY <1>1, <1>2
<1>16. m \in 0 .. Len(w)
  BY <1>8, <1>12, <1>14, <1>15
<1>17. {w[i] : i \in 1 .. m} = ToSet(kept[n])
  <2>1. m = Len(kept[n]) /\ \A i \in 1 .. m : w[i] = kept[n][i]
    BY <1>12, <1>14
  <2>2. ToSet(kept[n]) = {kept[n][i] : i \in 1 .. m}
    BY <1>8, <2>1 DEF ToSet
  <2> HIDE DEF w, m
  <2> QED BY <2>1, <2>2
<1> HIDE DEF w, m, E
<1>18. ToSet(w) = ToSet(s) \ R /\ IsInjective(w)
  BY <1>7, <1>13, <1>14
<1>19. {w[i] : i \in 1 .. m} = E(n) \ R
  BY <1>7, <1>17
<1> QED BY <1>15, <1>16, <1>18, <1>19 DEF w, m, E, Leading

-----------------------------------------------------------------------------
\* The walk over the clients

\* a client that got a packet is switched on
SentMeansReady ==
  \A c \in Listed : lastSent[c] # None \/ firstSent[c] # None => iSendIframeFlag[c]

\* while a frame goes out, who is switched on is still to be walked over ...
ReadyIsWalked ==
  stage = "pack" => \A c \in Listed : iSendIframeFlag[c] => c \in Walked

\* ... and from the second packet of an I frame on that is everybody
KeyFrameSwitches ==
  stage = "pack" /\ data_type = "I" /\ rtpEnd > 0 =>
    \A c \in Walked : ~iDeleteFlag[c] => iSendIframeFlag[c]

\* who is switched on and waits for its first packet has been switched on by
\* the packet before, the first one of an I frame
WaitsForNext ==
  \A c \in Listed :
    iSendIframeFlag[c] /\ firstSent[c] = None /\ ~iDeleteFlag[c] => afterKey

WalkInv ==
  /\ PathTypeOK /\ IsInjective(clientList)
  /\ SentMeansReady /\ ReadyIsWalked /\ KeyFrameSwitches /\ WaitsForNext
  /\ NoPacketSkipped /\ StartsAfterKeyPacket

-----------------------------------------------------------------------------
\* Types

LEMMA SizesAre ==
  /\ PackSize \in Nat /\ PackSize > 0 /\ HL \in Nat /\ PSML \in Nat
  /\ PS_PES_PPL_LENGTH \in Nat /\ LenField \in Nat /\ MAX_PES_PACKET_LENGTH \in Nat
  /\ MAX_PES_PACKET_LENGTH > 0 /\ LenField = MAX_PES_PACKET_LENGTH + PS_PES_PPL_LENGTH
  /\ RtpHeader \in Nat /\ MAX_RTP_PACKET_SIZE \in Nat /\ MAX_RTP_PACKET_SIZE > 0
  /\ SeqNoMod \in Nat /\ SeqNoMod > 1 /\ MaxFrame \in Nat
  BY SizesAssumption, PacketAssumption, SeqAssumption, FrameAssumption
  DEF MAX_PES_PACKET_LENGTH

LEMMA SymType ==
  ASSUME NEW k \in {"pack", "sys", "map", "pes", "rest", "es", "rtp"}, NEW n \in Nat
  PROVE  Sym(k, n) \in Symbol /\ Sym(k, n).k = k /\ Sym(k, n).n = n
  BY DEF Sym, Symbol

\* a run of one symbol
LEMMA RunType ==
  ASSUME NEW k \in {"pack", "rest"}, NEW n \in Nat
  PROVE  /\ Run(k, n) \in Seq(Symbol) /\ Len(Run(k, n)) = n
         /\ \A i \in 1 .. n : Run(k, n)[i] = Sym(k, 0)
<1>1. Sym(k, 0) \in Symbol
  BY SymType
<1> QED BY <1>1 DEF Run

\* a start code with its length field, and the bytes of the header after it
LEMMA HeaderType ==
  ASSUME NEW k \in {"sys", "map", "pes"}, NEW v \in Nat, NEW n \in Nat
  PROVE  /\ <<Sym(k, v)>> \o Run("rest", n) \in Seq(Symbol)
         /\ Len(<<Sym(k, v)>> \o Run("rest", n)) = n + 1
         /\ (<<Sym(k, v)>> \o Run("rest", n))[1] = Sym(k, v)
<1>1. Run("rest", n) \in Seq(Symbol) /\ Len(Run("rest", n)) = n /\ Sym(k, v) \in Symbol
  BY RunType, SymType
<1> QED BY <1>1

LEMMA PPLType ==
  ASSUME NEW n \in Nat
  PROVE  PPL(n) \in Nat
  BY SizesAre DEF PPL

LEMMA HeadersType ==
  ASSUME NEW t \in {"I", "BP"}
  PROVE  Headers(t) \in Seq(Symbol) /\ Len(Headers(t)) > 0
<1>1. PackHeader \in Seq(Symbol) /\ Len(PackHeader) = PackSize
  BY RunType, SizesAre DEF PackHeader
<1>2. SystemHeader \in Seq(Symbol) /\ MapHeader \in Seq(Symbol)
  BY HeaderType, SizesAre DEF SystemHeader, MapHeader
<1> DEFINE more == IF t = "I" THEN SystemHeader \o MapHeader ELSE <<>>
<1>3. more \in Seq(Symbol)
  BY <1>2
<1>4. Headers(t) = PackHeader \o more
  BY DEF Headers
<1> HIDE DEF more
<1> QED BY <1>1, <1>3, <1>4, SizesAre

LEMMA EsType ==
  ASSUME NEW a \in Nat, NEW b \in Nat, a <= b
  PROVE  EsBytes(a, b) \in Seq(Symbol) /\ Len(EsBytes(a, b)) = b - a
<1>1. \A i \in 1 .. b - a : Sym("es", a + i) \in Symbol
  BY SymType
<1> QED BY <1>1 DEF EsBytes

\* The buffer gets longer by a PES packet.
LEMMA PesType ==
  ASSUME PathTypeOK
  PROVE  LET done == cmd_length - frame_len
             more == PesHeader(frame_len) \o EsBytes(done, done + PesLen)
         IN  /\ PesLen \in 0 .. frame_len /\ done \in Nat
             /\ PesHeader(frame_len) \in Seq(Symbol)
             /\ EsBytes(done, done + PesLen) \in Seq(Symbol)
             /\ psBuf \o more \in Seq(Symbol) /\ Len(psBuf \o more) >= Len(psBuf)
             /\ psBuf \o PesHeader(frame_len) \o EsBytes(done, done + PesLen)
                  = psBuf \o more
<1> DEFINE done == cmd_length - frame_len
           h == PesHeader(frame_len)
           e == EsBytes(done, done + PesLen)
<1>1. frame_len \in Nat /\ done \in Nat /\ psBuf \in Seq(Symbol)
  BY FrameAssumption DEF PathTypeOK
<1>2. PesLen \in 0 .. frame_len
  BY <1>1, SizesAre DEF PesLen
<1> HIDE DEF done
<1>3. h \in Seq(Symbol)
  BY <1>1, PPLType, HeaderType, SizesAre DEF PesHeader
<1>4. e \in Seq(Symbol)
  BY <1>1, <1>2, EsType
<1> HIDE DEF h, e
<1>5. /\ psBuf \o (h \o e) \in Seq(Symbol) /\ Len(psBuf \o (h \o e)) >= Len(psBuf)
  BY <1>1, <1>3, <1>4
<1>6. psBuf \o h \o e = psBuf \o (h \o e)
  BY <1>1, <1>3, <1>4
<1> QED BY <1>1, <1>2, <1>3, <1>4, <1>5, <1>6 DEF h, e, done

-----------------------------------------------------------------------------
\* One packet

\* the buffer once the header of the packet is written
Headed == [i \in 1 .. Len(psBuf) |-> IF HeaderAt(i) THEN Sym("rtp", 0) ELSE psBuf[i]]

LEMMA EndFacts ==
  ASSUME PathTypeOK, stage = "pack", rtpEnd # Len(psBuf)
  PROVE  /\ Len(psBuf) \in Nat /\ rtpEnd \in Nat /\ PacketEnd \in Nat
         /\ rtpEnd < PacketEnd /\ PacketEnd <= Len(psBuf) /\ rtpEnd < Len(psBuf)
<1>1. Len(psBuf) \in Nat /\ rtpEnd \in Nat /\ rtpEnd < Len(psBuf)
  BY DEF PathTypeOK
<1> QED BY <1>1, SizesAre DEF PacketEnd

\* The header goes over what was sent before and damages nothing after it.
LEMMA HeadedFacts ==
  ASSUME PathTypeOK, stage = "pack", rtpEnd # Len(psBuf)
  PROVE  /\ Headed \in Seq(Symbol) /\ Len(Headed) = Len(psBuf)
         /\ \A i \in rtpEnd + 1 .. Len(psBuf) : Headed[i] = psBuf[i]
<1>1. psBuf \in Seq(Symbol) /\ rtpEnd \in Nat /\ Len(psBuf) \in Nat
  BY DEF PathTypeOK
<1>2. Sym("rtp", 0) \in Symbol
  BY SymType
<1>3. \A i \in 1 .. Len(psBuf) : psBuf[i] \in Symbol
  BY <1>1
<1>4. ASSUME NEW i \in rtpEnd + 1 .. Len(psBuf) PROVE Headed[i] = psBuf[i]
  <2>1. i \in 1 .. Len(psBuf) /\ ~(i <= rtpEnd)
    BY <1>1
  <2> QED BY <2>1 DEF Headed, HeaderAt
<1> QED BY <1>1, <1>2, <1>3, <1>4, SMTT(30) DEF Headed

\* what SendPacket does to the walk, and what it leaves of the list
LEMMA PacketWalk ==
  ASSUME PathTypeOK, IsInjective(clientList), SendPacket
  PROVE  /\ clientList' \in Seq(Clients) /\ IsInjective(clientList')
         /\ Listed' = Listed \ Removed /\ Walked' = Walked \ Removed
         /\ client_list_size' \in 0 .. Len(clientList')
         /\ Walked \subseteq Listed /\ Listed \subseteq Clients
<1> DEFINE w == Without(clientList, Removed)
           m == client_list_size - Cardinality(Removed)
<1>1. clientList \in Seq(Clients) /\ client_list_size \in 0 .. Len(clientList)
  BY DEF PathTypeOK
<1>2. Removed \in SUBSET Leading(clientList, client_list_size)
  BY DEF Removed, Walked, Leading
<1>3. /\ w \in Seq(Clients) /\ IsInjective(w)
      /\ ToSet(w) = ToSet(clientList) \ Removed
      /\ m \in 0 .. Len(w)
      /\ Leading(w, m) = Leading(clientList, client_list_size) \ Removed
  BY <1>1, <1>2, WithoutFacts
<1>4. clientList' = w /\ client_list_size' = m
  BY DEF SendPacket
<1> HIDE DEF w, m
<1>5. Listed' = ToSet(w) /\ Listed = ToSet(clientList)
  BY <1>4 DEF Listed, ToSet
<1>6. Walked' = Leading(w, m) /\ Walked = Leading(clientList, client_list_size)
  BY <1>4 DEF Walked, Leading
<1>7. Walked \subseteq Listed
  <2>1. \A i \in 1 .. client_list_size : i \in 1 .. Len(clientList)
    BY <1>1
  <2> QED BY <2>1 DEF Walked, Listed
<1>8. Listed \subseteq Clients
  BY <1>1 DEF Listed
<1> QED BY <1>3, <1>4, <1>5, <1>6, <1>7, <1>8

LEMMA PacketTypes ==
  ASSUME PathTypeOK, IsInjective(clientList), SendPacket
  PROVE  PathTypeOK'
<1>1. /\ stage = "pack" /\ rtpEnd # Len(psBuf) /\ psBuf' = Headed
      /\ rx' = [c \in Clients |->
                  IF c \in SentTo THEN rx[c] \o SubSeq(Headed, rtpEnd + 1, PacketEnd) ELSE rx[c]]
      /\ rtpEnd' = PacketEnd /\ seq_no' = NextSeq
      /\ UNCHANGED <<stage, data_type, cmd_length, frame_len, FU_flag, iDeleteFlag, wasReady>>
  BY DEF SendPacket, Headed
<1>2. Headed \in Seq(Symbol) /\ Len(Headed) = Len(psBuf)
  BY <1>1, HeadedFacts
<1>3. rtpEnd' \in Nat /\ rtpEnd' <= Len(psBuf')
  BY <1>1, <1>2, EndFacts
<1>4. rx' \in [Clients -> Seq(Symbol)]
  <2> DEFINE p == SubSeq(Headed, rtpEnd + 1, PacketEnd)
  <2>1. p \in Seq(Symbol)
    <3>1. rtpEnd + 1 \in 1 .. Len(Headed) /\ PacketEnd \in 1 .. Len(Headed)
      BY <1>1, <1>2, EndFacts
    <3> QED BY <1>2, <3>1
  <2> HIDE DEF p
  <2>2. \A c \in Clients : rx[c] \in Seq(Symbol)
    BY DEF PathTypeOK
  <2>3. \A c \in Clients : rx[c] \o p \in Seq(Symbol)
    BY <2>1, <2>2
  <2>4. rx' = [c \in Clients |-> IF c \in SentTo THEN rx[c] \o p ELSE rx[c]]
    BY <1>1 DEF p
  <2> QED BY <2>2, <2>3, <2>4
<1>5. marked' \in [Clients -> Nat]
  BY DEF SendPacket, PathTypeOK
<1>6. firstSent' \in [Clients -> {None} \cup
                           [type : {"I", "BP"}, at : Nat, afterKey : BOOLEAN]]
  <2>1. [type |-> data_type, at |-> rtpEnd, afterKey |-> afterKey]
          \in [type : {"I", "BP"}, at : Nat, afterKey : BOOLEAN]
    BY DEF PathTypeOK
  <2>2. firstSent' = [c \in Clients |->
                    IF c \in SentTo /\ firstSent[c] = None
                    THEN [type |-> data_type, at |-> rtpEnd, afterKey |-> afterKey]
                    ELSE firstSent[c]]
    BY DEF SendPacket
  <2> QED BY <2>1, <2>2 DEF PathTypeOK
<1>7. lastSent' \in [Clients -> {None} \cup 0 .. SeqNoMod - 1] /\ afterKey' \in BOOLEAN
  BY DEF SendPacket, PathTypeOK
<1>8. seq_no' \in 0 .. SeqNoMod - 1
  BY <1>1, SizesAre DEF NextSeq, PathTypeOK
<1>9. iSendIframeFlag' \in [Clients -> BOOLEAN]
  <2>1. iSendIframeFlag' = [c \in Clients |-> iSendIframeFlag[c] \/ c \in SwitchedOn]
    BY DEF SendPacket
  <2> QED BY <2>1
<1>10. clientList' \in Seq(Clients) /\ client_list_size' \in 0 .. Len(clientList')
  BY PacketWalk
<1> QED BY <1>1, <1>2, <1>3, <1>4, <1>5, <1>6, <1>7, <1>8, <1>9, <1>10 DEF PathTypeOK

\* One packet keeps the invariant of the walk.
LEMMA PacketKeepsWalk ==
  ASSUME WalkInv, SendPacket
  PROVE  WalkInv'
<1> USE DEF WalkInv
<1>1. PathTypeOK'
  BY PacketTypes
<1>2. /\ IsInjective(clientList')
      /\ Listed' = Listed \ Removed /\ Walked' = Walked \ Removed
      /\ Walked \subseteq Listed /\ Listed \subseteq Clients
  BY PacketWalk
<1>3. /\ stage = "pack" /\ rtpEnd # Len(psBuf)
      /\ firstSent' = [c \in Clients |->
                    IF c \in SentTo /\ firstSent[c] = None
                    THEN [type |-> data_type, at |-> rtpEnd, afterKey |-> afterKey]
                    ELSE firstSent[c]]
      /\ afterKey' = (data_type = "I" /\ rtpEnd = 0)
      /\ lastSent' = [c \in Clients |-> IF c \in SentTo THEN seq_no ELSE lastSent[c]]
      /\ rtpEnd' = PacketEnd /\ seq_no' = NextSeq
      /\ iSendIframeFlag' = [c \in Clients |-> iSendIframeFlag[c] \/ c \in SwitchedOn]
      /\ stage' = stage /\ data_type' = data_type /\ iDeleteFlag' = iDeleteFlag
  BY DEF SendPacket
\* who is left in the list is flagged only if it is not walked over
<1>4. ASSUME NEW c \in Listed'
      PROVE  /\ c \in Listed /\ c \in Clients
             /\ c \in Walked <=> c \in Walked'
             /\ c \in Walked => ~iDeleteFlag[c] /\ c \notin Removed
             /\ c \in SentTo <=> c \in Walked /\ iSendIframeFlag[c]
             /\ c \in SwitchedOn <=> c \in Walked /\ data_type = "I"
             /\ iSendIframeFlag'[c] <=> iSendIframeFlag[c] \/ c \in SwitchedOn
  <2>1. c \in Listed /\ c \notin Removed /\ c \in Clients
    BY <1>2, <1>4
  <2>2. c \in Walked <=> c \in Walked'
    BY <1>2, <2>1
  <2>3. c \in Walked => ~iDeleteFlag[c]
    BY <2>1 DEF Removed
  <2>4. c \in SentTo <=> c \in Walked /\ iSendIframeFlag[c]
    BY <2>1 DEF SentTo
  <2>5. c \in SwitchedOn <=> c \in Walked /\ data_type = "I"
    BY <2>1 DEF SwitchedOn
  <2>6. iSendIframeFlag'[c] <=> iSendIframeFlag[c] \/ c \in SwitchedOn
    BY <1>3, <2>1
  <2> QED BY <2>1, <2>2, <2>3, <2>4, <2>5, <2>6
<1>5. ASSUME NEW c \in Listed', iSendIframeFlag[c]
      PROVE  c \in SentTo
  BY <1>3, <1>4, <1>5 DEF ReadyIsWalked
<1>6. SentMeansReady'
  <2>1. ASSUME NEW c \in Listed', lastSent'[c] # None \/ firstSent'[c] # None
        PROVE  iSendIframeFlag'[c]
    <3>1. CASE c \in SentTo
      BY <1>4, <3>1
    <3>2. CASE c \notin SentTo
      <4>1. lastSent'[c] = lastSent[c] /\ firstSent'[c] = firstSent[c]
        BY <1>3, <1>4, <3>2
      <4> QED BY <1>4, <2>1, <4>1 DEF SentMeansReady
    <3> QED BY <3>1, <3>2
  <2> QED BY <2>1 DEF SentMeansReady
<1>7. ReadyIsWalked'
  <2>1. ASSUME NEW c \in Listed', iSendIframeFlag'[c] PROVE c \in Walked'
    BY <1>4, <1>5, <2>1
  <2> QED BY <2>1 DEF ReadyIsWalked
<1>8. KeyFrameSwitches'
  <2>1. ASSUME NEW c \in Walked', data_type = "I" PROVE iSendIframeFlag'[c]
    <3>1. c \in Listed'
      BY <1>2
    <3> QED BY <1>4, <2>1, <3>1
  <2> QED BY <1>3, <2>1 DEF KeyFrameSwitches
<1>9. ASSUME NEW c \in SentTo PROVE c \in Clients /\ c \in Listed /\ ~iDeleteFlag[c] /\ iSendIframeFlag[c]
  BY <1>2, PacketWalk DEF SentTo, Removed
<1>10. ASSUME NEW c \in SentTo PROVE firstSent'[c] # None
  <2>1. CASE firstSent[c] = None
    <3>1. firstSent'[c] = [type |-> data_type, at |-> rtpEnd, afterKey |-> afterKey]
      BY <1>3, <1>9, <2>1
    <3>2. firstSent'[c] \in [type : {"I", "BP"}, at : Nat, afterKey : BOOLEAN]
      BY <3>1 DEF PathTypeOK
    <3> QED BY <3>2, SeqAssumption
  <2>2. CASE firstSent[c] # None
    BY <1>3, <1>9, <2>2
  <2> QED BY <2>1, <2>2
<1>11. WaitsForNext'
  <2> SUFFICES ASSUME NEW c \in Listed', iSendIframeFlag'[c], firstSent'[c] = None,
                      ~iDeleteFlag[c]
               PROVE  data_type = "I" /\ rtpEnd = 0
    BY <1>3 DEF WaitsForNext
  <2>1. c \notin SentTo /\ ~iSendIframeFlag[c]
    BY <1>5, <1>10
  <2>2. data_type = "I" /\ c \in Walked
    BY <1>4, <2>1
  <2>3. ~(rtpEnd > 0)
    BY <1>3, <2>1, <2>2 DEF KeyFrameSwitches
  <2> QED BY <2>2, <2>3 DEF PathTypeOK
<1>12. NoPacketSkipped'
  <2> SUFFICES ASSUME NEW c \in Listed', lastSent'[c] # None
               PROVE  (lastSent'[c] + 1) % SeqNoMod = seq_no'
    BY DEF NoPacketSkipped
  <2>1. c \in SentTo
    <3>1. c \notin SentTo => lastSent'[c] = lastSent[c]
      BY <1>3, <1>4
    <3> QED BY <1>4, <1>5, <3>1 DEF SentMeansReady
  <2>2. lastSent'[c] = seq_no
    BY <1>3, <1>4, <2>1
  <2>3. seq_no \in Nat /\ seq_no < SeqNoMod
    BY SizesAre DEF PathTypeOK
  <2>4. (seq_no + 1) % SeqNoMod = NextSeq
    <3>1. CASE seq_no < SeqNoMod - 1
      <4>1. seq_no + 1 \in Nat /\ seq_no + 1 < SeqNoMod
        BY <2>3, <3>1, SizesAre
      <4> QED BY <4>1, <3>1, SizesAre DEF NextSeq
    <3>2. CASE ~(seq_no < SeqNoMod - 1)
      <4>1. seq_no + 1 = SeqNoMod
        BY <2>3, <3>2, SizesAre
      <4> QED BY <4>1, <3>2, SizesAre DEF NextSeq
    <3> QED BY <3>1, <3>2
  <2> QED BY <1>3, <2>2, <2>4
<1>13. StartsAfterKeyPacket'
  <2> SUFFICES ASSUME NEW c \in Listed', firstSent'[c] # None
               PROVE  firstSent'[c].afterKey
    BY DEF StartsAfterKeyPacket
  <2>1. CASE c \in SentTo /\ firstSent[c] = None
    <3>1. firstSent'[c].afterKey = afterKey
      BY <1>3, <1>9, <2>1
    <3> QED BY <1>9, <2>1, <3>1 DEF WaitsForNext
  <2>2. CASE ~(c \in SentTo /\ firstSent[c] = None)
    <3>1. firstSent'[c] = firstSent[c]
      BY <1>3, <1>4, <2>2
    <3> QED BY <1>4, <3>1 DEF StartsAfterKeyPacket
  <2> QED BY <2>1, <2>2
<1> QED BY <1>1, <1>2, <1>6, <1>7, <1>8, <1>11, <1>12, <1>13

-----------------------------------------------------------------------------
\* The other steps

LEMMA WalkInit == PathInit => WalkInv
<1> SUFFICES ASSUME PathInit PROVE WalkInv
  OBVIOUS
<1>1. PathTypeOK
  <2>1. <<>> \in Seq(Symbol) /\ <<>> \in Seq(Clients) /\ Len(clientList) = 0 /\ 0 \in 0 .. MaxFrame
        /\ 0 \in 0 .. SeqNoMod - 1
    BY SizesAre DEF PathInit
  <2>2. rx \in [Clients -> Seq(Symbol)] /\ marked \in [Clients -> Nat]
    BY <2>1 DEF PathInit
  <2>3. firstSent \in [Clients -> {None}] /\ lastSent \in [Clients -> {None}]
    BY DEF PathInit
  <2>4. /\ iSendIframeFlag \in [Clients -> BOOLEAN] /\ iDeleteFlag \in [Clients -> BOOLEAN]
        /\ wasReady \in [Clients -> BOOLEAN] /\ afterKey \in BOOLEAN
    BY DEF PathInit
  <2>5. client_list_size \in 0 .. Len(clientList) /\ clientList \in Seq(Clients)
        /\ psBuf \in Seq(Symbol)
    BY <2>1 DEF PathInit
  <2>6. /\ stage = "pop" /\ data_type = "I" /\ cmd_length = 0 /\ frame_len = 0
        /\ rtpEnd = 0 /\ FU_flag = FALSE /\ seq_no = 0
    BY DEF PathInit
  <2>7. /\ cmd_length \in 0 .. MaxFrame /\ frame_len \in 0 .. cmd_length /\ rtpEnd \in Nat
        /\ seq_no \in 0 .. SeqNoMod - 1 /\ FU_flag \in BOOLEAN
    <3>1. cmd_length \in 0 .. MaxFrame /\ seq_no \in 0 .. SeqNoMod - 1
      BY <2>1, <2>6
    <3>2. frame_len \in 0 .. cmd_length /\ rtpEnd \in Nat
      BY <2>6
    <3>3. FU_flag \in BOOLEAN
      BY <2>6, Zenon
    <3> QED BY <3>1, <3>2, <3>3
  <2> QED BY <2>2, <2>3, <2>4, <2>5, <2>6, <2>7 DEF PathTypeOK
<1>2. Listed = {} /\ Walked = {} /\ IsInjective(clientList)
  BY DEF PathInit, Listed, Walked, IsInjective
<1> QED BY <1>1, <1>2
    DEF WalkInv, SentMeansReady, ReadyIsWalked, KeyFrameSwitches, WaitsForNext,
        NoPacketSkipped, StartsAfterKeyPacket

\* What does not touch the clients, nor what they got, keeps what is said of
\* the walk as long as no packet of the frame is out.
LEMMA SameClients ==
  ASSUME WalkInv, PathTypeOK', UNCHANGED <<clientVars, firstSent, lastSent, seq_no, afterKey>>,
         stage' = "pack" =>
           /\ client_list_size' = client_list_size \/ client_list_size' = Len(clientList)
           /\ rtpEnd' = 0 \/ UNCHANGED <<stage, data_type, rtpEnd, client_list_size>>
           /\ stage # "pack" => client_list_size' = Len(clientList)
  PROVE  WalkInv'
<1> USE DEF WalkInv
<1>1. Listed' = Listed /\ IsInjective(clientList)'
  BY DEF clientVars, Listed
<1>2. /\ SentMeansReady' /\ WaitsForNext' /\ NoPacketSkipped' /\ StartsAfterKeyPacket'
  BY <1>1 DEF clientVars, SentMeansReady, WaitsForNext, NoPacketSkipped, StartsAfterKeyPacket
<1>3. client_list_size' = client_list_size => Walked' = Walked
  BY DEF clientVars, Walked
<1>4. client_list_size' = Len(clientList) => Walked' = Listed
  BY DEF clientVars, Walked, Listed
<1>5. ReadyIsWalked'
  BY <1>1, <1>3, <1>4 DEF clientVars, ReadyIsWalked
<1>6. KeyFrameSwitches'
  BY <1>3 DEF clientVars, KeyFrameSwitches
<1> QED BY <1>1, <1>2, <1>5, <1>6

LEMMA JoinKeepsWalk ==
  ASSUME WalkInv, NEW c \in Clients, ClientJoins(c)
  PROVE  WalkInv'
<1> USE DEF WalkInv
<1>1. /\ c \notin Listed /\ clientList' = Append(clientList, c)
      /\ iSendIframeFlag' = [iSendIframeFlag EXCEPT ![c] = FALSE]
      /\ iDeleteFlag' = [iDeleteFlag EXCEPT ![c] = FALSE]
      /\ rx' = [rx EXCEPT ![c] = <<>>] /\ marked' = [marked EXCEPT ![c] = 0]
      /\ firstSent' = [firstSent EXCEPT ![c] = None]
      /\ lastSent' = [lastSent EXCEPT ![c] = None]
      /\ wasReady' = [wasReady EXCEPT ![c] = FALSE]
      /\ UNCHANGED <<stage, frameVars, rtpVars, client_list_size, afterKey>>
  BY DEF ClientJoins
<1>2. clientList \in Seq(Clients) /\ Listed = ToSet(clientList) /\ Listed' = ToSet(clientList')
  <2>1. clientList \in Seq(Clients) /\ clientList' \in Seq(Clients)
    BY <1>1 DEF PathTypeOK
  <2> QED BY <2>1 DEF Listed, ToSet
<1>3. /\ Listed' = Listed \cup {c} /\ IsInjective(clientList')
  BY <1>1, <1>2, AppendElems
<1>4. /\ clientList' \in Seq(Clients) /\ Len(clientList') = Len(clientList) + 1
      /\ \A i \in 1 .. Len(clientList) : clientList'[i] = clientList[i]
  BY <1>1, <1>2
<1>5. PathTypeOK'
  <2>1. client_list_size' \in 0 .. Len(clientList')
    BY <1>1, <1>4 DEF PathTypeOK
  <2>2. rx' \in [Clients -> Seq(Symbol)]
    <3>1. <<>> \in Seq(Symbol)
      OBVIOUS
    <3> QED BY <1>1, <3>1 DEF PathTypeOK
  <2> QED BY <1>1, <1>4, <2>1, <2>2 DEF PathTypeOK, frameVars, rtpVars
<1>6. Walked' = Walked /\ Walked \subseteq Listed
  <2>1. \A i \in 1 .. client_list_size : i \in 1 .. Len(clientList)
    BY DEF PathTypeOK
  <2>2. \A i \in 1 .. client_list_size : clientList'[i] = clientList[i]
    BY <1>4, <2>1
  <2>3. client_list_size' = client_list_size
    BY <1>1
  <2> QED BY <2>1, <2>2, <2>3 DEF Walked, Listed
<1>7. /\ lastSent'[c] = None /\ firstSent'[c] = None /\ ~iSendIframeFlag'[c]
  BY <1>1 DEF PathTypeOK
<1>8. ASSUME NEW d \in Listed', d # c
      PROVE  /\ d \in Listed
             /\ lastSent'[d] = lastSent[d] /\ firstSent'[d] = firstSent[d]
             /\ iSendIframeFlag'[d] = iSendIframeFlag[d] /\ iDeleteFlag'[d] = iDeleteFlag[d]
  BY <1>1, <1>3, <1>8 DEF PathTypeOK
<1>9. SentMeansReady'
  BY <1>7, <1>8 DEF SentMeansReady
<1>10. ReadyIsWalked'
  BY <1>1, <1>6, <1>7, <1>8 DEF ReadyIsWalked
<1>11. KeyFrameSwitches'
  <2>1. \A d \in Walked : d # c /\ d \in Listed'
    BY <1>1, <1>3, <1>6
  <2> QED BY <1>1, <1>6, <1>8, <2>1 DEF KeyFrameSwitches, frameVars, rtpVars
<1>12. WaitsForNext'
  BY <1>1, <1>7, <1>8 DEF WaitsForNext
<1>13. NoPacketSkipped'
  BY <1>1, <1>7, <1>8 DEF NoPacketSkipped, rtpVars
<1>14. StartsAfterKeyPacket'
  BY <1>7, <1>8 DEF StartsAfterKeyPacket
<1> QED BY <1>3, <1>5, <1>9, <1>10, <1>11, <1>12, <1>13, <1>14

LEMMA FlagKeepsWalk ==
  ASSUME WalkInv, NEW c \in Clients, ClientFlagged(c)
  PROVE  WalkInv'
<1> USE DEF WalkInv
<1>1. /\ iDeleteFlag' = [iDeleteFlag EXCEPT ![c] = TRUE]
      /\ UNCHANGED <<stage, frameVars, rtpVars, clientList, iSendIframeFlag,
                     client_list_size, rxVars>>
  BY DEF ClientFlagged
<1>2. PathTypeOK'
  BY <1>1 DEF PathTypeOK, frameVars, rtpVars, rxVars
<1>3. Listed' = Listed /\ Walked' = Walked /\ IsInjective(clientList)'
  BY <1>1 DEF Listed, Walked
<1>4. ASSUME NEW d, ~iDeleteFlag'[d], d \in Clients PROVE ~iDeleteFlag[d]
  BY <1>1, <1>4 DEF PathTypeOK
<1>5. Walked \subseteq Clients /\ Listed \subseteq Clients
  <2>1. /\ \A i \in 1 .. client_list_size : i \in 1 .. Len(clientList)
        /\ \A i \in 1 .. Len(clientList) : clientList[i] \in Clients
    BY DEF PathTypeOK
  <2> QED BY <2>1 DEF Walked, Listed
<1>6. SentMeansReady' /\ ReadyIsWalked' /\ StartsAfterKeyPacket'
  BY <1>1, <1>3 DEF SentMeansReady, ReadyIsWalked, StartsAfterKeyPacket, rxVars
<1>7. KeyFrameSwitches'
  BY <1>1, <1>3, <1>4, <1>5 DEF KeyFrameSwitches, frameVars, rtpVars
<1>8. WaitsForNext'
  BY <1>1, <1>3, <1>4, <1>5 DEF WaitsForNext, rxVars
<1>9. NoPacketSkipped'
  BY <1>1, <1>3, <1>4, <1>5 DEF NoPacketSkipped, rxVars, rtpVars
<1> QED BY <1>2, <1>3, <1>6, <1>7, <1>8, <1>9

\* Every step keeps the invariant of the walk.
LEMMA WalkNext == WalkInv /\ [PathNext]_pathAll => WalkInv'
<1> SUFFICES ASSUME WalkInv, [PathNext]_pathAll PROVE WalkInv'
  OBVIOUS
<1> DEFINE Empty == [c \in Clients |-> <<>>]
           Zero == [c \in Clients |-> 0]
<1>0. /\ PathTypeOK /\ Empty \in [Clients -> Seq(Symbol)] /\ Zero \in [Clients -> Nat]
  BY DEF WalkInv
<1>1. ASSUME NEW t \in {"I", "BP"}, NEW k \in 0 .. MaxFrame, PopFrame(t, k) PROVE WalkInv'
  <2>1. Headers(t) \in Seq(Symbol)
    BY HeadersType
  <2>2. PathTypeOK'
    BY <1>0, <1>1, <2>1, SizesAre DEF PopFrame, PathTypeOK, rtpVars, clientVars
  <2> QED BY <1>1, <2>2, SameClients DEF PopFrame, rtpVars
<1>2. CASE PesPacket
  <2> DEFINE done == cmd_length - frame_len
  <2>1. psBuf' \in Seq(Symbol) /\ frame_len' \in 0 .. cmd_length
    <3>1. frame_len \in Nat /\ cmd_length \in Nat /\ frame_len <= cmd_length
      BY <1>0, SizesAre DEF PathTypeOK
    <3>2. PesLen \in 0 .. frame_len
      BY <1>0, PesType
    <3>3. frame_len' = frame_len - PesLen
      BY <1>2 DEF PesPacket
    <3>4. psBuf' = psBuf \o PesHeader(frame_len) \o EsBytes(done, done + PesLen)
      BY <1>2 DEF PesPacket
    <3>5. psBuf' \in Seq(Symbol)
      BY <1>0, <3>4, PesType
    <3> QED BY <3>1, <3>2, <3>3, <3>5
  <2>2. PathTypeOK'
    BY <1>0, <1>2, <2>1 DEF PesPacket, PathTypeOK, rtpVars, clientVars, rxVars
  <2> QED BY <1>2, <2>2, SameClients DEF PesPacket, rtpVars, rxVars
<1>3. CASE SetPack
  <2>1. PathTypeOK'
    BY <1>0, <1>3 DEF SetPack, PathTypeOK, frameVars, clientVars
  <2> QED BY <1>3, <2>1, SameClients DEF SetPack
<1>4. CASE SendPacket
  BY <1>4, PacketKeepsWalk
<1>5. CASE FrameSent
  <2>1. PathTypeOK'
    <3>1. psBuf' \in Seq(Symbol) /\ frame_len' = 0 /\ 0 \in 0 .. MaxFrame
      BY <1>0, <1>5, SizesAre DEF FrameSent, PathTypeOK
    <3>2. rx' \in [Clients -> Seq(Symbol)] /\ marked' \in [Clients -> Nat]
      BY <1>0, <1>5 DEF FrameSent
    <3>3. /\ cmd_length' = 0 /\ rtpEnd' = 0 /\ client_list_size' = 0 /\ stage' = "pop"
          /\ UNCHANGED <<seq_no, clientVars, firstSent, lastSent, afterKey>>
          /\ data_type' = "I" /\ FU_flag' = FALSE /\ wasReady' \in [Clients -> BOOLEAN]
      BY <1>5 DEF FrameSent
    <3>4. client_list_size' \in 0 .. Len(clientList') /\ clientList' \in Seq(Clients)
      BY <1>0, <3>3 DEF PathTypeOK, clientVars
    <3>5. cmd_length' \in 0 .. MaxFrame /\ frame_len' \in 0 .. cmd_length' /\ rtpEnd' \in Nat
      BY <3>1, <3>3
    <3> QED BY <1>0, <3>1, <3>2, <3>3, <3>4, <3>5 DEF PathTypeOK, clientVars
  <2> QED BY <1>5, <2>1, SameClients DEF FrameSent
<1>6. CASE TaskQuits
  <2>1. PathTypeOK'
    BY <1>0, <1>6 DEF TaskQuits, PathTypeOK, frameVars, rtpVars, clientVars, rxVars
  <2> QED BY <1>6, <2>1, SameClients DEF TaskQuits, rtpVars, rxVars
<1>7. ASSUME NEW c \in Clients, ClientJoins(c) PROVE WalkInv'
  BY <1>7, JoinKeepsWalk
<1>8. ASSUME NEW c \in Clients, ClientFlagged(c) PROVE WalkInv'
  BY <1>8, FlagKeepsWalk
<1>9. CASE UNCHANGED pathAll
  <2>1. PathTypeOK'
    BY <1>0, <1>9 DEF pathAll, PathTypeOK, frameVars, rtpVars, clientVars, rxVars
  <2> QED BY <1>9, <2>1, SameClients DEF pathAll, frameVars, rtpVars, rxVars
<1> QED BY <1>1, <1>2, <1>3, <1>4, <1>5, <1>6, <1>7, <1>8, <1>9 DEF PathNext, TaskStep

\* The variables keep their types: the packets stay in the buffer, the walk in
\* the list.
THEOREM PathTypeCorrect == PathSpec => []PathTypeOK
<1>1. WalkInv => PathTypeOK
  BY DEF WalkInv
<1> QED BY <1>1, WalkInit, WalkNext, PTL DEF PathSpec

\* rtp_pack.c: a client gets every packet of the node from its first one on,
\* whoever comes, goes or is flagged between two packets, for every number of
\* clients and every range of the sequence numbers.
THEOREM PacketsFollow == PathSpec => []NoPacketSkipped
<1>1. WalkInv => NoPacketSkipped
  BY DEF WalkInv
<1> QED BY <1>1, WalkInit, WalkNext, PTL DEF PathSpec

\* rtp_pack.c: the packet after the first one of an I frame is the first that a
\* client gets.
THEOREM ClientsStartAfterKey == PathSpec => []StartsAfterKeyPacket
<1>1. WalkInv => StartsAfterKeyPacket
  BY DEF WalkInv
<1> QED BY <1>1, WalkInit, WalkNext, PTL DEF PathSpec

-----------------------------------------------------------------------------
\* What a decoder finds

Found0 == Seq(Nat \cup {None})

\* the bytes of the PES packet at p
PesBytes(s, p) ==
  [i \in 1 .. s[p].n - PS_PES_PPL_LENGTH |->
     LET b == s[p + PS_PES_PPL_LENGTH + i]
     IN  IF b.k = "es" THEN b.n ELSE 0]

\* what it finds from p on, when f is what it finds from later places on
DemuxAt(s, f, p) ==
  IF p = Len(s) + 1 THEN <<>>
  ELSE IF s[p].k = "pack"
       THEN IF p + PackSize <= Len(s) + 1 THEN f[p + PackSize] ELSE <<None>>
  ELSE IF s[p].k \notin {"sys", "map", "pes"} \/ p + 1 + s[p].n > Len(s) + 1 THEN <<None>>
  ELSE IF s[p].k # "pes" THEN f[p + 1 + s[p].n]
  ELSE PesBytes(s, p) \o f[p + 1 + s[p].n]

\* what it finds from each place of s on
IsTable(s, f) == \A p \in 1 .. Len(s) + 1 : f[p] = DemuxAt(s, f, p)
Tables(s) == {f \in [1 .. Len(s) + 1 -> Found0] : IsTable(s, f)}

\* x is what follows the first k symbols of s
IsRest(s, x, k) == Len(s) = k + Len(x) /\ \A i \in 1 .. Len(x) : s[k + i] = x[i]

LEMMA SymbolFacts ==
  ASSUME NEW s \in Seq(Symbol), NEW p \in 1 .. Len(s)
  PROVE  s[p] \in Symbol /\ s[p].n \in Nat
<1>1. s[p] \in Symbol
  OBVIOUS
<1> QED BY <1>1 DEF Symbol

LEMMA PesBytesType ==
  ASSUME NEW s \in Seq(Symbol), NEW p \in 1 .. Len(s), p + s[p].n <= Len(s)
  PROVE  PesBytes(s, p) \in Found0
<1> DEFINE m == s[p].n - PS_PES_PPL_LENGTH
           g(i) == LET b == s[p + PS_PES_PPL_LENGTH + i]
                   IN  IF b.k = "es" THEN b.n ELSE 0
<1>1. s[p].n \in Nat /\ m \in Int
  BY SymbolFacts, SizesAre
<1>2. ASSUME NEW i \in 1 .. m PROVE g(i) \in Nat
  <2>1. p + PS_PES_PPL_LENGTH + i \in 1 .. Len(s)
    BY <1>1, SizesAre
  <2> QED BY <2>1, SymbolFacts
<1>3. PesBytes(s, p) = [i \in 1 .. m |-> g(i)]
  BY DEF PesBytes
<1> HIDE DEF g
<1>4. CASE m \in Nat
  <2>1. [i \in 1 .. m |-> g(i)] \in Seq(Nat \cup {None})
    <3> HIDE DEF m
    <3> QED BY <1>2, <1>4
  <2> QED BY <1>3, <2>1 DEF Found0
<1>5. CASE m \notin Nat
  <2>1. 1 .. m = {}
    BY <1>1, <1>5
  <2>2. [i \in 1 .. m |-> g(i)] = <<>>
    <3> HIDE DEF m
    <3> QED BY <2>1
  <2>3. <<>> \in Found0
    BY DEF Found0
  <2> HIDE DEF m
  <2> QED BY <1>3, <2>2, <2>3
<1> QED BY <1>4, <1>5

\* DemuxAt gives what it should and looks at later places only.
LEMMA DemuxAtType ==
  ASSUME NEW s \in Seq(Symbol), NEW f \in [1 .. Len(s) + 1 -> Found0],
         NEW p \in 1 .. Len(s) + 1
  PROVE  DemuxAt(s, f, p) \in Found0
<1>1. <<>> \in Found0 /\ <<None>> \in Found0 /\ Len(s) \in Nat
  BY DEF Found0
<1>2. CASE p = Len(s) + 1
  BY <1>1, <1>2 DEF DemuxAt
<1>3. CASE p # Len(s) + 1
  <2>1. p \in 1 .. Len(s) /\ s[p].n \in Nat
    BY <1>1, <1>3, SymbolFacts
  <2>2. p + PackSize <= Len(s) + 1 => p + PackSize \in 1 .. Len(s) + 1
    BY <1>1, SizesAre
  <2>3. p + 1 + s[p].n <= Len(s) + 1 => /\ p + 1 + s[p].n \in 1 .. Len(s) + 1
                                        /\ PesBytes(s, p) \in Found0
    BY <1>1, <2>1, PesBytesType
  <2>4. \A a \in Found0, b \in Found0 : a \o b \in Found0
    BY DEF Found0
  <2>5. p + 1 + s[p].n > Len(s) + 1 \/ p + 1 + s[p].n <= Len(s) + 1
    BY <1>1, <2>1
  <2> QED BY <1>1, <1>3, <2>2, <2>3, <2>4, <2>5 DEF DemuxAt
<1> QED BY <1>2, <1>3

LEMMA DemuxAtLater ==
  ASSUME NEW s \in Seq(Symbol), NEW p \in 1 .. Len(s) + 1, NEW f, NEW g,
         \A q \in 1 .. Len(s) + 1 : q > p => f[q] = g[q]
  PROVE  DemuxAt(s, f, p) = DemuxAt(s, g, p)
<1>1. CASE p = Len(s) + 1
  BY <1>1 DEF DemuxAt
<1>2. CASE p # Len(s) + 1
  <2>1. p \in 1 .. Len(s) /\ s[p].n \in Nat /\ Len(s) \in Nat
    BY <1>2, SymbolFacts
  <2>2. p + PackSize <= Len(s) + 1 => f[p + PackSize] = g[p + PackSize]
    <3>1. p + PackSize <= Len(s) + 1 => p + PackSize \in 1 .. Len(s) + 1 /\ p + PackSize > p
      BY <2>1, SizesAre
    <3> QED BY <3>1
  <2>3. ~(p + 1 + s[p].n > Len(s) + 1) => f[p + 1 + s[p].n] = g[p + 1 + s[p].n]
    <3>1. ~(p + 1 + s[p].n > Len(s) + 1) =>
            p + 1 + s[p].n \in 1 .. Len(s) + 1 /\ p + 1 + s[p].n > p
      BY <2>1
    <3> QED BY <3>1
  <2> QED BY <1>2, <2>2, <2>3 DEF DemuxAt
<1> QED BY <1>1, <1>2

\* The places of a string behind another one give what they give alone.
LEMMA DemuxBehind ==
  ASSUME NEW s \in Seq(Symbol), NEW x \in Seq(Symbol), NEW k \in Nat,
         IsRest(s, x, k), NEW f, NEW g, IsTable(s, f), IsTable(x, g)
  PROVE  \A p \in 1 .. Len(x) + 1 : f[k + p] = g[p]
<1> DEFINE L == Len(x)
           T == {d \in Nat : \A p \in 1 .. L + 1 : p >= L + 1 - d => f[k + p] = g[p]}
<1> USE DEF IsRest, IsTable
<1>1. L \in Nat /\ Len(s) = k + L
  OBVIOUS
<1>2. ASSUME NEW p \in 1 .. L + 1, \A q \in 1 .. L + 1 : q > p => f[k + q] = g[q]
      PROVE  f[k + p] = g[p]
  <2>0. Len(s) + 1 = k + L + 1 /\ p \in Nat /\ k \in Nat /\ p >= 1 /\ p <= L + 1
    BY <1>1
  <2>1. k + p \in 1 .. Len(s) + 1 /\ (k + p = Len(s) + 1 <=> p = L + 1)
    <3> HIDE DEF L
    <3> QED BY <1>1, <2>0
  <2>2. f[k + p] = DemuxAt(s, f, k + p) /\ g[p] = DemuxAt(x, g, p)
    BY <2>1
  <2>3. CASE p = L + 1
    BY <2>1, <2>2, <2>3 DEF DemuxAt
  <2>4. CASE p # L + 1
    <3>1. p \in 1 .. L /\ s[k + p] = x[p] /\ x[p].n \in Nat
      BY <1>1, <2>4, SymbolFacts
    <3>2. k + p + PackSize <= Len(s) + 1 <=> p + PackSize <= L + 1
      BY <1>1, <3>1, SizesAre
    <3>3. p + PackSize <= L + 1 => f[(k + p) + PackSize] = g[p + PackSize]
      <4>1. p + PackSize <= L + 1 => p + PackSize \in 1 .. L + 1 /\ p + PackSize > p
        BY <1>1, <3>1, SizesAre
      <4>2. (k + p) + PackSize = k + (p + PackSize)
        BY <3>1, SizesAre
      <4> QED BY <1>2, <4>1, <4>2
    <3>4. (k + p) + 1 + x[p].n > Len(s) + 1 <=> p + 1 + x[p].n > L + 1
      <4> DEFINE v == x[p].n
      <4>1. v \in Nat
        BY <3>1
      <4> HIDE DEF v, L
      <4>2. (k + p) + 1 + v > Len(s) + 1 <=> p + 1 + v > L + 1
        BY <1>1, <2>0, <4>1
      <4> QED BY <4>2 DEF v
    <3>5. ~(p + 1 + x[p].n > L + 1) => f[(k + p) + 1 + x[p].n] = g[p + 1 + x[p].n]
      <4>1. ~(p + 1 + x[p].n > L + 1) => p + 1 + x[p].n \in 1 .. L + 1 /\ p + 1 + x[p].n > p
        BY <1>1, <3>1, SMTT(30)
      <4>2. (k + p) + 1 + x[p].n = k + (p + 1 + x[p].n)
        <5> DEFINE v == x[p].n
        <5>1. v \in Nat
          BY <3>1
        <5> HIDE DEF v
        <5>2. (k + p) + 1 + v = k + (p + 1 + v)
          BY <2>0, <5>1
        <5> QED BY <5>2 DEF v
      <4> QED BY <1>2, <4>1, <4>2
    <3>6. ~(p + 1 + x[p].n > L + 1) => PesBytes(s, k + p) = PesBytes(x, p)
      <4> DEFINE m == x[p].n - PS_PES_PPL_LENGTH
      <4>1. SUFFICES ASSUME ~(p + 1 + x[p].n > L + 1) PROVE PesBytes(s, k + p) = PesBytes(x, p)
        OBVIOUS
      <4>2. ASSUME NEW i \in 1 .. m
            PROVE  s[(k + p) + PS_PES_PPL_LENGTH + i] = x[p + PS_PES_PPL_LENGTH + i]
        <5>1. p + PS_PES_PPL_LENGTH + i \in 1 .. L
          BY <1>1, <3>1, <4>1, SizesAre
        <5>2. (k + p) + PS_PES_PPL_LENGTH + i = k + (p + PS_PES_PPL_LENGTH + i)
          BY <3>1, SizesAre
        <5> QED BY <5>1, <5>2
      <4> QED BY <3>1, <4>2 DEF PesBytes
    <3> QED BY <2>1, <2>2, <2>4, <3>1, <3>2, <3>3, <3>4, <3>5, <3>6 DEF DemuxAt
  <2> QED BY <2>3, <2>4
<1> HIDE DEF L
<1>3. 0 \in T
  <2>1. ASSUME NEW p \in 1 .. L + 1, p >= L + 1 - 0 PROVE f[k + p] = g[p]
    <3>1. \A q \in 1 .. L + 1 : ~(q > p)
      BY <1>1, <2>1
    <3> QED BY <1>2, <3>1
  <2> QED BY <2>1
<1>4. ASSUME NEW d \in Nat, d \in T PROVE d + 1 \in T
  <2>1. ASSUME NEW p \in 1 .. L + 1, p >= L + 1 - (d + 1) PROVE f[k + p] = g[p]
    <3>1. \A q \in 1 .. L + 1 : q > p => q >= L + 1 - d
      BY <1>1, <2>1
    <3> QED BY <1>2, <1>4, <3>1
  <2> QED BY <2>1
<1>5. Nat \subseteq T
  <2> HIDE DEF T
  <2> QED BY <1>3, <1>4, SetInduction
<1>6. L + 1 \in T /\ \A p \in 1 .. L + 1 : p >= L + 1 - (L + 1)
  <2> HIDE DEF T
  <2>1. L + 1 \in Nat
    BY <1>1
  <2> QED BY <1>1, <1>5, <2>1
<1> QED BY <1>6 DEF L

\* There is one table, and Demux reads its first place.
LEMMA TablesExist ==
  ASSUME NEW s \in Seq(Symbol)
  PROVE  Tables(s) # {}
<1> DEFINE L == Len(s)
           V == [1 .. L + 1 -> Found0]
           F == [x \in Nat \X V |->
                   IF x[1] \in 1 .. L
                   THEN [x[2] EXCEPT ![L + 1 - x[1]] = DemuxAt(s, x[2], L + 1 - x[1])]
                   ELSE x[2]]
           f0 == [p \in 1 .. L + 1 |-> <<>>]
<1>1. L \in Nat /\ f0 \in V
  BY DEF Found0
<1>2. F \in [Nat \X V -> V]
  <2>1. ASSUME NEW x \in Nat \X V PROVE F[x] \in V
    <3>1. x[2] \in V /\ x[1] \in Nat
      OBVIOUS
    <3>2. CASE x[1] \in 1 .. L
      <4>1. L + 1 - x[1] \in 1 .. L + 1
        BY <1>1, <3>2
      <4>2. DemuxAt(s, x[2], L + 1 - x[1]) \in Found0
        BY <3>1, <4>1, DemuxAtType
      <4> QED BY <3>1, <3>2, <4>1, <4>2
    <3>3. CASE x[1] \notin 1 .. L
      BY <3>1, <3>3
    <3> QED BY <3>2, <3>3
  <2> QED BY <2>1
<1> HIDE DEF F
<1>3. PICK g \in Recursions(V, f0, F, L) : TRUE
  <2> HIDE DEF V, f0, L
  <2> QED BY <1>1, <1>2, RecursionExists
<1>4. /\ g \in [0 .. L -> V] /\ g[0] = f0
      /\ \A d \in 1 .. L : g[d] = F[<<d, g[d - 1]>>]
  BY <1>3 DEF Recursions
<1> DEFINE Right(d) == \A p \in 1 .. L + 1 : p >= L + 1 - d => g[d][p] = DemuxAt(s, g[d], p)
           T == {d \in Nat : d \in 0 .. L => Right(d)}
<1>5. 0 \in T
  <2>1. ASSUME NEW p \in 1 .. L + 1, p >= L + 1 - 0 PROVE g[0][p] = DemuxAt(s, g[0], p)
    <3>1. p = L + 1
      BY <1>1, <2>1
    <3>2. g[0][p] = <<>>
      BY <1>4
    <3> QED BY <3>1, <3>2 DEF DemuxAt
  <2> QED BY <2>1
<1>6. ASSUME NEW d \in Nat, d \in T PROVE d + 1 \in T
  <2> SUFFICES ASSUME d + 1 \in 0 .. L PROVE Right(d + 1)
    OBVIOUS
  <2>1. d \in 0 .. L /\ d + 1 \in 1 .. L /\ (d + 1) - 1 = d /\ L - d \in 1 .. L + 1
        /\ L + 1 - (d + 1) = L - d
    BY <1>1
  <2>2. Right(d) /\ g[d] \in V
    BY <1>4, <1>6, <2>1
  <2>3. g[d + 1] = [g[d] EXCEPT ![L - d] = DemuxAt(s, g[d], L - d)]
    <3>1. g[d + 1] = F[<<d + 1, g[d]>>] /\ <<d + 1, g[d]>> \in Nat \X V
      <4>1. d + 1 \in Nat /\ g[d] \in V
        BY <2>2
      <4>2. g[d + 1] = F[<<d + 1, g[(d + 1) - 1]>>]
        BY <1>4, <2>1
      <4> HIDE DEF V
      <4> QED BY <2>1, <4>1, <4>2
    <3>2. F[<<d + 1, g[d]>>] =
            [g[d] EXCEPT ![L + 1 - (d + 1)] = DemuxAt(s, g[d], L + 1 - (d + 1))]
      BY <2>1, <3>1 DEF F
    <3> QED BY <2>1, <3>1, <3>2
  <2>4. \A q \in 1 .. L + 1 : q # L - d => g[d + 1][q] = g[d][q]
    BY <2>2, <2>3
  <2>5. g[d + 1][L - d] = DemuxAt(s, g[d], L - d)
    BY <2>1, <2>2, <2>3
  <2>6. ASSUME NEW p \in 1 .. L + 1, p >= L - d
        PROVE  DemuxAt(s, g[d + 1], p) = DemuxAt(s, g[d], p)
    <3>1. \A q \in 1 .. L + 1 : q > p => q # L - d
      BY <1>1, <2>6
    <3>2. \A q \in 1 .. Len(s) + 1 : q > p => g[d + 1][q] = g[d][q]
      BY <2>4, <3>1
    <3> HIDE DEF L
    <3>3. p \in 1 .. Len(s) + 1
      BY DEF L
    <3> QED BY <3>2, <3>3, DemuxAtLater
  <2>7. ASSUME NEW p \in 1 .. L + 1, p >= L - d
        PROVE  g[d + 1][p] = DemuxAt(s, g[d + 1], p)
    <3>1. CASE p = L - d
      BY <2>5, <2>6, <3>1
    <3>2. CASE p # L - d
      <4>1. p >= L + 1 - d
        BY <1>1, <2>7, <3>2
      <4> QED BY <2>2, <2>4, <2>6, <2>7, <3>2, <4>1
    <3> QED BY <3>1, <3>2
  <2> QED BY <2>1, <2>7
<1>7. Nat \subseteq T
  <2> HIDE DEF T
  <2> QED BY <1>5, <1>6, SetInduction
<1>8. g[L] \in V /\ Right(L)
  <2>1. L \in T /\ L \in 0 .. L
    BY <1>1, <1>7
  <2> QED BY <1>4, <2>1
<1>9. \A p \in 1 .. L + 1 : g[L][p] = DemuxAt(s, g[L], p)
  BY <1>1, <1>8
<1> QED BY <1>8, <1>9 DEF Tables, IsTable

LEMMA DemuxIs ==
  ASSUME NEW s \in Seq(Symbol), NEW f \in Tables(s)
  PROVE  Demux(s) = f[1] /\ f[1] \in Found0
<1> DEFINE Def(h) == h = [p \in 1 .. Len(s) + 1 |-> DemuxAt(s, h, p)]
           e == CHOOSE h : Def(h)
<1>1. /\ f \in [1 .. Len(s) + 1 -> Found0]
      /\ \A p \in 1 .. Len(s) + 1 : f[p] = DemuxAt(s, f, p)
      /\ Len(s) \in Nat
  BY DEF Tables, IsTable
<1>2. Def(f)
  <2>1. f = [p \in 1 .. Len(s) + 1 |-> f[p]]
    BY <1>1
  <2> QED BY <1>1, <2>1
<1>3. Def(e)
  BY <1>2
<1>4. Demux(s) = e[1]
  BY DEF Demux, DemuxAt, PesBytes
<1> HIDE DEF e
<1>5. \A p \in 1 .. Len(s) + 1 : e[p] = DemuxAt(s, e, p)
  BY <1>3
<1>6. \A p \in 1 .. Len(s) + 1 : e[0 + p] = f[p]
  <2>1. IsTable(s, f) /\ IsTable(s, e) /\ IsRest(s, s, 0)
    BY <1>1, <1>5 DEF IsTable, IsRest
  <2> QED BY <1>1, <2>1, DemuxBehind
<1>7. 1 \in 1 .. Len(s) + 1
  BY <1>1
<1>8. e[0 + 1] = f[1] /\ f[1] \in Found0
  BY <1>1, <1>6, <1>7
<1> QED BY <1>4, <1>8

\* What a decoder finds in a header, and then behind it.
LEMMA DemuxStep ==
  ASSUME NEW h \in Seq(Symbol), NEW x \in Seq(Symbol), h # <<>>
  PROVE  /\ Demux(x) \in Found0
         /\ h[1].k = "pack" /\ Len(h) = PackSize => Demux(h \o x) = Demux(x)
         /\ h[1].k \in {"sys", "map"} /\ Len(h) = 1 + h[1].n => Demux(h \o x) = Demux(x)
         /\ h[1].k = "pes" /\ Len(h) = 1 + h[1].n =>
              Demux(h \o x) = PesBytes(h, 1) \o Demux(x)
<1> DEFINE s == h \o x
           k == Len(h)
<1>1. /\ s \in Seq(Symbol) /\ k \in Nat /\ k >= 1 /\ Len(s) = k + Len(x) /\ Len(x) \in Nat
      /\ \A i \in 1 .. k : s[i] = h[i]
      /\ \A i \in 1 .. Len(x) : s[k + i] = x[i]
  OBVIOUS
<1>2. PICK f \in Tables(s) : TRUE
  BY <1>1, TablesExist
<1>3. PICK g \in Tables(x) : TRUE
  BY TablesExist
<1>4. Demux(s) = f[1] /\ Demux(x) = g[1] /\ Demux(x) \in Found0
  BY <1>1, <1>2, <1>3, DemuxIs
<1> HIDE DEF s, k
<1>5. IsTable(s, f) /\ IsTable(x, g)
  BY <1>2, <1>3 DEF Tables
<1>6. \A p \in 1 .. Len(x) + 1 : f[k + p] = g[p]
  <2>1. s \in Seq(Symbol) /\ k \in Nat /\ IsRest(s, x, k)
    BY <1>1 DEF IsRest
  <2> QED BY <1>5, <2>1, DemuxBehind
<1>7. f[1 + k] = Demux(x)
  <2>1. 1 \in 1 .. Len(x) + 1 /\ k + 1 = 1 + k
    BY <1>1
  <2> QED BY <1>4, <1>6, <2>1
<1>8. Demux(s) = DemuxAt(s, f, 1) /\ 1 # Len(s) + 1 /\ 1 + k <= Len(s) + 1 /\ s[1] = h[1]
  <2>1. 1 \in 1 .. Len(s) + 1 /\ 1 \in 1 .. k /\ 1 # Len(s) + 1 /\ 1 + k <= Len(s) + 1
    BY <1>1
  <2> QED BY <1>1, <1>4, <1>5, <2>1 DEF IsTable
<1>9. CASE h[1].k = "pack" /\ k = PackSize
  BY <1>4, <1>7, <1>8, <1>9 DEF DemuxAt, s, k
<1>10. ASSUME k = 1 + h[1].n, h[1].k \in {"sys", "map", "pes"}
       PROVE  /\ h[1].k # "pes" => Demux(s) = Demux(x)
              /\ h[1].k = "pes" => Demux(s) = PesBytes(s, 1) \o Demux(x)
  <2>1. h[1].n \in Nat
    <3>1. 1 \in 1 .. Len(h)
      BY <1>1 DEF k
    <3> QED BY <3>1, SymbolFacts
  <2>2. 1 + 1 + h[1].n = 1 + k /\ ~(1 + 1 + h[1].n > Len(s) + 1)
    <3> DEFINE v == h[1].n
    <3>1. v \in Nat /\ k = 1 + v
      BY <1>10, <2>1
    <3> HIDE DEF v
    <3>2. 1 + 1 + v = 1 + k /\ ~(1 + 1 + v > Len(s) + 1)
      BY <1>1, <1>8, <3>1
    <3> QED BY <3>2 DEF v
  <2>3. h[1].k # "pack"
    BY <1>10
  <2> QED BY <1>7, <1>8, <1>10, <2>2, <2>3 DEF DemuxAt
<1>11. k = 1 + h[1].n => PesBytes(s, 1) = PesBytes(h, 1)
  <2> SUFFICES ASSUME k = 1 + h[1].n PROVE PesBytes(s, 1) = PesBytes(h, 1)
    OBVIOUS
  <2>1. h[1].n \in Nat
    <3>1. 1 \in 1 .. Len(h)
      BY <1>1 DEF k
    <3> QED BY <3>1, SymbolFacts
  <2> DEFINE m == h[1].n - PS_PES_PPL_LENGTH
  <2>2. ASSUME NEW i \in 1 .. m
        PROVE  s[1 + PS_PES_PPL_LENGTH + i] = h[1 + PS_PES_PPL_LENGTH + i]
    <3>1. 1 + PS_PES_PPL_LENGTH + i \in 1 .. k
      BY <2>1, SizesAre
    <3> QED BY <1>1, <3>1
  <2> QED BY <1>8, <2>2 DEF PesBytes
<1> QED BY <1>4, <1>9, <1>10, <1>11 DEF s, k

LEMMA DemuxNothing == Demux(<<>>) = <<>>
<1>1. <<>> \in Seq(Symbol) /\ Len(<<>>) = 0
  OBVIOUS
<1>2. PICK f \in Tables(<<>>) : TRUE
  BY <1>1, TablesExist
<1>3. f[1] = DemuxAt(<<>>, f, 1)
  <2>1. 1 \in 1 .. Len(<<>>) + 1
    BY <1>1
  <2> QED BY <1>2, <2>1 DEF Tables, IsTable
<1>4. DemuxAt(<<>>, f, 1) = <<>>
  BY <1>1 DEF DemuxAt
<1> QED BY <1>1, <1>2, <1>3, <1>4, DemuxIs

\* The headers before the frame hold nothing of it.
LEMMA HeadersHoldNothing ==
  ASSUME NEW t \in {"I", "BP"}, NEW x \in Seq(Symbol)
  PROVE  Demux(Headers(t) \o x) = Demux(x)
<1>1. /\ PackHeader \in Seq(Symbol) /\ Len(PackHeader) = PackSize
      /\ PackHeader # <<>> /\ PackHeader[1].k = "pack"
  <2>1. PackHeader \in Seq(Symbol) /\ Len(PackHeader) = PackSize
    BY RunType, SizesAre DEF PackHeader
  <2>2. PackHeader[1] = Sym("pack", 0)
    <3>1. 1 \in 1 .. PackSize
      BY SizesAre
    <3> QED BY <3>1, SizesAre, RunType DEF PackHeader
  <2>3. Sym("pack", 0).k = "pack"
    BY SymType
  <2> QED BY <2>1, <2>2, <2>3, SizesAre
<1>2. /\ SystemHeader \in Seq(Symbol) /\ SystemHeader # <<>>
      /\ SystemHeader[1].k = "sys" /\ Len(SystemHeader) = 1 + SystemHeader[1].n
  <2>1. /\ SystemHeader \in Seq(Symbol) /\ Len(SystemHeader) = HL + 1
        /\ SystemHeader[1] = Sym("sys", HL)
    BY HeaderType, SizesAre DEF SystemHeader
  <2>2. Sym("sys", HL).k = "sys" /\ Sym("sys", HL).n = HL
    BY SymType, SizesAre
  <2> QED BY <2>1, <2>2, SizesAre
<1>3. /\ MapHeader \in Seq(Symbol) /\ MapHeader # <<>>
      /\ MapHeader[1].k = "map" /\ Len(MapHeader) = 1 + MapHeader[1].n
  <2>1. /\ MapHeader \in Seq(Symbol) /\ Len(MapHeader) = PSML + 1
        /\ MapHeader[1] = Sym("map", PSML)
    BY HeaderType, SizesAre DEF MapHeader
  <2>2. Sym("map", PSML).k = "map" /\ Sym("map", PSML).n = PSML
    BY SymType, SizesAre
  <2> QED BY <2>1, <2>2, SizesAre
<1>4. CASE t = "I"
  <2>1. MapHeader \o x \in Seq(Symbol) /\ Demux(MapHeader \o x) = Demux(x)
    BY <1>3, DemuxStep
  <2>2. SystemHeader \o (MapHeader \o x) \in Seq(Symbol)
        /\ Demux(SystemHeader \o (MapHeader \o x)) = Demux(x)
    <3> DEFINE y == MapHeader \o x
    <3>1. y \in Seq(Symbol) /\ Demux(y) = Demux(x)
      BY <2>1
    <3> HIDE DEF y
    <3>2. SystemHeader \o y \in Seq(Symbol) /\ Demux(SystemHeader \o y) = Demux(y)
      BY <1>2, <3>1, DemuxStep
    <3> QED BY <3>1, <3>2 DEF y
  <2>3. Demux(PackHeader \o (SystemHeader \o (MapHeader \o x))) = Demux(x)
    BY <1>1, <2>2, DemuxStep
  <2>4. Headers(t) = PackHeader \o (SystemHeader \o MapHeader)
    BY <1>4 DEF Headers
  <2>5. (PackHeader \o (SystemHeader \o MapHeader)) \o x
          = PackHeader \o (SystemHeader \o (MapHeader \o x))
    <3>1. /\ PackHeader \in Seq(Symbol) /\ SystemHeader \in Seq(Symbol)
          /\ MapHeader \in Seq(Symbol)
      BY <1>1, <1>2, <1>3
    <3>2. SystemHeader \o MapHeader \in Seq(Symbol)
      BY <3>1
    <3>3. (PackHeader \o (SystemHeader \o MapHeader)) \o x
            = PackHeader \o ((SystemHeader \o MapHeader) \o x)
      BY <3>1, <3>2, ConcatAssociative, SMTT(30)
    <3>4. (SystemHeader \o MapHeader) \o x = SystemHeader \o (MapHeader \o x)
      BY <3>1, ConcatAssociative
    <3> QED BY <3>3, <3>4
  <2> QED BY <2>3, <2>4, <2>5
<1>5. CASE t # "I"
  <2>1. Headers(t) = PackHeader
    BY <1>1, <1>5 DEF Headers
  <2> QED BY <1>1, <2>1, DemuxStep
<1> QED BY <1>4, <1>5

\* a bytes of a frame, and then m more
Piece(a, m) == [i \in 1 .. m |-> a + i]

LEMMA WholeGrows ==
  ASSUME NEW a \in Nat, NEW m \in Nat
  PROVE  /\ Whole(a) \in Found0 /\ Piece(a, m) \in Found0
         /\ Whole(a) \o Piece(a, m) = Whole(a + m)
<1>1. /\ Whole(a) \in Seq(Nat) /\ Piece(a, m) \in Seq(Nat) /\ Whole(a + m) \in Seq(Nat)
  BY DEF Whole, Piece
<1>2. Len(Whole(a)) = a /\ Len(Piece(a, m)) = m /\ Len(Whole(a + m)) = a + m
  BY DEF Whole, Piece
<1>3. ASSUME NEW i \in 1 .. a + m PROVE (Whole(a) \o Piece(a, m))[i] = Whole(a + m)[i]
  <2>1. Whole(a + m)[i] = i
    BY DEF Whole
  <2>4. i \in Int /\ (i <= a \/ i > a)
    OBVIOUS
  <2>2. CASE i <= a
    <3>1. i \in 1 .. a
      BY <2>2
    <3>2. (Whole(a) \o Piece(a, m))[i] = Whole(a)[i]
      BY <1>1, <1>2, <3>1
    <3> QED BY <2>1, <3>1, <3>2 DEF Whole
  <2>3. CASE i > a
    <3>1. i - a \in 1 .. m /\ a + (i - a) = i
      BY <2>3
    <3>2. (Whole(a) \o Piece(a, m))[i] = Piece(a, m)[i - a]
      <4> DEFINE u == Whole(a)
                 v == Piece(a, m)
      <4>1. u \in Seq(Nat) /\ v \in Seq(Nat) /\ Len(u) = a /\ Len(v) = m
        BY <1>1, <1>2
      <4> HIDE DEF u, v
      <4>2. (u \o v)[i] = v[i - a]
        <5>1. i \in 1 .. Len(u) + Len(v) /\ ~(i <= Len(u))
          BY <1>1, <2>3, <4>1
        <5>2. \A j \in 1 .. Len(u) + Len(v) :
                (u \o v)[j] = IF j <= Len(u) THEN u[j] ELSE v[j - Len(u)]
          BY <4>1, ConcatProperties
        <5> QED BY <4>1, <5>1, <5>2
      <4> QED BY <4>2 DEF u, v
    <3> QED BY <2>1, <3>1, <3>2 DEF Piece
  <2> QED BY <2>2, <2>3, <2>4
<1> DEFINE w == Whole(a) \o Piece(a, m)
           v == Whole(a + m)
<1>4. w \in Seq(Nat) /\ Len(w) = Len(v) /\ Len(v) = a + m /\ v \in Seq(Nat)
  BY <1>1, <1>2
<1> HIDE DEF w, v
<1>5. w = v
  <2>1. \A i \in 1 .. Len(w) : w[i] = v[i]
    BY <1>3, <1>4 DEF w, v
  <2> QED BY <1>4, <2>1, SeqEqual
<1>6. Seq(Nat) \subseteq Found0
  BY DEF Found0
<1> QED BY <1>1, <1>5, <1>6 DEF w, v

CutOf(n) == IF n > MAX_PES_PACKET_LENGTH THEN MAX_PES_PACKET_LENGTH ELSE n
PesPiece(n, a, m) == PesHeader(n) \o EsBytes(a, a + m)
\* a decoder finds w in h, whatever follows
Holds(h, w) == \A x \in Seq(Symbol) : Demux(h \o x) = w \o Demux(x)

\* A PES packet holds the piece of the frame that was put into it, although
\* its length field cannot tell every length.
LEMMA PesHoldsPiece ==
  ASSUME NEW n \in Nat, NEW a \in Nat, NEW m \in Nat, m = CutOf(n)
  PROVE  Holds(PesPiece(n, a, m), Piece(a, m))
<1> DEFINE p == PesHeader(n)
           e == EsBytes(a, a + m)
           h == p \o e
           k == PS_PES_PPL_LENGTH
<1>1. /\ p \in Seq(Symbol) /\ Len(p) = k + 1 /\ p[1] = Sym("pes", PPL(n)) /\ PPL(n) \in Nat
  BY PPLType, HeaderType, SizesAre DEF PesHeader
<1>2. /\ e \in Seq(Symbol) /\ Len(e) = m
      /\ \A i \in 1 .. m : e[i] = Sym("es", a + i)
  <2>1. (a + m) - a = m /\ a + m \in Nat /\ a <= a + m
    OBVIOUS
  <2>2. e \in Seq(Symbol) /\ Len(e) = (a + m) - a
    BY <2>1, EsType
  <2>3. e = [i \in 1 .. m |-> Sym("es", a + i)]
    BY <2>1 DEF EsBytes
  <2> QED BY <2>1, <2>2, <2>3
<1>3. PPL(n) = m + k /\ k \in Nat
  BY SizesAre DEF PPL, CutOf
<1> HIDE DEF p, e, k
<1>4. /\ h \in Seq(Symbol) /\ Len(h) = k + 1 + m /\ h[1] = p[1] /\ h # <<>>
      /\ \A i \in 1 .. m : h[k + 1 + i] = e[i]
  <2>1. h \in Seq(Symbol) /\ Len(h) = Len(p) + Len(e)
    <3>1. p \in Seq(Symbol) /\ e \in Seq(Symbol)
      BY <1>1, <1>2
    <3> QED BY <3>1, ConcatProperties
  <2>2. \A i \in 1 .. Len(h) : h[i] = IF i <= Len(p) THEN p[i] ELSE e[i - Len(p)]
    <3>1. p \in Seq(Symbol) /\ e \in Seq(Symbol)
      BY <1>1, <1>2
    <3>2. \A i \in 1 .. Len(p) + Len(e) : h[i] = IF i <= Len(p) THEN p[i] ELSE e[i - Len(p)]
      BY <3>1, ConcatProperties
    <3> QED BY <2>1, <3>2
  <2> HIDE DEF h
  <2>3. 1 \in 1 .. Len(h) /\ 1 <= Len(p) /\ Len(h) = k + 1 + m
    BY <1>1, <1>2, <1>3, <2>1
  <2>4. ASSUME NEW i \in 1 .. m PROVE h[k + 1 + i] = e[i]
    <3>1. k + 1 + i \in 1 .. Len(h) /\ ~(k + 1 + i <= Len(p)) /\ (k + 1 + i) - Len(p) = i
      BY <1>1, <1>3, <2>3
    <3> QED BY <2>2, <3>1
  <2>5. h[1] = p[1] /\ h # <<>>
    <3>1. h[1] = p[1]
      BY <2>2, <2>3
    <3>2. h = <<>> => Len(h) = 0
      OBVIOUS
    <3> QED BY <2>3, <3>1, <3>2
  <2> QED BY <2>1, <2>3, <2>4, <2>5
<1> HIDE DEF h
<1>5. h[1].k = "pes" /\ h[1].n = m + k
  BY <1>1, <1>3, <1>4, SymType
<1>6. Len(h) = 1 + h[1].n
  BY <1>3, <1>4, <1>5
<1>7. ASSUME NEW x \in Seq(Symbol)
      PROVE  Demux(h \o x) = PesBytes(h, 1) \o Demux(x)
  BY <1>4, <1>5, <1>6, DemuxStep
<1>8. PesBytes(h, 1) = Piece(a, m)
  <2>1. h[1].n - PS_PES_PPL_LENGTH = m
    BY <1>3, <1>5 DEF k
  <2>2. ASSUME NEW i \in 1 .. m
        PROVE  /\ h[1 + PS_PES_PPL_LENGTH + i].k = "es"
               /\ h[1 + PS_PES_PPL_LENGTH + i].n = a + i
    <3>1. 1 + PS_PES_PPL_LENGTH + i = k + 1 + i
      BY <1>3 DEF k
    <3>2. h[k + 1 + i] = Sym("es", a + i)
      BY <1>2, <1>4
    <3>3. a + i \in Nat
      OBVIOUS
    <3> QED BY <3>1, <3>2, <3>3, SymType
  <2> QED BY <2>1, <2>2 DEF PesBytes, Piece
<1>9. PesPiece(n, a, m) = h
  BY DEF h, p, e, PesPiece
<1> QED BY <1>7, <1>8, <1>9 DEF Holds

-----------------------------------------------------------------------------
\* A frame is whole

\* whatever follows what is in the buffer, a decoder finds the bytes of the
\* frame that are there, and then what follows
MuxDemux == stage = "mux" => Holds(psBuf, Whole(cmd_length - frame_len))

\* the bytes of the buffer that are still to be sent
Rest == SubSeq(psBuf, rtpEnd + 1, Len(psBuf))

\* a client that is served has the frame in what it got and in what it will get
RestIsGood ==
  stage = "pack" =>
    \A c \in Listed : wasReady[c] /\ ~iDeleteFlag[c] =>
      Demux(rx[c] \o Rest) = Whole(cmd_length)

\* the flag says what it stands for, and nothing is sent before the frame is
\* packed
SplitInv ==
  /\ stage = "pack" => (FU_flag <=> Len(psBuf) > MAX_RTP_PACKET_SIZE)
  /\ stage \in {"mux", "pack"} => Len(psBuf) > 0
  /\ stage \in {"pop", "mux"} => \A c \in Clients : marked[c] = 0 /\ rx[c] = <<>>
  /\ \A c \in Listed : wasReady[c] => iSendIframeFlag[c]

FrameInv == /\ WalkInv
            /\ MuxDemux /\ DemuxExact /\ RestIsGood /\ SplitInv /\ MarkerEndsFrame

\* When all of the frame is sent, what a client got is the frame.
LEMMA FrameInvIsWhole == FrameInv => FrameWhole
<1> SUFFICES ASSUME FrameInv PROVE FrameWhole
  OBVIOUS
<1>1. ReadyClientGetsFrame
  <2> SUFFICES ASSUME stage = "pack", rtpEnd = Len(psBuf), NEW c \in Listed,
                      wasReady[c], ~iDeleteFlag[c]
               PROVE  Demux(rx[c]) = Whole(cmd_length)
    BY DEF ReadyClientGetsFrame
  <2>1. c \in Clients /\ rx[c] \in Seq(Symbol) /\ psBuf \in Seq(Symbol)
    BY DEF FrameInv, WalkInv, PathTypeOK, Listed
  <2>2. Rest = <<>>
    <3>1. Len(psBuf) \in Nat
      BY <2>1
    <3> QED BY <3>1, SubSeqEmpty DEF Rest
  <2>3. rx[c] \o Rest = rx[c]
    BY <2>1, <2>2
  <2> QED BY <2>3 DEF FrameInv, RestIsGood
<1> QED BY <1>1 DEF FrameInv, FrameWhole

LEMMA FrameInit == PathInit => FrameInv
<1> SUFFICES ASSUME PathInit PROVE FrameInv
  OBVIOUS
<1>1. WalkInv
  BY WalkInit
<1>2. SplitInv
  BY DEF PathInit, SplitInv, Listed
<1>3. MuxDemux /\ DemuxExact /\ RestIsGood /\ MarkerEndsFrame
  BY DEF PathInit, MuxDemux, DemuxExact, RestIsGood, MarkerEndsFrame
<1> QED BY <1>1, <1>2, <1>3 DEF FrameInv

LEMMA PopKeepsFrame ==
  ASSUME FrameInv, WalkInv', NEW t \in {"I", "BP"}, NEW n \in 0 .. MaxFrame, PopFrame(t, n)
  PROVE  FrameInv'
<1>1. /\ stage' = "mux" /\ cmd_length' = n /\ frame_len' = n /\ psBuf' = Headers(t)
      /\ rx' = [c \in Clients |-> <<>>] /\ marked' = [c \in Clients |-> 0]
      /\ UNCHANGED <<clientVars, wasReady>>
  BY DEF PopFrame
<1>2. ASSUME NEW x \in Seq(Symbol)
      PROVE  Demux(Headers(t) \o x) = Whole(n - n) \o Demux(x)
  <2>1. n - n = 0 /\ Whole(0) = <<>>
    BY SizesAre DEF Whole
  <2>2. Demux(x) \in Found0
    <3>1. PICK f \in Tables(x) : TRUE
      BY TablesExist
    <3> QED BY <3>1, DemuxIs
  <2>3. <<>> \o Demux(x) = Demux(x)
    BY <2>2 DEF Found0
  <2> QED BY <2>1, <2>3, HeadersHoldNothing
<1>3. MuxDemux'
  BY <1>1, <1>2 DEF MuxDemux, Holds
<1>4. SplitInv'
  BY <1>1, HeadersType DEF FrameInv, SplitInv, Listed, clientVars
<1> QED BY <1>1, <1>3, <1>4
    DEF FrameInv, DemuxExact, RestIsGood, MarkerEndsFrame

LEMMA PesKeepsFrame ==
  ASSUME FrameInv, WalkInv', PesPacket
  PROVE  FrameInv'
<1> DEFINE a == cmd_length - frame_len
           m == PesLen
           h == PesHeader(frame_len) \o EsBytes(a, a + m)
<1>1. /\ stage = "mux" /\ stage' = "mux" /\ frame_len' = frame_len - m
      /\ psBuf' = psBuf \o PesHeader(frame_len) \o EsBytes(a, a + m)
      /\ UNCHANGED <<cmd_length, clientVars, rxVars>>
  BY DEF PesPacket
<1>2. /\ cmd_length \in Nat /\ frame_len \in Nat /\ psBuf \in Seq(Symbol)
      /\ a \in Nat /\ m \in Nat /\ h \in Seq(Symbol)
      /\ psBuf \o h \in Seq(Symbol) /\ Len(psBuf \o h) >= Len(psBuf)
      /\ psBuf' = psBuf \o h
  <2>1. PathTypeOK
    BY DEF FrameInv, WalkInv
  <2>2. cmd_length \in Nat /\ frame_len \in Nat /\ psBuf \in Seq(Symbol)
    BY <2>1, SizesAre DEF PathTypeOK
  <2>3. /\ m \in 0 .. frame_len /\ a \in Nat
        /\ PesHeader(frame_len) \in Seq(Symbol) /\ EsBytes(a, a + m) \in Seq(Symbol)
        /\ psBuf \o h \in Seq(Symbol) /\ Len(psBuf \o h) >= Len(psBuf)
        /\ psBuf \o PesHeader(frame_len) \o EsBytes(a, a + m) = psBuf \o h
    BY <2>1, PesType
  <2>4. h \in Seq(Symbol)
    BY <2>3
  <2>5. m \in Nat
    BY <2>2, <2>3
  <2> HIDE DEF h, a, m
  <2> QED BY <1>1, <2>2, <2>3, <2>4, <2>5
<1>3. ASSUME NEW x \in Seq(Symbol)
      PROVE  Demux((psBuf \o h) \o x) = Whole(a + m) \o Demux(x)
  <2>1. h \o x \in Seq(Symbol) /\ (psBuf \o h) \o x = psBuf \o (h \o x)
    <3> HIDE DEF h
    <3> QED BY <1>2, ConcatAssociative
  <2>2. Demux(psBuf \o (h \o x)) = Whole(a) \o Demux(h \o x)
    BY <1>1, <2>1 DEF FrameInv, MuxDemux, Holds
  <2>3. Demux(h \o x) = Piece(a, m) \o Demux(x)
    <3>1. m = CutOf(frame_len)
      BY DEF PesLen, CutOf
    <3>2. frame_len \in Nat /\ a \in Nat /\ m \in Nat
      BY <1>2
    <3> HIDE DEF a, m, h
    <3>3. Holds(PesPiece(frame_len, a, m), Piece(a, m))
      BY <3>1, <3>2, PesHoldsPiece
    <3> QED BY <3>3 DEF h, PesPiece, Holds
  <2>4. Demux(x) \in Found0
    <3>1. PICK f \in Tables(x) : TRUE
      BY TablesExist
    <3> QED BY <3>1, DemuxIs
  <2> HIDE DEF h, a, m
  <2>5. /\ Whole(a) \in Found0 /\ Piece(a, m) \in Found0
        /\ Whole(a) \o Piece(a, m) = Whole(a + m)
    BY <1>2, WholeGrows
  <2>6. Whole(a) \o (Piece(a, m) \o Demux(x)) = (Whole(a) \o Piece(a, m)) \o Demux(x)
    <3> DEFINE V == Nat \cup {None}
               u == Whole(a)
               v == Piece(a, m)
               y == Demux(x)
    <3>1. u \in Seq(V) /\ v \in Seq(V) /\ y \in Seq(V)
      BY <2>4, <2>5 DEF Found0
    <3> HIDE DEF V, u, v, y
    <3>2. (u \o v) \o y = u \o (v \o y)
      BY <3>1, ConcatAssociative
    <3> QED BY <3>2 DEF u, v, y
  <2> QED BY <2>1, <2>2, <2>3, <2>5, <2>6
<1>4. cmd_length' - frame_len' = a + m
  <2> HIDE DEF m
  <2> QED BY <1>1, <1>2
<1>5. MuxDemux'
  <2> HIDE DEF h, a, m
  <2> QED BY <1>2, <1>3, <1>4 DEF MuxDemux, Holds
<1>6. SplitInv'
  <2>1. Len(psBuf) > 0 /\ Len(psBuf) \in Nat /\ Len(psBuf \o h) \in Nat
    BY <1>1, <1>2 DEF FrameInv, SplitInv
  <2>2. Len(psBuf') > 0
    <3> HIDE DEF h
    <3> QED BY <1>2, <2>1
  <2> HIDE DEF h, a, m
  <2> QED BY <1>1, <2>2 DEF FrameInv, SplitInv, Listed, clientVars, rxVars
<1> QED BY <1>1, <1>5, <1>6
    DEF FrameInv, DemuxExact, RestIsGood, MarkerEndsFrame

LEMMA SetPackKeepsFrame ==
  ASSUME FrameInv, WalkInv', SetPack
  PROVE  FrameInv'
<1>1. /\ stage = "mux" /\ frame_len = 0 /\ stage' = "pack"
      /\ rtpEnd' = 0 /\ FU_flag' = (Len(psBuf) > MAX_RTP_PACKET_SIZE)
      /\ wasReady' = [c \in Clients |-> c \in Listed /\ iSendIframeFlag[c]]
      /\ UNCHANGED <<frameVars, clientVars, rx, marked>>
  BY DEF SetPack
<1>2. psBuf \in Seq(Symbol) /\ cmd_length \in Nat /\ Len(psBuf) \in Nat
  BY SizesAre DEF FrameInv, WalkInv, PathTypeOK
<1>3. Demux(psBuf) = Whole(cmd_length)
  <2>1. <<>> \in Seq(Symbol) /\ psBuf \o <<>> = psBuf /\ cmd_length - frame_len = cmd_length
    BY <1>1, <1>2
  <2>2. Demux(psBuf \o <<>>) = Whole(cmd_length - frame_len) \o Demux(<<>>)
    BY <1>1, <2>1 DEF FrameInv, MuxDemux, Holds
  <2>3. Whole(cmd_length) \o <<>> = Whole(cmd_length)
    <3>1. Whole(cmd_length) \in Seq(Nat)
      BY <1>2 DEF Whole
    <3> QED BY <3>1
  <2> QED BY <2>1, <2>2, <2>3, DemuxNothing
<1>4. DemuxExact'
  BY <1>1, <1>3 DEF DemuxExact, frameVars
<1>5. \A c \in Clients : rx[c] = <<>> /\ marked[c] = 0
  BY <1>1 DEF FrameInv, SplitInv
<1>6. RestIsGood'
  <2>1. Rest' = psBuf
    <3>1. SubSeq(psBuf, 0 + 1, Len(psBuf)) = psBuf
      BY <1>2, SubSeqFull
    <3> QED BY <1>1, <3>1 DEF Rest, frameVars
  <2>2. \A c \in Listed' : c \in Clients
    BY DEF WalkInv, PathTypeOK, Listed
  <2>3. <<>> \o psBuf = psBuf
    BY <1>2
  <2> QED BY <1>1, <1>3, <1>5, <2>1, <2>2, <2>3 DEF RestIsGood, frameVars
<1>7. Len(psBuf) > 0
  BY <1>1 DEF FrameInv, SplitInv
<1>8. SplitInv'
  <2>1. \A c \in Listed' : wasReady'[c] => iSendIframeFlag'[c]
    <3>1. \A c \in Listed' : c \in Clients
      BY DEF WalkInv, PathTypeOK, Listed
    <3> QED BY <1>1, <3>1 DEF clientVars
  <2>2. FU_flag' <=> Len(psBuf') > MAX_RTP_PACKET_SIZE
    BY <1>1 DEF frameVars
  <2>3. Len(psBuf') > 0
    BY <1>1, <1>7 DEF frameVars
  <2> QED BY <1>1, <2>1, <2>2, <2>3 DEF SplitInv
<1>9. MarkerEndsFrame'
  <2>1. \A c \in Listed' : c \in Clients
    BY DEF WalkInv, PathTypeOK, Listed
  <2>2. rtpEnd' # Len(psBuf')
    BY <1>1, <1>2, <1>7 DEF frameVars
  <2> QED BY <1>1, <1>5, <2>1, <2>2 DEF MarkerEndsFrame
<1> QED BY <1>1, <1>4, <1>6, <1>8, <1>9 DEF FrameInv, MuxDemux

\* The packets of a frame.
LEMMA PacketKeepsFrame ==
  ASSUME FrameInv, WalkInv', SendPacket
  PROVE  FrameInv'
<1>0. PathTypeOK /\ WalkInv
  BY DEF FrameInv, WalkInv
<1>1. /\ stage = "pack" /\ stage' = "pack" /\ rtpEnd # Len(psBuf) /\ psBuf' = Headed
      /\ rx' = [c \in Clients |->
                  IF c \in SentTo THEN rx[c] \o SubSeq(Headed, rtpEnd + 1, PacketEnd) ELSE rx[c]]
      /\ marked' = [c \in Clients |->
                  IF c \in SentTo /\ Marker THEN marked[c] + 1 ELSE marked[c]]
      /\ iSendIframeFlag' = [c \in Clients |-> iSendIframeFlag[c] \/ c \in SwitchedOn]
      /\ rtpEnd' = PacketEnd
      /\ UNCHANGED <<cmd_length, FU_flag, iDeleteFlag, wasReady>>
  BY DEF SendPacket, Headed
<1>2. /\ psBuf \in Seq(Symbol) /\ Headed \in Seq(Symbol) /\ Len(Headed) = Len(psBuf)
      /\ \A i \in rtpEnd + 1 .. Len(psBuf) : Headed[i] = psBuf[i]
  BY <1>0, <1>1, HeadedFacts DEF PathTypeOK
<1>3. /\ Len(psBuf) \in Nat /\ rtpEnd \in Nat /\ PacketEnd \in Nat
      /\ rtpEnd < PacketEnd /\ PacketEnd <= Len(psBuf) /\ rtpEnd < Len(psBuf)
  BY <1>0, <1>1, EndFacts
\* who is ready and stays has been walked over
<1>4. ASSUME NEW c \in Listed', wasReady'[c], ~iDeleteFlag'[c]
      PROVE  /\ c \in Clients /\ c \in Listed /\ c \in SentTo
             /\ wasReady[c] /\ ~iDeleteFlag[c] /\ iSendIframeFlag[c]
  <2>1. c \in Listed /\ c \in Clients /\ c \notin Removed
    BY <1>0, PacketWalk DEF WalkInv
  <2>2. wasReady[c] /\ ~iDeleteFlag[c]
    BY <1>1, <1>4
  <2>3. iSendIframeFlag[c]
    BY <2>1, <2>2 DEF FrameInv, SplitInv
  <2>4. c \in Walked
    BY <1>0, <1>1, <2>1, <2>3 DEF WalkInv, ReadyIsWalked
  <2> QED BY <2>1, <2>2, <2>3, <2>4 DEF SentTo
<1> DEFINE p == SubSeq(Headed, rtpEnd + 1, PacketEnd)
           q == SubSeq(Headed, PacketEnd + 1, Len(Headed))
<1>5. p \in Seq(Symbol) /\ q \in Seq(Symbol) /\ p \o q = Rest
  <2>1. p \o q = SubSeq(Headed, rtpEnd + 1, Len(Headed))
    <3>1. /\ rtpEnd + 1 \in 1 .. Len(Headed) + 1 /\ PacketEnd \in (rtpEnd + 1) - 1 .. Len(Headed)
          /\ Len(Headed) \in PacketEnd .. Len(Headed)
      BY <1>2, <1>3
    <3> QED BY <1>2, <3>1, ConcatAdjacentSubSeq
  <2>2. SubSeq(Headed, rtpEnd + 1, Len(Headed)) = Rest
    <3> DEFINE u == SubSeq(Headed, rtpEnd + 1, Len(Headed))
               v == SubSeq(psBuf, rtpEnd + 1, Len(psBuf))
               L == Len(psBuf)
               b == rtpEnd + 1
    <3>1. /\ \A i \in b .. L : Headed[i] \in Symbol /\ psBuf[i] \in Symbol
          /\ b \in Int /\ L \in Int /\ b <= L
      BY <1>2, <1>3
    <3>2. /\ u \in Seq(Symbol) /\ Len(u) = L - b + 1
          /\ \A i \in 1 .. L - b + 1 : u[i] = Headed[b + i - 1]
      BY <1>2, <3>1, SubSeqProperties
    <3>3. /\ v \in Seq(Symbol) /\ Len(v) = L - b + 1
          /\ \A i \in 1 .. L - b + 1 : v[i] = psBuf[b + i - 1]
      BY <3>1, SubSeqProperties
    <3>4. \A i \in 1 .. L - b + 1 : b + i - 1 \in b .. L
      BY <1>3
    <3>5. \A i \in 1 .. L - b + 1 : Headed[b + i - 1] = psBuf[b + i - 1]
      BY <1>2, <3>4
    <3> HIDE DEF u, v, L, b
    <3>6. \A i \in 1 .. Len(u) : u[i] = v[i]
      BY <3>2, <3>3, <3>5
    <3>7. u = v
      BY <3>2, <3>3, <3>6, SeqEqual
    <3> QED BY <3>7 DEF u, v, Rest
  <2>3. p \in Seq(Symbol) /\ q \in Seq(Symbol)
    <3>1. /\ \A i \in rtpEnd + 1 .. PacketEnd : Headed[i] \in Symbol
          /\ \A i \in PacketEnd + 1 .. Len(Headed) : Headed[i] \in Symbol
      BY <1>2, <1>3
    <3>2. /\ rtpEnd + 1 \in Int /\ PacketEnd \in Int /\ PacketEnd + 1 \in Int
          /\ Len(Headed) \in Int
      BY <1>2, <1>3
    <3> QED BY <3>1, <3>2, SubSeqProperties
  <2> QED BY <2>1, <2>2, <2>3
<1>6. Rest' = q
  BY <1>1 DEF Rest
<1>7. \A c \in Clients : rx[c] \in Seq(Symbol) /\ marked[c] \in Nat
  BY <1>0 DEF PathTypeOK
<1> HIDE DEF p, q
<1>8. RestIsGood'
  <2> SUFFICES ASSUME NEW c \in Listed', wasReady'[c], ~iDeleteFlag'[c]
               PROVE  Demux(rx'[c] \o Rest') = Whole(cmd_length')
    BY DEF RestIsGood
  <2>1. /\ c \in Clients /\ c \in Listed /\ c \in SentTo
        /\ wasReady[c] /\ ~iDeleteFlag[c] /\ iSendIframeFlag[c]
    BY <1>4
  <2>2. rx'[c] = rx[c] \o p
    BY <1>1, <2>1 DEF p
  <2>3. (rx[c] \o p) \o q = rx[c] \o (p \o q)
    <3> DEFINE r == rx[c]
    <3>1. r \in Seq(Symbol) /\ p \in Seq(Symbol) /\ q \in Seq(Symbol)
      BY <1>5, <1>7, <2>1
    <3> HIDE DEF r
    <3>2. (r \o p) \o q = r \o (p \o q)
      BY <3>1, ConcatAssociative, SMTT(30)
    <3> QED BY <3>2 DEF r
  <2>4. Demux(rx[c] \o Rest) = Whole(cmd_length)
    BY <1>1, <2>1 DEF FrameInv, RestIsGood
  <2> QED BY <1>1, <1>5, <1>6, <2>2, <2>3, <2>4
<1>9. Marker <=> PacketEnd = Len(psBuf)
  <2>1. FU_flag <=> Len(psBuf) > MAX_RTP_PACKET_SIZE
    BY <1>1 DEF FrameInv, SplitInv
  <2>2. ~(Len(psBuf) > MAX_RTP_PACKET_SIZE) => PacketEnd = Len(psBuf)
    BY <1>3, SizesAre DEF PacketEnd
  <2> QED BY <2>1, <2>2 DEF Marker
<1>10. MarkerEndsFrame'
  <2> SUFFICES ASSUME NEW c \in Listed', wasReady'[c], ~iDeleteFlag'[c]
               PROVE  marked'[c] = IF rtpEnd' = Len(psBuf') THEN 1 ELSE 0
    BY DEF MarkerEndsFrame
  <2>1. /\ c \in Clients /\ c \in Listed /\ c \in SentTo
        /\ wasReady[c] /\ ~iDeleteFlag[c] /\ iSendIframeFlag[c]
    BY <1>4
  <2>2. marked[c] = 0
    BY <1>1, <2>1 DEF FrameInv, MarkerEndsFrame
  <2>3. marked'[c] = IF Marker THEN marked[c] + 1 ELSE marked[c]
    BY <1>1, <2>1
  <2>4. rtpEnd' = Len(psBuf') <=> Marker
    BY <1>1, <1>2, <1>9
  <2> QED BY <2>2, <2>3, <2>4
<1>11. SplitInv'
  <2>1. FU_flag' <=> Len(psBuf') > MAX_RTP_PACKET_SIZE
    BY <1>1, <1>2 DEF FrameInv, SplitInv
  <2>2. Len(psBuf') > 0
    BY <1>1, <1>2, <1>3
  <2>3. ASSUME NEW c \in Listed', wasReady'[c] PROVE iSendIframeFlag'[c]
    <3>1. c \in Listed /\ c \in Clients /\ wasReady[c]
      BY <1>0, <1>1, <2>3, PacketWalk DEF WalkInv
    <3>2. iSendIframeFlag[c]
      BY <3>1 DEF FrameInv, SplitInv
    <3> QED BY <1>1, <3>1, <3>2
  <2> QED BY <1>1, <2>1, <2>2, <2>3 DEF SplitInv
<1>12. DemuxExact'
  <2>1. rtpEnd' # 0
    BY <1>1, <1>3
  <2> QED BY <2>1 DEF DemuxExact
<1> QED BY <1>1, <1>8, <1>10, <1>11, <1>12 DEF FrameInv, MuxDemux

\* Every step keeps it.
LEMMA FrameNext == FrameInv /\ [PathNext]_pathAll => FrameInv'
<1> SUFFICES ASSUME FrameInv, [PathNext]_pathAll PROVE FrameInv'
  OBVIOUS
<1>0. WalkInv' /\ WalkInv /\ PathTypeOK
  BY WalkNext DEF FrameInv, WalkInv
<1>1. ASSUME NEW t \in {"I", "BP"}, NEW n \in 0 .. MaxFrame, PopFrame(t, n) PROVE FrameInv'
  BY <1>0, <1>1, PopKeepsFrame
<1>2. CASE PesPacket
  BY <1>0, <1>2, PesKeepsFrame
<1>3. CASE SetPack
  BY <1>0, <1>3, SetPackKeepsFrame
<1>4. CASE SendPacket
  BY <1>0, <1>4, PacketKeepsFrame
<1>5. CASE FrameSent
  <2>1. /\ stage' = "pop" /\ rx' = [c \in Clients |-> <<>>] /\ marked' = [c \in Clients |-> 0]
        /\ wasReady' = [c \in Clients |-> FALSE] /\ UNCHANGED clientVars
    BY <1>5 DEF FrameSent
  <2>2. \A c \in Listed' : c \in Clients
    BY <1>0, <2>1 DEF PathTypeOK, Listed, clientVars
  <2>3. SplitInv'
    BY <2>1, <2>2 DEF SplitInv
  <2> QED BY <1>0, <2>1, <2>3
      DEF FrameInv, MuxDemux, DemuxExact, RestIsGood, MarkerEndsFrame
<1>6. CASE TaskQuits
  <2>1. /\ stage' = "done" /\ UNCHANGED <<frameVars, rtpVars, clientVars, rxVars>>
    BY <1>6 DEF TaskQuits
  <2>2. SplitInv'
    BY <2>1 DEF FrameInv, SplitInv, Listed, clientVars, rxVars
  <2> QED BY <1>0, <2>1, <2>2
      DEF FrameInv, MuxDemux, DemuxExact, RestIsGood, MarkerEndsFrame
<1>7. ASSUME NEW c \in Clients, ClientJoins(c) PROVE FrameInv'
  <2>1. /\ clientList' = Append(clientList, c)
        /\ iSendIframeFlag' = [iSendIframeFlag EXCEPT ![c] = FALSE]
        /\ iDeleteFlag' = [iDeleteFlag EXCEPT ![c] = FALSE]
        /\ rx' = [rx EXCEPT ![c] = <<>>] /\ marked' = [marked EXCEPT ![c] = 0]
        /\ wasReady' = [wasReady EXCEPT ![c] = FALSE]
        /\ UNCHANGED <<stage, frameVars, rtpVars>>
    BY <1>7 DEF ClientJoins
  <2>2. clientList \in Seq(Clients) /\ Listed = ToSet(clientList) /\ Listed' = ToSet(clientList')
    <3>1. clientList \in Seq(Clients) /\ clientList' \in Seq(Clients)
      BY <1>0, <2>1 DEF PathTypeOK
    <3> QED BY <3>1 DEF Listed, ToSet
  <2>3. Listed' = Listed \cup {c}
    BY <2>1, <2>2, AppendElems
  <2>4. ~wasReady'[c]
    BY <1>0, <2>1 DEF PathTypeOK
  <2>5. ASSUME NEW d \in Clients, d # c
        PROVE  /\ wasReady'[d] = wasReady[d] /\ iDeleteFlag'[d] = iDeleteFlag[d]
               /\ rx'[d] = rx[d] /\ marked'[d] = marked[d]
               /\ iSendIframeFlag'[d] = iSendIframeFlag[d]
    BY <1>0, <2>1, <2>5 DEF PathTypeOK
  <2>6. ASSUME NEW d \in Listed', wasReady'[d] PROVE d \in Clients /\ d # c /\ d \in Listed
    <3>1. d # c
      BY <2>4, <2>6
    <3>2. d \in Listed
      BY <2>3, <2>6, <3>1
    <3>3. Listed \subseteq Clients
      BY <2>2 DEF Listed
    <3> QED BY <3>1, <3>2, <3>3
  <2>7. MuxDemux' /\ DemuxExact'
    BY <2>1 DEF FrameInv, MuxDemux, DemuxExact, frameVars, rtpVars
  <2>8. RestIsGood'
    <3>1. Rest' = Rest
      BY <2>1 DEF Rest, frameVars, rtpVars
    <3> QED BY <2>1, <2>5, <2>6, <3>1 DEF FrameInv, RestIsGood, frameVars
  <2>9. SplitInv'
    <3>1. ASSUME NEW d \in Clients, marked[d] = 0 /\ rx[d] = <<>>
          PROVE  marked'[d] = 0 /\ rx'[d] = <<>>
      BY <1>0, <2>1, <2>5, <3>1 DEF PathTypeOK
    <3> QED BY <2>1, <2>5, <2>6, <3>1 DEF FrameInv, SplitInv, frameVars, rtpVars
  <2>10. MarkerEndsFrame'
    BY <2>1, <2>5, <2>6 DEF FrameInv, MarkerEndsFrame, frameVars, rtpVars
  <2> QED BY <1>0, <2>7, <2>8, <2>9, <2>10 DEF FrameInv
<1>8. ASSUME NEW c \in Clients, ClientFlagged(c) PROVE FrameInv'
  <2>1. /\ iDeleteFlag' = [iDeleteFlag EXCEPT ![c] = TRUE]
        /\ UNCHANGED <<stage, frameVars, rtpVars, clientList, iSendIframeFlag, rxVars>>
    BY <1>8 DEF ClientFlagged
  <2>2. ASSUME NEW d \in Listed', ~iDeleteFlag'[d] PROVE d \in Listed /\ ~iDeleteFlag[d]
    <3>1. d \in Listed /\ d \in Clients
      BY <1>0, <2>1 DEF PathTypeOK, Listed
    <3> QED BY <1>0, <2>1, <2>2, <3>1 DEF PathTypeOK
  <2>3. MuxDemux' /\ DemuxExact' /\ Rest' = Rest
    BY <2>1 DEF FrameInv, MuxDemux, DemuxExact, Rest, frameVars, rtpVars
  <2>4. RestIsGood' /\ MarkerEndsFrame'
    BY <2>1, <2>2, <2>3 DEF FrameInv, RestIsGood, MarkerEndsFrame, frameVars, rtpVars, rxVars
  <2>5. SplitInv'
    BY <2>1 DEF FrameInv, SplitInv, Listed, frameVars, rtpVars, rxVars
  <2> QED BY <1>0, <2>3, <2>4, <2>5 DEF FrameInv
<1>9. CASE UNCHANGED pathAll
  <2>1. UNCHANGED <<stage, frameVars, rtpVars, clientVars, rxVars>>
    BY <1>9 DEF pathAll
  <2> QED BY <1>0, <2>1
      DEF FrameInv, MuxDemux, DemuxExact, RestIsGood, Rest, SplitInv, MarkerEndsFrame, Listed,
          frameVars, rtpVars, clientVars, rxVars
<1> QED BY <1>1, <1>2, <1>3, <1>4, <1>5, <1>6, <1>7, <1>8, <1>9 DEF PathNext, TaskStep

\* ps.c, rtp_pack.c: for every size of a frame, of a packet and of the headers
\* a decoder gets the frame back from what a client is sent, and the marker bit
\* ends it.
THEOREM FramesAreWhole == PathSpec => []FrameWhole
  BY FrameInit, FrameNext, FrameInvIsWhole, PTL DEF PathSpec
=============================================================================
