--------------------------- MODULE LfQueueProofs ---------------------------
(***************************************************************************)
(* Theorems about LfQueue for every capacity: the links, the ring of slots *)
(* and the counters agree (RingInv is inductive), and the queue implements *)
(* the bounded buffer.                                                     *)
(***************************************************************************)
EXTENDS LfQueue, SequenceTheorems, TLAPS

\* The ring has one slot more than the queue holds units.
LEMMA SlotWraps ==
  ASSUME NEW t \in 0 .. max_unit_num + 1
  PROVE  SlotAt(t) = IF t = max_unit_num + 1 THEN 0 ELSE t
<1> DEFINE N == max_unit_num + 1
<1>1. N \in Nat \ {0} /\ t \in 0 .. N
  BY CapacityAssumption
<1> HIDE DEF N
<1>2. N % N = 0 /\ (t \in 0 .. N - 1 => t % N = t)
  BY <1>1
<1>3. t # N => t \in 0 .. N - 1
  BY <1>1
<1> QED BY <1>2, <1>3 DEF SlotAt, N

LEMMA NumberWraps ==
  ASSUME NEW u \in Numbers
  PROVE  /\ (u + 1) % Window = IF u = Window - 1 THEN 0 ELSE u + 1
         /\ (u + 1) % Window \in Numbers
<1>1. Window \in Nat \ {0} /\ u + 1 \in 0 .. Window
  BY WindowAssumption, CapacityAssumption DEF Numbers
<1>2. Window % Window = 0 /\ (u + 1 \in 0 .. Window - 1 => (u + 1) % Window = u + 1)
  BY <1>1
<1> QED BY <1>1, <1>2, WindowAssumption, CapacityAssumption DEF Numbers

\* Where the list, the slot of the push and the unit being read are.
LEMMA RingFacts ==
  ASSUME RingInv
  PROVE  /\ Length \in 0 .. max_unit_num
         /\ At(0) = p_head /\ At(Length) = Last /\ Last \in Units
         /\ \A k \in 0 .. Length : At(k) \in Units
         /\ \A k \in 1 .. Length : At(k) \in Slots /\ Dist(At(k)) = k
<1>1. /\ max_unit_num \in Nat \ {0} /\ p_head \in Units /\ Last \in Units
      /\ w_len \in 0 .. max_unit_num
      /\ Last = LIST_END => p_head = LIST_END
  BY CapacityAssumption DEF RingInv, TypeOK, PushInv, Last, Units
<1>2. Length \in Nat
  BY <1>1 DEF Length, Dist, Units, Slots, LIST_END
<1>3. Length \in 0 .. max_unit_num
  BY <1>1, <1>2 DEF RingInv, CountInv, One
<1>4. At(0) = p_head /\ At(Length) = Last
  BY <1>1, <1>3 DEF At, Length, Dist, Units, Slots, LIST_END
<1>5. ASSUME NEW k \in 1 .. Length PROVE At(k) \in Slots /\ Dist(At(k)) = k
  BY <1>1, <1>3 DEF At, Dist, Units, Slots, LIST_END
<1>6. ASSUME NEW k \in 0 .. Length PROVE At(k) \in Units
  <2>1. k = 0 \/ k \in 1 .. Length
    BY <1>3
  <2> QED BY <2>1, <1>1, <1>4, <1>5 DEF Units
<1> QED BY <1>1, <1>3, <1>4, <1>5, <1>6

LEMMA PushFacts ==
  ASSUME RingInv, wpc \in Filling
  PROVE  /\ wslot \in Slots /\ wslot = After(Last) /\ Last = p_tail
         /\ Length + 1 <= max_unit_num /\ Dist(wslot) = Length + 1
         /\ \A k \in 0 .. Length : At(k) # wslot
         /\ rpc \in Reading => wslot # rhead /\ wslot # p_head
<1>1. /\ max_unit_num \in Nat \ {0} /\ p_head \in Units /\ p_tail \in Units
      /\ rhead \in Units /\ wslot \in Slots
      /\ w_len \in 0 .. max_unit_num /\ wslot = After(p_tail)
      /\ Last = p_tail
      /\ p_tail = LIST_END => p_head = LIST_END
  BY CapacityAssumption DEF RingInv, TypeOK, PushInv, Last, Filling
<1>2. Length + 1 <= max_unit_num /\ Length \in 0 .. max_unit_num
      /\ (rpc \in Reading => Length + 2 <= max_unit_num)
  BY <1>1, RingFacts DEF RingInv, CountInv, One, Reserved, Filling, Reading, Taken
<1>3. Dist(wslot) = Length + 1
  BY <1>1, <1>2 DEF Length, Dist, Units, Slots, LIST_END, After
<1>4. ASSUME NEW k \in 0 .. Length PROVE At(k) # wslot
  <2>1. k = 0 \/ k \in 1 .. Length
    BY <1>2
  <2>2. Dist(p_head) = 0
    BY <1>1 DEF Dist, Units, Slots, LIST_END
  <2> QED BY <2>1, <2>2, <1>2, <1>3, RingFacts
<1>5. ASSUME rpc \in Reading PROVE wslot # rhead /\ wslot # p_head
  <2>1. p_head = After(rhead)
    BY <1>5 DEF RingInv, PopInv
  <2> QED BY <2>1, <1>1, <1>2, <1>5 DEF Length, Dist, Units, Slots, LIST_END, After
<1> QED BY <1>1, <1>2, <1>3, <1>4, <1>5

\* Steps that move neither end of the list and change no link.
LEMMA SameRing ==
  ASSUME p_head' = p_head, Last' = Last, next' = next
  PROVE  /\ Length' = Length /\ (ListIsRing => ListIsRing')
         /\ \A k : At(k)' = At(k)
         /\ \A u : Dist(u)' = Dist(u)
<1>1. (\A k : At(k)' = At(k)) /\ (\A u : Dist(u)' = Dist(u))
  BY DEF At, Dist
<1>2. Length' = Length
  BY DEF Length, Dist
<1>3. ListIsRing => ListIsRing'
  BY <1>1, <1>2 DEF ListIsRing
<1> QED BY <1>1, <1>2, <1>3

-----------------------------------------------------------------------------
\* After nolock_queue_init the list is empty.
LEMMA RingInit == Init => RingInv
<1> SUFFICES ASSUME Init PROVE RingInv
  OBVIOUS
<1> USE DEF Init
<1>1. Last = LIST_END /\ Length = 0 /\ At(0) = LIST_END
  BY CapacityAssumption DEF Last, Length, Dist, At, LIST_END
<1>2. TypeOK
  BY CapacityAssumption, WindowAssumption
  DEF TypeOK, Units, Slots, Numbers, LIST_END
<1>3. ListIsRing
  BY <1>1 DEF ListIsRing, Units
<1>4. CountInv
  BY <1>1 DEF CountInv, One, Reserved, Filling, Taken
<1>5. PushInv
  <2>1. SlotAt(w_tail) = 0
    BY SlotWraps, CapacityAssumption
  <2> QED BY <1>1, <2>1, CapacityAssumption
          DEF PushInv, Filling, After, LIST_END
<1>6. PopInv
  BY DEF PopInv, Reading, Units
<1> QED BY <1>2, <1>3, <1>4, <1>5, <1>6 DEF RingInv

(***************************************************************************)
(* The steps of a push.                                                    *)
(***************************************************************************)

LEMMA ReadWLenInv ==
  ASSUME RingInv, ReadWLen
  PROVE  RingInv'
<1> USE DEF RingInv, ReadWLen, PushTo, queueVars, popVars
<1>1. Last' = Last
  BY DEF Last
<1>2. TypeOK'
  BY DEF TypeOK
<1>3. CountInv'
  BY <1>1, SameRing DEF CountInv, One, Reserved, Filling, TypeOK
<1>4. PushInv' /\ PopInv'
  BY <1>1, SameRing DEF PushInv, PopInv, Filling, SlotAt, After
<1> QED BY <1>1, <1>2, <1>3, <1>4, SameRing

LEMMA IncWLenInv ==
  ASSUME RingInv, IncWLen
  PROVE  RingInv'
<1> USE DEF RingInv, IncWLen, PushTo, popVars
<1>1. Last' = Last
  BY DEF Last
<1>2. TypeOK'
  BY CapacityAssumption DEF TypeOK, CountInv
<1>3. CountInv'
  BY <1>1, SameRing DEF CountInv, One, Reserved, Filling, TypeOK
<1>4. PushInv' /\ PopInv'
  BY <1>1, SameRing DEF PushInv, PopInv, Filling, SlotAt, After
<1> QED BY <1>1, <1>2, <1>3, <1>4, SameRing

LEMMA ClaimSlotInv ==
  ASSUME RingInv, ClaimSlot
  PROVE  RingInv'
<1> USE DEF RingInv, ClaimSlot, PushTo, popVars
<1>1. Last' = Last
  BY DEF Last
<1>2. /\ wslot' = SlotAt(w_tail) /\ w_tail' = wslot' + 1
      /\ wslot' \in Slots /\ wslot' = After(p_tail)
  BY SlotWraps, CapacityAssumption DEF TypeOK, Slots, PushInv, Last, Filling
<1>3. SlotAt(w_tail') = After(wslot') /\ w_tail' \in 0 .. max_unit_num + 1
  BY <1>2, SlotWraps, CapacityAssumption DEF Slots, After
<1>4. TypeOK'
  BY <1>2, <1>3 DEF TypeOK
<1>5. CountInv'
  BY <1>1, SameRing DEF CountInv, One, Reserved, Filling
<1>6. PushInv'
  BY <1>1, <1>2, <1>3 DEF PushInv, Filling, SlotAt, After
<1>7. PopInv'
  BY <1>1, SameRing DEF PopInv
<1> QED BY <1>1, <1>4, <1>5, <1>6, <1>7, SameRing

LEMMA CheckSlotInv ==
  ASSUME RingInv, CheckSlot
  PROVE  RingInv' /\ ~use_flag[wslot]
<1> USE DEF RingInv, CheckSlot, PushTo, queueVars, popVars
<1>1. Last' = Last
  BY DEF Last
<1>2. ~use_flag[wslot]
  <2>1. wpc \in Filling /\ Length \in Nat
    BY RingFacts DEF Filling
  <2> QED BY <2>1, PushFacts DEF PopInv
<1>3. wpc' = "end"
  BY <1>2
<1>4. TypeOK'
  BY DEF TypeOK
<1>5. CountInv'
  BY <1>1, <1>3, SameRing DEF CountInv, One, Reserved, Filling
<1>6. PushInv' /\ PopInv'
  BY <1>1, <1>3, SameRing DEF PushInv, PopInv, Filling, SlotAt, After
<1> QED BY <1>1, <1>2, <1>4, <1>5, <1>6, SameRing

LEMMA EndUnitInv ==
  ASSUME RingInv, EndUnit
  PROVE  RingInv'
<1> USE DEF RingInv, EndUnit, PushTo, popVars
<1>1. /\ wpc = "end" /\ wpc \in Filling /\ next \in [Units -> Units]
      /\ wslot \in Units
  BY DEF Filling, TypeOK, Units
<1>2. Last' = Last
  BY DEF Last
<1>3. /\ Length' = Length
      /\ \A k : At(k)' = At(k)
      /\ \A u : Dist(u)' = Dist(u)
  BY <1>2 DEF Length, Dist, At
<1>4. ListIsRing'
  <2>1. ASSUME NEW k \in 0 .. Length PROVE next'[At(k)] = next[At(k)]
    BY <1>1, PushFacts, RingFacts
  <2> QED BY <2>1, <1>3 DEF ListIsRing
<1>5. TypeOK'
  BY <1>1 DEF TypeOK, Units
<1>6. CountInv'
  BY <1>1, <1>3 DEF CountInv, One, Reserved, Filling
<1>7. PushInv'
  BY <1>1, <1>2 DEF PushInv, Filling, SlotAt, After
<1>8. PopInv'
  <2>1. rpc \in Reading => next'[rhead] = next[rhead]
    BY <1>1, PushFacts DEF TypeOK
  <2> QED BY <2>1, <1>1, <1>3 DEF PopInv, After
<1> QED BY <1>4, <1>5, <1>6, <1>7, <1>8

LEMMA UseUnitInv ==
  ASSUME RingInv, UseUnit
  PROVE  RingInv'
<1> USE DEF RingInv, UseUnit, PushTo, popVars
<1>1. Last' = Last
  BY DEF Last
<1>2. TypeOK'
  BY DEF TypeOK
<1>3. CountInv'
  BY <1>1, SameRing DEF CountInv, One, Reserved, Filling
<1>4. PushInv'
  BY <1>1 DEF PushInv, Filling, SlotAt, After
<1>5. PopInv'
  <2>1. \A s \in Slots : use_flag'[s] => use_flag[s] \/ s = wslot
    BY DEF TypeOK, Units
  <2> QED BY <2>1, <1>1, SameRing DEF PopInv, After
<1> QED BY <1>1, <1>2, <1>3, <1>4, <1>5, SameRing

LEMMA WriteUnitInv ==
  ASSUME RingInv, WriteUnit
  PROVE  RingInv'
<1> USE DEF RingInv, WriteUnit, PushTo, popVars
<1>1. Last' = Last
  BY DEF Last
<1>2. TypeOK'
  BY DEF TypeOK, Units
<1>3. CountInv'
  BY <1>1, SameRing DEF CountInv, One, Reserved, Filling
<1>4. PushInv'
  <2>1. data'[wslot] = number
    BY DEF TypeOK, Units
  <2> QED BY <2>1, <1>1 DEF PushInv, Filling, SlotAt, After
<1>5. PopInv'
  BY <1>1, SameRing DEF PopInv, After
<1> QED BY <1>1, <1>2, <1>3, <1>4, <1>5, SameRing

\* The one producer always finds the end of the list and adds to it.
LEMMA LinkUnitInv ==
  ASSUME RingInv, LinkUnit
  PROVE  /\ RingInv' /\ Length' = Length + 1
         /\ \A k : At(k)' = At(k)
         /\ At(Length + 1) = wslot
<1> USE DEF RingInv, LinkUnit, PushTo, popVars
<1>1. /\ wpc = "link" /\ wpc \in Filling /\ next \in [Units -> Units]
      /\ wslot \in Slots /\ wslot \in Units /\ wold = p_tail /\ Last = p_tail
      /\ wpc' = "tail" /\ p_head' = p_head /\ p_tail' = p_tail
      /\ wslot' = wslot /\ next[wslot] = LIST_END /\ p_head \in Units
      /\ max_unit_num \in Nat
  BY CapacityAssumption DEF Filling, TypeOK, Units, PushInv, Last
<1>2. Last' = wslot
  BY <1>1 DEF Last
<1>3. (\A k : At(k)' = At(k)) /\ (\A u : Dist(u)' = Dist(u))
  BY <1>1 DEF At, Dist
<1>4. Length' = Length + 1 /\ Length \in 0 .. max_unit_num
  <2>1. Length' = Dist(wslot)
    BY <1>1, <1>2, <1>3 DEF Length, Dist
  <2> QED BY <2>1, <1>1, PushFacts, RingFacts
<1>5. next' = [next EXCEPT ![Last] = wslot] /\ Last \in Units
  BY <1>1, RingFacts
<1>6. At(Length + 1) = wslot
  <2>1. Dist(wslot) = Length + 1 /\ Length + 1 <= max_unit_num
    BY <1>1, PushFacts
  <2>2. p_head = LIST_END => Dist(wslot) = wslot + 1
    BY <1>1 DEF Dist, Slots, LIST_END
  <2> QED BY <2>1, <2>2, <1>1, <1>4 DEF At, Dist, Units, Slots, LIST_END
<1>7. ListIsRing'
  <2>1. ASSUME NEW k \in 0 .. Length + 1
        PROVE  next'[At(k)] = IF k = Length + 1 THEN LIST_END ELSE At(k + 1)
    <3>1. CASE k = Length + 1
      <4>1. wslot # Last
        BY <1>1, <1>4, PushFacts, RingFacts
      <4> QED BY <3>1, <4>1, <1>1, <1>5, <1>6
    <3>2. CASE k = Length
      <4>1. At(k) = Last /\ next'[Last] = wslot
        BY <3>2, <1>1, <1>5, RingFacts
      <4> QED BY <3>2, <4>1, <1>4, <1>6
    <3>3. CASE k < Length
      <4>1. /\ k \in 0 .. Length /\ k # Length /\ k # Length + 1
            /\ At(k) \in Units
        BY <3>3, <1>4, RingFacts
      <4>2. At(k) # Last
        <5>1. next[Last] = LIST_END
          BY <1>4, RingFacts DEF ListIsRing
        <5>2. next[At(k)] = At(k + 1)
          BY <4>1 DEF ListIsRing
        <5>3. k + 1 \in 1 .. Length
          BY <3>3, <1>4
        <5>4. At(k + 1) \in Slots
          BY <5>3, RingFacts
        <5> QED BY <5>1, <5>2, <5>4 DEF Slots, LIST_END
      <4>3. next'[At(k)] = next[At(k)]
        BY <4>1, <4>2, <1>1, <1>5
      <4> QED BY <4>1, <4>3 DEF ListIsRing
    <3> QED BY <1>4, <3>1, <3>2, <3>3
  <2> QED BY <2>1, <1>3, <1>4 DEF ListIsRing
<1>8. TypeOK'
  <2>1. number' \in Numbers
    BY NumberWraps DEF TypeOK
  <2>2. next' \in [Units -> Units]
    BY <1>1, <1>5
  <2> QED BY <2>1, <2>2 DEF TypeOK
<1>9. CountInv'
  BY <1>1, <1>4 DEF CountInv, One, Reserved, Filling, TypeOK
<1>10. PushInv'
  BY <1>1, <1>2 DEF PushInv, Filling, SlotAt, After, Slots, LIST_END
<1>11. PopInv'
  <2>1. rpc \in Reading => next'[rhead] = next[rhead]
    <3> SUFFICES ASSUME rpc \in Reading PROVE rhead # Last
      BY <1>5, <1>1 DEF TypeOK
    <3>1. p_head = next[rhead] /\ p_head = After(rhead)
      BY DEF PopInv
    <3>2. p_head # LIST_END
      BY <3>1, <1>1 DEF After, TypeOK, Units, Slots, LIST_END
    <3>3. next[Last] = LIST_END
      BY <1>4, RingFacts DEF ListIsRing
    <3> QED BY <3>1, <3>2, <3>3
  <2>2. \A s \in Slots : s = wslot => Dist(s) = Length + 1
    BY <1>1, PushFacts
  <2>3. ASSUME NEW s \in Slots, use_flag'[s]
        PROVE  Dist(s) \in 1 .. Length + 1 \/ (rpc \in Reading /\ s = p_head)
    <3>1. use_flag[s]
      BY <2>3
    <3>2. \/ Dist(s) \in 1 .. Length
          \/ rpc \in Reading /\ s = p_head
          \/ s = wslot
      BY <3>1 DEF PopInv
    <3> QED BY <3>2, <2>2, <1>1, <1>4
  <2> QED BY <2>1, <2>3, <1>1, <1>3, <1>4 DEF PopInv, After
<1> QED BY <1>3, <1>4, <1>6, <1>7, <1>8, <1>9, <1>10, <1>11

LEMMA MoveTailInv ==
  ASSUME RingInv, MoveTail
  PROVE  RingInv'
<1> USE DEF RingInv, MoveTail, PushTo, popVars
<1>1. wpc = "tail" /\ wold = p_tail /\ p_tail' = wslot /\ Last' = Last
  BY DEF PushInv, Last
<1>2. TypeOK'
  BY <1>1 DEF TypeOK, Units
<1>3. CountInv'
  BY <1>1, SameRing DEF CountInv, One, Reserved, Filling
<1>4. PushInv' /\ PopInv'
  BY <1>1, SameRing DEF PushInv, PopInv, Filling, SlotAt, After
<1> QED BY <1>1, <1>2, <1>3, <1>4, SameRing

LEMMA CountUnitInv ==
  ASSUME RingInv, CountUnit
  PROVE  RingInv'
<1> USE DEF RingInv, CountUnit, PushTo, popVars
<1>1. wpc = "count" /\ wpc' = "len" /\ Last' = Last
  BY DEF Last
<1>2. CountInv'
  BY <1>1, SameRing DEF CountInv, One, Reserved, Filling, TypeOK
<1>3. TypeOK'
  <2>1. r_len' \in 0 .. max_unit_num
    BY <1>1, <1>2, SameRing, RingFacts, CapacityAssumption
    DEF CountInv, One, TypeOK
  <2> QED BY <2>1 DEF TypeOK
<1>4. PushInv' /\ PopInv'
  BY <1>1, SameRing DEF PushInv, PopInv, Filling, SlotAt, After
<1> QED BY <1>1, <1>2, <1>3, <1>4, SameRing

(***************************************************************************)
(* The steps of a pop.                                                     *)
(***************************************************************************)

LEMMA ReadRLenInv ==
  ASSUME RingInv, ReadRLen
  PROVE  RingInv'
<1> USE DEF RingInv, ReadRLen, Readable, PopTo, queueVars, pushVars
<1>1. Last' = Last
  BY DEF Last
<1>2. TypeOK'
  BY DEF TypeOK
<1>3. CountInv'
  BY <1>1, SameRing DEF CountInv, One, Taken
<1>4. PushInv' /\ PopInv'
  BY <1>1, SameRing DEF PushInv, PopInv, Reading, SlotAt, After
<1> QED BY <1>1, <1>2, <1>3, <1>4, SameRing

LEMMA DecRLenInv ==
  ASSUME RingInv, DecRLen
  PROVE  RingInv'
<1> USE DEF RingInv, DecRLen, PopTo, pushVars
<1>1. Last' = Last
  BY DEF Last
<1>2. TypeOK'
  BY CapacityAssumption DEF TypeOK, CountInv
<1>3. CountInv'
  BY <1>1, SameRing DEF CountInv, One, Taken, TypeOK
<1>4. PushInv' /\ PopInv'
  BY <1>1, SameRing DEF PushInv, PopInv, Reading, SlotAt, After
<1> QED BY <1>1, <1>2, <1>3, <1>4, SameRing

\* p_head moves to the first unit of the list, which is there.
LEMMA MoveHeadInv ==
  ASSUME RingInv, MoveHead
  PROVE  /\ RingInv' /\ Length > 0 /\ Length' = Length - 1
         /\ p_head' = At(1)
         /\ \A k \in 0 .. Length - 1 : At(k)' = At(k + 1)
<1> USE DEF RingInv, MoveHead, PopTo, pushVars
<1>1. /\ rpc = "head" /\ rpc' = "read" /\ p_head \in Units
      /\ rhead' = p_head /\ next' = next /\ next \in [Units -> Units]
      /\ p_tail' = p_tail /\ max_unit_num \in Nat
  BY CapacityAssumption DEF TypeOK
<1>2. Last' = Last
  BY DEF Last
<1>3. Length > 0 /\ Length \in 0 .. max_unit_num
  BY <1>1, RingFacts DEF CountInv, One, TypeOK
<1>4. p_head' = At(1) /\ At(1) \in Slots /\ At(1) = After(p_head)
  <2>1. next[At(0)] = At(0 + 1) /\ At(0) = p_head
    BY <1>3, RingFacts DEF ListIsRing
  <2>2. At(1) \in Slots
    BY <1>1, <1>3, RingFacts
  <2>3. At(1) = After(p_head)
    BY <1>1 DEF At, After, Units, Slots, LIST_END
  <2> QED BY <2>1, <2>2, <2>3
<1>5. \A k \in 0 .. Length - 1 : At(k)' = At(k + 1)
  BY <1>1, <1>3, <1>4 DEF At, After, Units, Slots, LIST_END
<1>6. ASSUME NEW u \in Slots
      PROVE  Dist(u)' = IF Dist(u) = 0 THEN max_unit_num ELSE Dist(u) - 1
  BY <1>1, <1>4 DEF Dist, After, Units, Slots, LIST_END
<1>7. Length' = Length - 1
  <2>1. Last \in Slots
    BY <1>3, RingFacts
  <2> QED BY <2>1, <1>2, <1>3, <1>6 DEF Length, Dist
<1>8. ListIsRing'
  <2>1. ASSUME NEW k \in 0 .. Length - 1
        PROVE  next[At(k + 1)] = IF k = Length - 1 THEN LIST_END
                                                   ELSE At(k + 2)
    <3>1. k + 1 \in 0 .. Length /\ (k + 1) + 1 = k + 2
      BY <1>3
    <3> QED BY <3>1, <1>3 DEF ListIsRing
  <2>2. \A k \in 0 .. Length - 1 : k # Length - 1 => At(k + 1)' = At(k + 2)
    <3> SUFFICES ASSUME NEW k \in 0 .. Length - 1, k # Length - 1
                 PROVE  At(k + 1)' = At(k + 2)
      OBVIOUS
    <3>1. k + 1 \in 0 .. Length - 1 /\ (k + 1) + 1 = k + 2
      BY <1>3
    <3> QED BY <3>1, <1>5
  <2> QED BY <2>1, <2>2, <1>1, <1>5, <1>7 DEF ListIsRing
<1>9. TypeOK'
  BY <1>1 DEF TypeOK
<1>10. CountInv'
  BY <1>1, <1>3, <1>7 DEF CountInv, One, Taken, TypeOK
<1>11. PushInv'
  <2>1. Last # LIST_END
    BY <1>3, RingFacts DEF Slots, LIST_END
  <2> QED BY <2>1, <1>2, <1>4 DEF PushInv, SlotAt, After
<1>12. PopInv'
  <2>1. p_head' = next'[rhead'] /\ p_head' = After(rhead)'
    BY <1>1, <1>4 DEF After
  <2>2. ASSUME NEW s \in Slots, use_flag'[s]
        PROVE  \/ Dist(s)' \in 1 .. Length'
               \/ s = p_head'
               \/ wpc \in {"write", "link"} /\ s = wslot
    <3>1. \/ Dist(s) \in 1 .. Length
          \/ wpc \in {"write", "link"} /\ s = wslot
      BY <1>1, <2>2 DEF PopInv, Reading
    <3>2. CASE Dist(s) = 1
      BY <3>2, <1>1, <1>4 DEF Dist, After, Units, Slots, LIST_END
    <3>3. CASE Dist(s) \in 2 .. Length
      BY <3>3, <1>3, <1>6, <1>7
    <3> QED BY <3>1, <3>2, <3>3, <1>3
  <2> QED BY <2>1, <2>2, <1>1 DEF PopInv, Reading
<1> QED BY <1>3, <1>4, <1>5, <1>7, <1>8, <1>9, <1>10, <1>11, <1>12

LEMMA ReadUnitInv ==
  ASSUME RingInv, ReadUnit
  PROVE  RingInv'
<1> USE DEF RingInv, ReadUnit, PopTo, queueVars, pushVars
<1>1. Last' = Last
  BY DEF Last
<1>2. TypeOK'
  BY DEF TypeOK
<1>3. CountInv'
  BY <1>1, SameRing DEF CountInv, One, Taken
<1>4. PushInv' /\ PopInv'
  BY <1>1, SameRing DEF PushInv, PopInv, Reading, SlotAt, After
<1> QED BY <1>1, <1>2, <1>3, <1>4, SameRing

LEMMA FreeUnitInv ==
  ASSUME RingInv, FreeUnit
  PROVE  RingInv'
<1> USE DEF RingInv, FreeUnit, PopTo, pushVars
<1>1. Last' = Last /\ rpc = "free" /\ rpc' = "release"
  BY DEF Last
<1>2. next[rhead] = p_head /\ p_head \in Units
  BY <1>1 DEF PopInv, Reading, TypeOK
<1>3. TypeOK'
  BY DEF TypeOK
<1>4. CountInv'
  BY <1>1, SameRing DEF CountInv, One, Taken
<1>5. PushInv'
  BY <1>1 DEF PushInv, SlotAt, After
<1>6. PopInv'
  <2>1. \A s \in Slots : use_flag'[s] => use_flag[s] /\ s # p_head
    BY <1>2 DEF TypeOK, Units
  <2> QED BY <2>1, <1>1, SameRing DEF PopInv, Reading
<1> QED BY <1>1, <1>3, <1>4, <1>5, <1>6, SameRing

LEMMA DecWLenInv ==
  ASSUME RingInv, DecWLen
  PROVE  RingInv'
<1> USE DEF RingInv, DecWLen, PopTo, pushVars
<1>1. Last' = Last /\ rpc = "release" /\ rpc' = "len"
  BY DEF Last
<1>2. CountInv'
  BY <1>1, SameRing DEF CountInv, One, Taken, TypeOK
<1>3. TypeOK'
  <2>1. w_len' \in 0 .. max_unit_num
    BY <1>1, RingFacts, CapacityAssumption DEF CountInv, One, Taken, TypeOK
  <2> QED BY <2>1 DEF TypeOK
<1>4. PushInv' /\ PopInv'
  BY <1>1, SameRing DEF PushInv, PopInv, Reading, SlotAt, After
<1> QED BY <1>1, <1>2, <1>3, <1>4, SameRing

-----------------------------------------------------------------------------
(***************************************************************************)
(* The invariant.                                                          *)
(***************************************************************************)

\* Every access of a push or a pop preserves the invariant.
LEMMA RingInvNext == RingInv /\ [Next]_vars => RingInv'
<1> SUFFICES ASSUME RingInv, [Next]_vars PROVE RingInv'
  OBVIOUS
<1>1. CASE Push
  BY <1>1, ReadWLenInv, IncWLenInv, ClaimSlotInv, CheckSlotInv, EndUnitInv,
     UseUnitInv, WriteUnitInv, LinkUnitInv, MoveTailInv, CountUnitInv
  DEF Push
<1>2. CASE Pop
  BY <1>2, ReadRLenInv, DecRLenInv, MoveHeadInv, ReadUnitInv, FreeUnitInv,
     DecWLenInv
  DEF Pop
<1>3. CASE UNCHANGED vars
  <2> USE <1>3 DEF RingInv, vars, queueVars, pushVars, popVars
  <2>1. Last' = Last
    BY DEF Last
  <2>2. TypeOK' /\ CountInv' /\ PushInv' /\ PopInv'
    BY <2>1, SameRing DEF TypeOK, CountInv, PushInv, PopInv, SlotAt, After
  <2> QED BY <2>1, <2>2, SameRing
<1> QED BY <1>1, <1>2, <1>3 DEF Next

THEOREM RingInductive == Spec => []RingInv
<1> QED BY RingInit, RingInvNext, PTL DEF Spec

\* lf_queue.c:145-224: the unit a push fills is in nobody's hands.
THEOREM UnitsAreSafe == Spec => []UnitsSafe
<1>1. RingInv => UnitsSafe
  <2> SUFFICES ASSUME RingInv, wpc \in {"end", "use", "write"}
               PROVE  /\ wslot \notin Linked
                      /\ rpc \in {"read", "free"} => wslot \notin {rhead, next[rhead]}
    BY DEF UnitsSafe, UnitsExclusive
  <2>1. wslot \notin Linked
    BY PushFacts DEF Linked, Filling
  <2>2. rpc \in Reading => p_head = next[rhead]
    BY DEF RingInv, PopInv
  <2> QED BY <2>1, <2>2, PushFacts DEF Filling, Reading
<1> QED BY <1>1, RingInductive, PTL

\* lf_queue.c:187 and 205: r_len runs behind the list and w_len ahead of it.
THEOREM LengthsAreHonest == Spec => []LenIsHonest
<1>1. RingInv => LenIsHonest
  BY RingFacts DEF RingInv, TypeOK, CountInv, One, LenIsHonest
<1> QED BY <1>1, RingInductive, PTL

\* lf_queue.c:155 and 176: with one producer the first slot that is claimed is
\* free and the first compare and swap succeeds.
THEOREM NoRetries == Spec => []FirstTrySucceeds
<1>1. RingInv => FirstTrySucceeds
  <2> SUFFICES ASSUME RingInv PROVE FirstTrySucceeds
    OBVIOUS
  <2>1. wpc = "check" => ~use_flag[wslot]
    BY PushFacts, RingFacts DEF RingInv, PopInv, Filling
  <2>2. wpc = "link" => wold = p_tail /\ next[wold] = LIST_END
    <3>1. wpc = "link" => wold = Last /\ wold = p_tail
      BY DEF RingInv, PushInv, Last
    <3>2. next[Last] = LIST_END
      BY RingFacts DEF RingInv, ListIsRing
    <3> QED BY <3>1, <3>2
  <2> QED BY <2>1, <2>2 DEF FirstTrySucceeds
<1> QED BY <1>1, RingInductive, PTL

-----------------------------------------------------------------------------
(***************************************************************************)
(* The refinement.                                                         *)
(***************************************************************************)

\* the parts of the refinement mapping of LfQueue
Room  == max_unit_num - w_len
Items == [k \in 1 .. Length |-> data[At(k)]]
PushPlace == CASE wpc \in {"len", "reserve"} -> "idle"
               [] wpc \in {"tail", "count"}  -> "stored"
               [] OTHER                      -> "reserved"
PopPlace  == CASE rpc \in {"len", "claim"} -> "idle"
               [] rpc = "head"             -> "claimed"
               [] OTHER                    -> "taken"
Out == IF rpc = "read" THEN data[next[rhead]] ELSE out

LEMMA ItemsFacts ==
  ASSUME RingInv
  PROVE  /\ Items \in Seq(Numbers) /\ Len(Items) = Length
         /\ \A k \in 1 .. Length : Items[k] = data[At(k)]
<1>1. Length \in Nat /\ \A k \in 1 .. Length : At(k) \in Slots
  BY RingFacts
<1>2. \A k \in 1 .. Length : data[At(k)] \in Numbers
  BY <1>1 DEF RingInv, TypeOK, Units
<1> QED BY <1>1, <1>2 DEF Items

\* Steps that change neither the list nor the units in it.
LEMMA SameItems ==
  ASSUME RingInv, Length' = Length, \A k : At(k)' = At(k),
         \A k \in 1 .. Length : data'[At(k)] = data[At(k)]
  PROVE  Items' = Items
BY DEF Items

LEMMA FifoInit == Init => Fifo!Init
<1> SUFFICES ASSUME Init PROVE Fifo!Init
  OBVIOUS
<1>1. Length = 0
  BY DEF Init, Length, Dist, Last, LIST_END
<1>2. Items = <<>>
  BY <1>1 DEF Items
<1> QED BY <1>2, CapacityAssumption DEF Init, Fifo!Init, Items

-----------------------------------------------------------------------------
\* The steps of BoundedFifo, in terms of the mapping.
LEMMA Stutters ==
  ASSUME UNCHANGED <<Room, r_len, Items, PushPlace, PopPlace, number, Out>>
  PROVE  UNCHANGED Fifo!vars
BY DEF Fifo!vars, Room, Items, PushPlace, PopPlace, Out

LEMMA ProducerSteps ==
  ASSUME UNCHANGED <<PopPlace, Out>>
  PROVE  /\ /\ PushPlace = "idle" /\ Room > 0 /\ Room' = Room - 1
            /\ PushPlace' = "reserved" /\ UNCHANGED <<r_len, Items, number>>
            => Fifo!Reserve
         /\ /\ PushPlace = "reserved" /\ Items' = Append(Items, number)
            /\ number' = Fifo!Succ(number) /\ PushPlace' = "stored"
            /\ UNCHANGED <<Room, r_len>>
            => Fifo!Store
         /\ /\ PushPlace = "stored" /\ r_len' = r_len + 1
            /\ PushPlace' = "idle" /\ UNCHANGED <<Room, Items, number>>
            => Fifo!Announce
BY DEF Fifo!Reserve, Fifo!Store, Fifo!Announce, Room, Items, PushPlace,
   PopPlace, Out

LEMMA ConsumerSteps ==
  ASSUME UNCHANGED <<PushPlace, number>>
  PROVE  /\ /\ PopPlace = "idle" /\ r_len > 0 /\ r_len' = r_len - 1
            /\ PopPlace' = "claimed" /\ UNCHANGED <<Room, Items, Out>>
            => Fifo!Claim
         /\ /\ PopPlace = "claimed" /\ Items # <<>> /\ Out' = Head(Items)
            /\ Items' = Tail(Items) /\ PopPlace' = "taken"
            /\ UNCHANGED <<Room, r_len>>
            => Fifo!Take
         /\ /\ PopPlace = "taken" /\ Room' = Room + 1 /\ PopPlace' = "idle"
            /\ UNCHANGED <<r_len, Items, Out>>
            => Fifo!Release
BY DEF Fifo!Claim, Fifo!Take, Fifo!Release, Room, Items, PushPlace, PopPlace,
   Out

\* What a pop has taken is in the unit p_head until it is copied.
LEMMA OutIs ==
  ASSUME RingInv, RingInv'
  PROVE  /\ Out = IF rpc = "read" THEN data[p_head] ELSE out
         /\ Out' = IF rpc' = "read" THEN data'[p_head'] ELSE out'
BY DEF Out, RingInv, PopInv, Reading

-----------------------------------------------------------------------------
\* The linearization points: the unit is stored when it is linked ...
LEMMA LinkIsStore ==
  ASSUME RingInv, LinkUnit
  PROVE  Fifo!Store
<1>1. /\ RingInv' /\ Length' = Length + 1 /\ \A k : At(k)' = At(k)
      /\ At(Length + 1) = wslot
  BY LinkUnitInv
<1>2. /\ data' = data /\ data[wslot] = number /\ wpc = "link" /\ wpc' = "tail"
      /\ number \in Numbers /\ number' = (number + 1) % Window
      /\ UNCHANGED <<w_len, r_len, rpc, rhead, out>>
  BY DEF LinkUnit, PushTo, popVars, RingInv, PushInv, TypeOK
<1>3. Items' = Append(Items, number)
  <2>1. /\ Items \in Seq(Numbers) /\ Len(Items) = Length
        /\ \A k \in 1 .. Length : Items[k] = data[At(k)]
        /\ Length \in Nat
    BY ItemsFacts, RingFacts
  <2> DEFINE s == [k \in 1 .. Length + 1 |-> data[At(k)]]
  <2>2. Items' = s
    BY <1>1, <1>2 DEF Items
  <2>3. ASSUME NEW k \in 1 .. Length + 1
        PROVE  s[k] = Append(Items, number)[k] /\ s[k] \in Numbers
    <3>1. s[k] = data[At(k)]
      OBVIOUS
    <3> HIDE DEF s
    <3>2. CASE k = Length + 1
      BY <3>1, <3>2, <1>1, <1>2, <2>1
    <3>3. CASE k \in 1 .. Length
      <4>1. Items[k] \in Numbers
        BY <2>1, <3>3
      <4> QED BY <3>1, <3>3, <4>1, <2>1, <1>2
    <3> QED BY <3>2, <3>3, <2>1
  <2>4. s \in Seq(Numbers) /\ Len(s) = Length + 1
    BY <2>1, <2>3
  <2>5. Append(Items, number) \in Seq(Numbers)
        /\ Len(Append(Items, number)) = Length + 1
    BY <2>1, <1>2
  <2> HIDE DEF s
  <2>6. s = Append(Items, number)
    BY <2>3, <2>4, <2>5, SeqEqual
  <2> QED BY <2>2, <2>6
<1>4. number' = Fifo!Succ(number)
  BY <1>2, NumberWraps DEF Fifo!Succ
<1>5. UNCHANGED <<PopPlace, Room, Out>>
  <2>1. p_head' = p_head
    BY DEF LinkUnit
  <2> QED BY <1>1, <1>2, <2>1, OutIs DEF PopPlace, Room
<1>6. PushPlace = "reserved" /\ PushPlace' = "stored"
  BY <1>2 DEF PushPlace
<1> QED BY <1>2, <1>3, <1>4, <1>5, <1>6, ProducerSteps

\* ... and taken when p_head moves.
LEMMA MoveIsTake ==
  ASSUME RingInv, MoveHead
  PROVE  Fifo!Take
<1>1. /\ RingInv' /\ Length > 0 /\ Length' = Length - 1 /\ p_head' = At(1)
      /\ \A k \in 0 .. Length - 1 : At(k)' = At(k + 1)
  BY MoveHeadInv
<1>2. /\ data' = data /\ rpc = "head" /\ rpc' = "read"
      /\ UNCHANGED <<w_len, r_len, wpc, number>>
  BY DEF MoveHead, PopTo, pushVars
<1>3. /\ Items \in Seq(Numbers) /\ Len(Items) = Length /\ Length \in Nat
      /\ \A k \in 1 .. Length : Items[k] = data[At(k)]
  BY ItemsFacts, RingFacts
<1>4. Items # <<>> /\ Head(Items) = data[At(1)]
  BY <1>1, <1>3
<1>5. Items' = Tail(Items)
  <2> DEFINE s == [k \in 1 .. Length - 1 |-> data[At(k + 1)]]
  <2>1. Items' = s
    BY <1>1, <1>2, <1>3 DEF Items
  <2>2. /\ Tail(Items) \in Seq(Numbers) /\ Len(Tail(Items)) = Length - 1
        /\ \A k \in 1 .. Length - 1 : Tail(Items)[k] = Items[k + 1]
    BY <1>3, <1>4, HeadTailProperties
  <2>3. ASSUME NEW k \in 1 .. Length - 1
        PROVE  s[k] = Tail(Items)[k] /\ s[k] \in Numbers
    <3>1. k + 1 \in 1 .. Length /\ s[k] = data[At(k + 1)]
      BY <1>3
    <3> HIDE DEF s
    <3> QED BY <3>1, <1>3, <2>2
  <2>4. s \in Seq(Numbers) /\ Len(s) = Length - 1
    BY <1>1, <1>3, <2>3
  <2> HIDE DEF s
  <2>5. s = Tail(Items)
    BY <2>2, <2>3, <2>4, SeqEqual
  <2> QED BY <2>1, <2>5
<1>6. Out' = Head(Items)
  BY <1>1, <1>2, <1>4, OutIs
<1>7. PopPlace = "claimed" /\ PopPlace' = "taken" /\ UNCHANGED <<PushPlace, Room>>
  BY <1>2 DEF PopPlace, PushPlace, Room
<1> QED BY <1>2, <1>4, <1>5, <1>6, <1>7, ConsumerSteps

-----------------------------------------------------------------------------
\* The other accesses, which leave the units in the list as they are.
LEMMA SameList ==
  ASSUME RingInv, RingInv', p_head' = p_head, Last' = Last,
         \A k \in 1 .. Length : data'[At(k)] = data[At(k)]
  PROVE  Items' = Items
<1>1. (\A k : At(k)' = At(k)) /\ Length' = Length
  BY DEF At, Length, Dist
<1> QED BY <1>1, SameItems

LEMMA PushSteps ==
  ASSUME RingInv, RingInv', Push, ~LinkUnit
  PROVE  Fifo!Next \/ UNCHANGED Fifo!vars
<1>1. p_head' = p_head /\ UNCHANGED <<rpc, rhead, out, number>>
  BY DEF Push, ReadWLen, IncWLen, ClaimSlot, CheckSlot, EndUnit, UseUnit,
     WriteUnit, LinkUnit, MoveTail, CountUnit, PushTo, queueVars, popVars
<1>2. UNCHANGED PopPlace
  BY <1>1 DEF PopPlace
<1>3. CASE ReadWLen \/ IncWLen \/ CountUnit
  <2> USE <1>3 DEF ReadWLen, IncWLen, CountUnit, PushTo, queueVars, popVars
  <2>1. data' = data /\ Last' = Last
    BY DEF Last
  <2>2. Items' = Items /\ Out' = Out
    BY <1>1, <2>1, SameList, OutIs
  <2>3. w_len \in 0 .. max_unit_num /\ max_unit_num \in Nat
        /\ (wpc = "reserve" => wlen < max_unit_num)
    BY CapacityAssumption DEF RingInv, TypeOK, CountInv
  <2>4. CASE ReadWLen \/ (IncWLen /\ w_len # wlen)
    <3>1. UNCHANGED <<Room, PushPlace, r_len>>
      BY <2>4 DEF Room, PushPlace
    <3> QED BY <1>1, <1>2, <2>2, <3>1, Stutters
  <2>5. CASE IncWLen /\ w_len = wlen
    <3>1. /\ PushPlace = "idle" /\ Room > 0 /\ Room' = Room - 1
          /\ PushPlace' = "reserved" /\ UNCHANGED r_len
      BY <2>3, <2>5 DEF Room, PushPlace
    <3>2. Fifo!Reserve
      BY <1>1, <1>2, <2>2, <3>1, ProducerSteps
    <3> QED BY <3>2 DEF Fifo!Next
  <2>6. CASE CountUnit
    <3>1. /\ PushPlace = "stored" /\ r_len' = r_len + 1
          /\ PushPlace' = "idle" /\ UNCHANGED Room
      BY <2>6 DEF Room, PushPlace
    <3>2. Fifo!Announce
      BY <1>1, <1>2, <2>2, <3>1, ProducerSteps
    <3> QED BY <3>2 DEF Fifo!Next
  <2> QED BY <2>4, <2>5, <2>6
<1>4. CASE ClaimSlot \/ CheckSlot \/ EndUnit \/ UseUnit \/ MoveTail
  <2>1. /\ data' = data /\ Last' = Last
        /\ UNCHANGED <<Room, PushPlace, r_len>>
    <3>1. CASE ClaimSlot \/ CheckSlot
      BY <3>1 DEF ClaimSlot, CheckSlot, PushTo, queueVars, Last, Room, PushPlace
    <3>2. CASE EndUnit \/ UseUnit
      BY <3>2 DEF EndUnit, UseUnit, PushTo, Last, Room, PushPlace
    <3>3. CASE MoveTail
      BY <3>3 DEF MoveTail, PushTo, Last, Room, PushPlace, RingInv, PushInv
    <3> QED BY <1>4, <3>1, <3>2, <3>3
  <2>2. Items' = Items /\ Out' = Out
    BY <1>1, <2>1, SameList, OutIs
  <2> QED BY <1>1, <1>2, <2>1, <2>2, Stutters
<1>5. CASE WriteUnit
  <2> USE <1>5 DEF WriteUnit, PushTo, popVars
  <2>1. /\ Last' = Last /\ wpc \in Filling
        /\ UNCHANGED <<Room, PushPlace, r_len>>
    BY DEF Last, Filling, Room, PushPlace
  <2>2. \A u : u # wslot => data'[u] = data[u]
    BY DEF RingInv, TypeOK
  <2>3. \A k \in 1 .. Length : data'[At(k)] = data[At(k)]
    BY <2>1, <2>2, PushFacts, RingFacts
  <2>4. Items' = Items
    BY <1>1, <2>1, <2>3, SameList
  <2>5. Out' = Out
    <3>1. rpc \in Reading => data'[p_head] = data[p_head]
      BY <2>1, <2>2, PushFacts
    <3> QED BY <1>1, <3>1, OutIs DEF Reading
  <2> QED BY <1>1, <1>2, <2>1, <2>4, <2>5, Stutters
<1> QED BY <1>3, <1>4, <1>5 DEF Push

LEMMA PopSteps ==
  ASSUME RingInv, RingInv', Pop, ~MoveHead
  PROVE  Fifo!Next \/ UNCHANGED Fifo!vars
<1>1. /\ UNCHANGED <<p_head, p_tail, wslot, wpc, number, data>>
      /\ Last' = Last
  BY DEF Pop, ReadRLen, DecRLen, MoveHead, ReadUnit, FreeUnit, DecWLen, PopTo,
     queueVars, pushVars, Last
<1>2. UNCHANGED <<PushPlace, Items>>
  BY <1>1, SameList DEF PushPlace
<1>3. CASE ReadRLen \/ DecRLen
  <2> USE <1>3 DEF ReadRLen, DecRLen, PopTo, queueVars, pushVars
  <2>1. Out' = Out /\ UNCHANGED Room
    BY <1>1, OutIs DEF Room
  <2>2. rpc = "claim" => rlen > 0
    BY DEF RingInv, CountInv
  <2>3. CASE DecRLen /\ r_len = rlen
    <3>1. /\ PopPlace = "idle" /\ r_len > 0 /\ r_len' = r_len - 1
          /\ PopPlace' = "claimed"
      BY <2>2, <2>3 DEF PopPlace
    <3>2. Fifo!Claim
      BY <1>1, <1>2, <2>1, <3>1, ConsumerSteps
    <3> QED BY <3>2 DEF Fifo!Next
  <2>4. CASE ReadRLen \/ r_len # rlen
    <3>1. UNCHANGED <<PopPlace, r_len>>
      BY <2>4 DEF PopPlace
    <3> QED BY <1>1, <1>2, <2>1, <3>1, Stutters
  <2> QED BY <2>3, <2>4
<1>4. CASE ReadUnit \/ FreeUnit
  <2> USE <1>4 DEF ReadUnit, FreeUnit, PopTo, queueVars, pushVars
  <2>1. UNCHANGED <<PopPlace, Room, r_len>>
    BY DEF PopPlace, Room
  <2>2. Out' = Out
    BY <1>1 DEF Out
  <2> QED BY <1>1, <1>2, <2>1, <2>2, Stutters
<1>5. CASE DecWLen
  <2> USE <1>5 DEF DecWLen, PopTo, pushVars
  <2>1. /\ PopPlace = "taken" /\ Room' = Room + 1 /\ PopPlace' = "idle"
        /\ Out' = Out
    BY <1>1, OutIs, CapacityAssumption DEF PopPlace, Room, RingInv, TypeOK
  <2>2. Fifo!Release
    BY <1>1, <1>2, <2>1, ConsumerSteps
  <2> QED BY <2>2 DEF Fifo!Next
<1> QED BY <1>3, <1>4, <1>5 DEF Pop

\* lf_queue.c:126-225: with one producer and one consumer the linked list, the
\* ring of slots and the two counters together are a bounded buffer.
THEOREM QueueImplementsFifo == Spec => ImplementsFifo
<1>1. Init => Fifo!Init
  BY FifoInit
<1>2. RingInv /\ RingInv' /\ [Next]_vars => [Fifo!Next]_Fifo!vars
  <2> SUFFICES ASSUME RingInv, RingInv', [Next]_vars
               PROVE  Fifo!Next \/ UNCHANGED Fifo!vars
    OBVIOUS
  <2>1. CASE Push
    BY <2>1, LinkIsStore, PushSteps DEF Fifo!Next
  <2>2. CASE Pop
    BY <2>2, MoveIsTake, PopSteps DEF Fifo!Next
  <2>3. CASE UNCHANGED vars
    <3>1. UNCHANGED <<Room, r_len, Items, PushPlace, PopPlace, number, Out>>
      <4> USE <2>3 DEF vars, queueVars, pushVars, popVars
      <4>1. data' = data /\ Last' = Last /\ p_head' = p_head
        BY DEF Last
      <4> QED BY <4>1, SameList DEF Room, PushPlace, PopPlace, Out
    <3> QED BY <3>1, Stutters
  <2> QED BY <2>1, <2>2, <2>3 DEF Next
<1> QED BY <1>1, <1>2, RingInductive, PTL DEF Spec, ImplementsFifo, Fifo!Spec
=============================================================================
