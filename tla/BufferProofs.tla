---------------------------- MODULE BufferProofs ----------------------------
(***************************************************************************)
(* Theorems about the two containers of a stream: BoundedFifo, which the   *)
(* lock-free queue of frames implements, for every capacity, and ClientList, *)
(* for every set of list entries; and one about all of the components that *)
(* MCComponents puts side by side.                                         *)
(***************************************************************************)
EXTENDS MCComponents, MediaProofs, SetupProofs

-----------------------------------------------------------------------------
\* BoundedFifo: the queue neither loses nor reorders units, and a claimed unit
\* is there.

Inv == TypeOK /\ Conservation /\ InOrder

\* The buffer starts empty.
LEMMA FifoStarts == Init => Inv
<1> SUFFICES ASSUME Init PROVE Inv
  OBVIOUS
<1>1. TypeOK
  BY CapacityAssumption, WindowAssumption DEF Init, TypeOK, Numbers
<1>2. Conservation
  BY CapacityAssumption DEF Init, Conservation, One
<1>3. InOrder
  BY WindowAssumption DEF Init, InOrder, Succ
<1> QED BY <1>1, <1>2, <1>3 DEF Inv

\* The number after a number is a number.
LEMMA SuccNumber == ASSUME NEW u \in Numbers PROVE Succ(u) \in Numbers
  BY WindowAssumption DEF Succ, Numbers

\* One step of the producer or of the consumer.
LEMMA FifoStep == Inv /\ [Next]_vars => Inv'
<1> SUFFICES ASSUME Inv, [Next]_vars PROVE Inv'
  OBVIOUS
<1> USE DEF Inv
<1>0. /\ room \in Nat /\ ready \in Nat /\ items \in Seq(Numbers) /\ Len(items) \in Nat
      /\ Capacity \in Nat
  BY CapacityAssumption DEF TypeOK
<1>1. CASE Reserve
  <2>1. Conservation'
    BY <1>0, <1>1 DEF Reserve, Conservation, One
  <2>2. TypeOK'
    BY <1>0, <1>1 DEF Reserve, TypeOK
  <2>3. InOrder'
    BY <1>1 DEF Reserve, InOrder
  <2> QED BY <2>1, <2>2, <2>3
<1>2. CASE Store
  <2> DEFINE s == Append(items, number)
  <2>1. /\ items' = s /\ number' = Succ(number) /\ number \in Numbers
        /\ push = "reserved" /\ push' = "stored"
        /\ UNCHANGED <<room, ready, pop, out>>
    BY <1>2 DEF Store, TypeOK
  <2>2. /\ s \in Seq(Numbers) /\ Len(s) = Len(items) + 1 /\ s[Len(s)] = number
        /\ \A i \in 1 .. Len(items) : s[i] = items[i]
        /\ s # <<>> /\ Head(s) = s[1]
    BY <1>0, <2>1
  <2> HIDE DEF s
  <2>3. Conservation'
    BY <1>0, <2>1, <2>2 DEF Conservation, One
  <2>4. TypeOK'
    BY <1>0, <2>1, <2>2, SuccNumber DEF TypeOK
  <2>5. InOrder'
    <3>1. CASE items = <<>>
      <4>1. Len(s) = 1
        BY <2>2, <3>1
      <4> QED BY <2>1, <2>2, <3>1, <4>1 DEF InOrder
    <3>2. CASE items # <<>>
      <4>1. Len(items) \in 1 .. Len(items) /\ Len(items) # 0 /\ Head(items) = items[1]
        BY <1>0, <3>2
      <4>2. Head(s) = Succ(out) /\ number' = Succ(s[Len(s)])
        BY <2>1, <2>2, <3>2, <4>1 DEF InOrder
      <4>3. ASSUME NEW i \in 1 .. Len(s) - 1 PROVE s[i + 1] = Succ(s[i])
        <5>1. CASE i = Len(items)
          BY <1>0, <2>2, <3>2, <4>1, <5>1 DEF InOrder
        <5>2. CASE i # Len(items)
          <6>1. i \in 1 .. Len(items) - 1 /\ i + 1 \in 1 .. Len(items)
            BY <1>0, <2>2, <5>2
          <6> QED BY <2>2, <6>1 DEF InOrder
        <5> QED BY <5>1, <5>2
      <4> QED BY <2>1, <2>2, <4>2, <4>3 DEF InOrder
    <3> QED BY <3>1, <3>2
  <2> QED BY <2>3, <2>4, <2>5
<1>3. CASE Announce
  <2>1. Conservation'
    BY <1>0, <1>3 DEF Announce, Conservation, One
  <2>2. ready' \in 0 .. Capacity
    BY <1>0, <1>3, <2>1 DEF Announce, Conservation, One
  <2>3. TypeOK'
    BY <1>3, <2>2 DEF Announce, TypeOK
  <2>4. InOrder'
    BY <1>3 DEF Announce, InOrder
  <2> QED BY <2>1, <2>3, <2>4
<1>4. CASE Claim
  <2>1. Conservation'
    BY <1>0, <1>4 DEF Claim, Conservation, One
  <2>2. TypeOK'
    BY <1>0, <1>4 DEF Claim, TypeOK
  <2>3. InOrder'
    BY <1>4 DEF Claim, InOrder
  <2> QED BY <2>1, <2>2, <2>3
<1>5. CASE Take
  <2> DEFINE s == Tail(items)
  <2>1. /\ items' = s /\ out' = Head(items) /\ items # <<>>
        /\ pop = "claimed" /\ pop' = "taken"
        /\ UNCHANGED <<room, ready, push, number>>
    BY <1>5 DEF Take
  <2>2. /\ s \in Seq(Numbers) /\ Len(s) = Len(items) - 1 /\ Len(items) # 0
        /\ Head(items) = items[1] /\ items[1] \in Numbers
        /\ \A i \in 1 .. Len(s) : s[i] = items[i + 1]
    BY <1>0, <2>1
  <2>3. s # <<>> => Head(s) = s[1] /\ Len(s) \in 1 .. Len(s)
    BY <2>2
  <2>4. s = <<>> => Len(s) = 0 /\ Len(items) = 1
    <3>1. s = <<>> => Len(s) = 0
      OBVIOUS
    <3> HIDE DEF s
    <3> QED BY <1>0, <2>2, <3>1
  <2> HIDE DEF s
  <2>5. Conservation'
    BY <1>0, <2>1, <2>2 DEF Conservation, One
  <2>6. TypeOK'
    BY <2>1, <2>2 DEF TypeOK
  <2>7. InOrder'
    <3>1. CASE s = <<>>
      <4>1. number = Succ(items[1]) /\ Len(s) = 0
        BY <2>1, <2>4, <3>1 DEF InOrder
      <4>2. \A i \in 1 .. Len(s) - 1 : s[i + 1] = Succ(s[i])
        BY <4>1
      <4> QED BY <2>1, <2>2, <3>1, <4>1, <4>2 DEF InOrder
    <3>2. CASE s # <<>>
      <4>1. s[Len(s)] = items[Len(items)] /\ s[1] = items[2]
        BY <1>0, <2>2, <2>3, <3>2
      <4>2. Head(s) = Succ(items[1])
        BY <1>0, <2>2, <2>3, <3>2, <4>1 DEF InOrder
      <4>3. ASSUME NEW i \in 1 .. Len(s) - 1 PROVE s[i + 1] = Succ(s[i])
        <5>1. i \in 1 .. Len(s) /\ i + 1 \in 1 .. Len(s) /\ i + 1 \in 1 .. Len(items) - 1
          BY <1>0, <2>2
        <5> QED BY <2>2, <5>1 DEF InOrder
      <4> QED BY <2>1, <2>2, <3>2, <4>1, <4>2, <4>3 DEF InOrder
    <3> QED BY <3>1, <3>2
  <2> QED BY <2>5, <2>6, <2>7
<1>6. CASE Release
  <2>1. Conservation'
    BY <1>0, <1>6 DEF Release, Conservation, One
  <2>2. room' \in 0 .. Capacity
    BY <1>0, <1>6, <2>1 DEF Release, Conservation, One
  <2>3. TypeOK'
    BY <1>6, <2>2 DEF Release, TypeOK
  <2>4. InOrder'
    BY <1>6 DEF Release, InOrder
  <2> QED BY <2>1, <2>3, <2>4
<1>7. CASE UNCHANGED vars
  BY <1>7 DEF vars, TypeOK, Conservation, InOrder
<1> QED BY <1>1, <1>2, <1>3, <1>4, <1>5, <1>6, <1>7 DEF Next

\* The variables keep their types.
THEOREM TypeCorrect == Spec => []TypeOK
<1>1. Inv => TypeOK
  BY DEF Inv
<1> QED BY <1>1, FifoStarts, FifoStep, PTL DEF Spec

\* lf_queue.c: the counters tell the truth, so at most Capacity units are ever
\* stored and a claim on r_len is always followed by a unit; and units come out
\* in the order in which they went in.
THEOREM FirstInFirstOut == Spec => []FifoExact
<1>1. Inv => ClaimedIsThere
  BY CapacityAssumption DEF Inv, TypeOK, Conservation, ClaimedIsThere, One
<1>2. Inv => FifoExact
  BY <1>1 DEF Inv, FifoExact
<1> QED BY <1>2, FifoStarts, FifoStep, PTL DEF Spec

-----------------------------------------------------------------------------
\* ClientList

\* the entry at place i of a list s: a sentinel, or the i-th client
AtIn(s, i) == IF i = 0 THEN Head0 ELSE IF i = Len(s) + 1 THEN Tail0 ELSE s[i]
At(i) == AtIn(seq, i)

\* both chains, as far as the append that is under way has come
NextOK ==
  \A i \in 0 .. Len(seq) :
    next[At(i)] = IF i = Len(seq) /\ apc \in {"link2", "link3", "link4", "count"}
                  THEN lent ELSE At(i + 1)
PrevOK ==
  \A i \in 1 .. Len(seq) + 1 :
    prev[At(i)] = IF i = Len(seq) + 1 /\ apc = "count" THEN lent ELSE At(i - 1)
LentOK ==
  /\ apc \in {"link3", "link4", "count"} => prev[lent] = At(Len(seq))
  /\ apc \in {"link4", "count"} => next[lent] = Tail0
  /\ apc \notin {"idle", "mid"} =>
       lent \in Elems /\ lent \notin ToSet(seq) /\ lent \notin ToSet(spareels)
  /\ apc = "mid" => seq # <<>> /\ lent = seq[Len(seq)]
  /\ apc = "idle" => lent = Null

\* mid is the middle, of the list before the append until that is through
MidSize == IF apc = "mid" THEN Len(seq) - 1 ELSE Len(seq)
MidOK == mid = IF MidSize = 0 THEN Null ELSE seq[MidOf(MidSize) + 1]

\* an entry is in the list once, or a spare once
EntriesApart ==
  /\ IsInjective(seq) /\ IsInjective(spareels)
  /\ ToSet(seq) \cap ToSet(spareels) = {}

Forward == FromHead(pos, n) \/ MidForth(pos, n)

\* where a lookup is: a place of the list with enough of it before it, or the
\* entry that is being appended, which it has come to from the tail.  If no
\* append has met it, it will end at the place it looks for.
AtPlace(k) ==
  /\ ptr = At(k)
  /\ IF Forward THEN k + hops <= Len(seq) ELSE hops <= k
  /\ quiet => pos + 1 = IF Forward THEN k + hops ELSE k - hops
InFresh == ptr = lent /\ apc = "count" /\ ~Forward /\ hops <= Len(seq) /\ ~quiet

LookupOK ==
  /\ rpc # "idle" => pos < n /\ n <= Len(seq) /\ (quiet => apc = "idle" /\ n = Len(seq))
  /\ rpc = "hop" => \/ \E k \in 0 .. Len(seq) : AtPlace(k)
                    \/ AtPlace(Len(seq) + 1) /\ hops \in 1 .. Len(seq)
                    \/ InFresh

ListInv ==
  /\ ListTypeOK /\ numels = Len(seq)
  /\ NextOK /\ PrevOK /\ LentOK /\ MidOK /\ EntriesApart /\ LookupOK

-----------------------------------------------------------------------------

LEMMA Places ==
  ASSUME NEW s \in Seq(Elems), IsInjective(s)
  PROVE  /\ Len(s) \in Nat
         /\ AtIn(s, 0) = Head0 /\ AtIn(s, Len(s) + 1) = Tail0
         /\ \A i \in 1 .. Len(s) :
              AtIn(s, i) = s[i] /\ s[i] \in Elems /\ s[i] \in ToSet(s)
         /\ \A i \in 0 .. Len(s) + 1 : AtIn(s, i) \in Entries
         /\ \A i \in 0 .. Len(s) + 1 : \A j \in 0 .. Len(s) + 1 :
              AtIn(s, i) = AtIn(s, j) => i = j
         /\ \A i \in 0 .. Len(s) + 1 :
              AtIn(s, i) \in Elems => i \in 1 .. Len(s) /\ AtIn(s, i) \in ToSet(s)
<1>1. Len(s) \in Nat /\ DOMAIN s = 1 .. Len(s)
  OBVIOUS
<1>2. AtIn(s, 0) = Head0 /\ AtIn(s, Len(s) + 1) = Tail0
  BY <1>1 DEF AtIn
<1>3. \A i \in 1 .. Len(s) :
        AtIn(s, i) = s[i] /\ s[i] \in Elems /\ s[i] \in ToSet(s)
  BY <1>1 DEF AtIn, ToSet
<1>4. \A i \in 0 .. Len(s) + 1 : i = 0 \/ i = Len(s) + 1 \/ i \in 1 .. Len(s)
  BY <1>1
<1>5. \A i \in 0 .. Len(s) + 1 : AtIn(s, i) \in Entries
  BY <1>2, <1>3, <1>4 DEF Entries
<1>6. \A i \in 0 .. Len(s) + 1 :
        AtIn(s, i) \in Elems => i \in 1 .. Len(s) /\ AtIn(s, i) \in ToSet(s)
  BY <1>2, <1>3, <1>4, SentinelAssumption
<1>7. ASSUME NEW i \in 0 .. Len(s) + 1, NEW j \in 0 .. Len(s) + 1,
             AtIn(s, i) = AtIn(s, j)
      PROVE  i = j
  <2>1. CASE i \in 1 .. Len(s) /\ j \in 1 .. Len(s)
    BY <2>1, <1>7, <1>3, <1>1 DEF IsInjective
  <2>2. CASE ~(i \in 1 .. Len(s) /\ j \in 1 .. Len(s))
    BY <2>2, <1>7, <1>2, <1>3, <1>4, SentinelAssumption
  <2> QED BY <2>1, <2>2
<1> QED BY <1>1, <1>2, <1>3, <1>5, <1>6, <1>7

\* What holds in the beginning.
LEMMA ListStarts == ListInit => ListInv
<1> SUFFICES ASSUME ListInit PROVE ListInv
  OBVIOUS
<1> USE DEF ListInit
<1>1. <<>> \in Seq(Elems) /\ Len(<<>>) = 0 /\ ToSet(<<>>) = {} /\ IsInjective(<<>>)
  BY DEF ToSet, IsInjective
<1>2. ListTypeOK
  BY <1>1 DEF ListTypeOK, Pointers, Entries
<1>3. NextOK /\ PrevOK
  BY <1>1, SentinelAssumption DEF NextOK, PrevOK, At, AtIn, Entries
<1> QED BY <1>1, <1>2, <1>3
        DEF ListInv, LentOK, MidOK, MidSize, EntriesApart, LookupOK

\* What an action of the loop that leaves the clients and the lookup alone
\* has to keep.
LEMMA SameEntries ==
  ASSUME ListInv, UNCHANGED <<seq, lookupVars>>,
         quiet' => quiet,
         rpc # "idle" /\ quiet' => apc' = "idle",
         apc # "count", apc' = "count" => apc = "link4"
  PROVE  LookupOK'
<1> USE DEF lookupVars
<1>1. \A k : At(k)' = At(k)
  BY DEF At, AtIn
<1>2. Forward' = Forward
  BY DEF Forward
<1>3. \A k : AtPlace(k) => AtPlace(k)'
  BY <1>1, <1>2 DEF AtPlace
<1>4. ~InFresh
  BY DEF InFresh
<1> QED BY <1>3, <1>4 DEF ListInv, LookupOK

LEMMA BeginAppendKeeps == ListInv /\ BeginAppend => ListInv'
<1> SUFFICES ASSUME ListInv, BeginAppend PROVE ListInv'
  OBVIOUS
<1> USE DEF BeginAppend
<1>1. /\ lent' \in Elems /\ lent' \notin ToSet(seq) /\ lent' \notin ToSet(spareels')
      /\ spareels' \in Seq(Elems) /\ IsInjective(spareels')
      /\ ToSet(seq) \cap ToSet(spareels') = {}
  <2>1. CASE spareels # <<>>
    BY <2>1, FrontElems DEF ListInv, ListTypeOK, EntriesApart
  <2>2. CASE spareels = <<>>
    BY <2>2 DEF ListInv, ListTypeOK, EntriesApart, Fresh
  <2> QED BY <2>1, <2>2
<1>2. ListTypeOK'
  BY <1>1 DEF ListInv, ListTypeOK, lookupVars
<1>3. NextOK' /\ PrevOK'
  BY DEF ListInv, NextOK, PrevOK, At
<1>4. LentOK' /\ MidOK' /\ EntriesApart'
  BY <1>1 DEF ListInv, LentOK, MidOK, MidSize, EntriesApart
<1>5. LookupOK'
  BY SameEntries
<1> QED BY <1>2, <1>3, <1>4, <1>5 DEF ListInv

LEMMA LinkAfterKeeps == ListInv /\ LinkAfter => ListInv'
<1> SUFFICES ASSUME ListInv, LinkAfter PROVE ListInv'
  OBVIOUS
<1> USE DEF LinkAfter
<1>1. seq \in Seq(Elems) /\ IsInjective(seq) /\ lent \in Elems
  BY DEF ListInv, ListTypeOK, EntriesApart, LentOK
<1>2. Len(seq) \in Nat /\ Len(seq) + 1 \in 1 .. Len(seq) + 1 /\ Tail0 = At(Len(seq) + 1)
  BY <1>1, Places DEF At
<1>3. prev[Tail0] = At(Len(seq))
  <2>1. (Len(seq) + 1) - 1 = Len(seq)
    BY <1>2
  <2> QED BY <1>2, <2>1 DEF ListInv, PrevOK
<1>4. ListTypeOK'
  BY <1>1 DEF ListInv, ListTypeOK, lookupVars, Pointers, Entries
<1>5. NextOK'
  <2>1. \A i \in 0 .. Len(seq) : At(i) \in Entries /\ (At(i) = At(Len(seq)) => i = Len(seq))
    <3>1. \A i \in 0 .. Len(seq) : i \in 0 .. Len(seq) + 1 /\ Len(seq) \in 0 .. Len(seq) + 1
      BY <1>2
    <3> QED BY <1>1, <3>1, Places DEF At
  <2>2. ASSUME NEW i \in 0 .. Len(seq)
        PROVE  next'[At(i)] = IF i = Len(seq) THEN lent ELSE At(i + 1)
    <3>1. next[At(i)] = At(i + 1)
      BY DEF ListInv, NextOK
    <3> QED BY <3>1, <2>1, <1>3 DEF ListInv, ListTypeOK
  <2> QED BY <2>2 DEF NextOK, At
<1>6. PrevOK'
  BY DEF ListInv, PrevOK, At
<1>7. LentOK' /\ MidOK' /\ EntriesApart'
  BY DEF ListInv, LentOK, MidOK, MidSize, EntriesApart
<1>8. LookupOK'
  BY SameEntries DEF ListInv, LookupOK
<1> QED BY <1>4, <1>5, <1>6, <1>7, <1>8 DEF ListInv

LEMMA LinkBackKeeps == ListInv /\ LinkBack => ListInv'
<1> SUFFICES ASSUME ListInv, LinkBack PROVE ListInv'
  OBVIOUS
<1> USE DEF LinkBack
<1>1. /\ seq \in Seq(Elems) /\ IsInjective(seq)
      /\ lent \in Elems /\ lent \notin ToSet(seq)
  BY DEF ListInv, ListTypeOK, EntriesApart, LentOK
<1>2. Len(seq) \in Nat /\ Len(seq) + 1 \in 1 .. Len(seq) + 1 /\ Tail0 = At(Len(seq) + 1)
  BY <1>1, Places DEF At
<1>3. prev[Tail0] = At(Len(seq))
  <2>1. (Len(seq) + 1) - 1 = Len(seq)
    BY <1>2
  <2> QED BY <1>2, <2>1 DEF ListInv, PrevOK
<1>4. \A i \in 0 .. Len(seq) + 1 : At(i) # lent
  BY <1>1, Places DEF At
<1>5. ListTypeOK'
  <2>1. prev[Tail0] \in Pointers
    BY DEF ListInv, ListTypeOK, Entries
  <2> QED BY <1>1, <2>1 DEF ListInv, ListTypeOK, lookupVars, Entries
<1>6. PrevOK'
  <2>1. \A i \in 1 .. Len(seq) + 1 : i \in 0 .. Len(seq) + 1
    BY <1>2
  <2>2. \A i \in 1 .. Len(seq) + 1 : prev'[At(i)] = prev[At(i)]
    BY <1>4, <2>1 DEF ListInv, ListTypeOK
  <2> QED BY <2>2 DEF ListInv, PrevOK, At
<1>7. NextOK'
  BY DEF ListInv, NextOK, At
<1>8. prev'[lent] = At(Len(seq))
  BY <1>1, <1>3 DEF ListInv, ListTypeOK, Entries
<1>9. LentOK' /\ MidOK' /\ EntriesApart'
  BY <1>8 DEF ListInv, LentOK, MidOK, MidSize, EntriesApart, At
<1>10. LookupOK'
  BY SameEntries DEF ListInv, LookupOK
<1> QED BY <1>5, <1>6, <1>7, <1>9, <1>10 DEF ListInv

LEMMA LinkForthKeeps == ListInv /\ LinkForth => ListInv'
<1> SUFFICES ASSUME ListInv, LinkForth PROVE ListInv'
  OBVIOUS
<1> USE DEF LinkForth
<1>1. /\ seq \in Seq(Elems) /\ IsInjective(seq)
      /\ lent \in Elems /\ lent \notin ToSet(seq)
  BY DEF ListInv, ListTypeOK, EntriesApart, LentOK
<1>2. \A i \in 0 .. Len(seq) + 1 : At(i) # lent
  BY <1>1, Places DEF At
<1>3. ListTypeOK'
  BY <1>1 DEF ListInv, ListTypeOK, lookupVars, Pointers, Entries
<1>4. NextOK'
  <2>1. \A i \in 0 .. Len(seq) : i \in 0 .. Len(seq) + 1
    BY <1>1
  <2>2. \A i \in 0 .. Len(seq) : next'[At(i)] = next[At(i)]
    BY <1>2, <2>1 DEF ListInv, ListTypeOK
  <2> QED BY <2>2 DEF ListInv, NextOK, At
<1>5. PrevOK'
  BY DEF ListInv, PrevOK, At
<1>6. next'[lent] = Tail0
  BY <1>1 DEF ListInv, ListTypeOK, Entries
<1>7. LentOK' /\ MidOK' /\ EntriesApart'
  BY <1>6 DEF ListInv, LentOK, MidOK, MidSize, EntriesApart, At
<1>8. LookupOK'
  BY SameEntries DEF ListInv, LookupOK
<1> QED BY <1>3, <1>4, <1>5, <1>7, <1>8 DEF ListInv

LEMMA LinkBeforeKeeps == ListInv /\ LinkBefore => ListInv'
<1> SUFFICES ASSUME ListInv, LinkBefore PROVE ListInv'
  OBVIOUS
<1> USE DEF LinkBefore
<1>1. seq \in Seq(Elems) /\ IsInjective(seq) /\ lent \in Elems
  BY DEF ListInv, ListTypeOK, EntriesApart, LentOK
<1>2. \A i \in 1 .. Len(seq) + 1 : (At(i) = Tail0) = (i = Len(seq) + 1)
  <2>1. /\ \A i \in 1 .. Len(seq) + 1 : i \in 0 .. Len(seq) + 1
        /\ Len(seq) + 1 \in 0 .. Len(seq) + 1
    BY <1>1
  <2> QED BY <1>1, <2>1, Places DEF At
<1>3. ListTypeOK'
  BY <1>1 DEF ListInv, ListTypeOK, lookupVars, Pointers, Entries
<1>4. PrevOK'
  <2>1. \A i \in 1 .. Len(seq) + 1 :
          prev'[At(i)] = IF i = Len(seq) + 1 THEN lent ELSE prev[At(i)]
    BY <1>2 DEF ListInv, ListTypeOK, Entries
  <2> QED BY <2>1 DEF ListInv, PrevOK, At
<1>5. NextOK'
  BY DEF ListInv, NextOK, At
<1>6. prev'[lent] = prev[lent]
  BY <1>1, SentinelAssumption DEF ListInv, ListTypeOK
<1>7. LentOK' /\ MidOK' /\ EntriesApart'
  BY <1>6 DEF ListInv, LentOK, MidOK, MidSize, EntriesApart, At
<1>8. LookupOK'
  BY SameEntries DEF ListInv, LookupOK
<1> QED BY <1>3, <1>4, <1>5, <1>7, <1>8 DEF ListInv

\* The counted entry is the last client from then on.
LEMMA PlacesAfterAppend ==
  ASSUME NEW s \in Seq(Elems), NEW x \in Elems
  PROVE  /\ Len(Append(s, x)) = Len(s) + 1
         /\ \A i \in 0 .. Len(s) : AtIn(Append(s, x), i) = AtIn(s, i)
         /\ AtIn(Append(s, x), Len(s) + 1) = x
         /\ AtIn(Append(s, x), Len(s) + 2) = Tail0
<1>1. /\ Len(s) \in Nat /\ Len(Append(s, x)) = Len(s) + 1
      /\ \A i \in 1 .. Len(s) : Append(s, x)[i] = s[i]
      /\ Append(s, x)[Len(s) + 1] = x
  OBVIOUS
<1>2. ASSUME NEW i \in 0 .. Len(s) PROVE AtIn(Append(s, x), i) = AtIn(s, i)
  <2>1. i = 0 \/ i \in 1 .. Len(s)
    BY <1>1
  <2>2. i # Len(s) + 1 /\ i # (Len(s) + 1) + 1
    BY <1>1
  <2> QED BY <1>1, <2>1, <2>2 DEF AtIn
<1>3. Len(s) + 1 # 0 /\ Len(s) + 1 # (Len(s) + 1) + 1 /\ Len(s) + 2 = (Len(s) + 1) + 1
      /\ Len(s) + 2 # 0
  BY <1>1
<1> QED BY <1>1, <1>2, <1>3 DEF AtIn

LEMMA CountEntryKeeps == ListInv /\ CountEntry => ListInv'
<1> SUFFICES ASSUME ListInv, CountEntry PROVE ListInv'
  OBVIOUS
<1> USE DEF CountEntry
<1>13. PICK L \in Nat : L = Len(seq)
  BY DEF ListInv, ListTypeOK
<1>1. /\ seq \in Seq(Elems) /\ IsInjective(seq) /\ L \in Nat
      /\ lent \in Elems /\ lent \notin ToSet(seq) /\ lent \notin ToSet(spareels)
  BY DEF ListInv, ListTypeOK, EntriesApart, LentOK
<1>2. /\ seq' \in Seq(Elems) /\ Len(seq') = L + 1
      /\ \A i \in 0 .. L : At(i)' = At(i)
      /\ At(L + 1)' = lent /\ At(L + 2)' = Tail0
  <2>1. seq' \in Seq(Elems)
    BY <1>13, <1>1
  <2>2. /\ Len(Append(seq, lent)) = L + 1
        /\ \A i \in 0 .. L : AtIn(Append(seq, lent), i) = AtIn(seq, i)
        /\ AtIn(Append(seq, lent), L + 1) = lent
        /\ AtIn(Append(seq, lent), L + 2) = Tail0
    BY <1>13, <1>1, PlacesAfterAppend
  <2>3. seq' = Append(seq, lent)
    OBVIOUS
  <2> QED BY <2>1, <2>2, <2>3 DEF At
<1>3. ToSet(seq') = ToSet(seq) \cup {lent} /\ IsInjective(seq')
  BY <1>13, <1>1, AppendElems
<1>4. At(L + 1) = Tail0
  BY <1>13, <1>1, Places DEF At
<1>5. ListTypeOK'
  BY <1>13, <1>1, <1>2 DEF ListInv, ListTypeOK, lookupVars
<1>6. NextOK'
  <2>1. ASSUME NEW i \in 0 .. L + 1 PROVE next[At(i)'] = At(i + 1)'
    <3>1. CASE i \in 0 .. L /\ i # L
      <4>1. i + 1 \in 0 .. L
        BY <3>1, <1>1
      <4> QED BY <1>13, <3>1, <4>1, <1>2 DEF ListInv, NextOK
    <3>2. CASE i = L
      <4>1. L \in 0 .. L
        BY <1>13, <1>1
      <4>2. next[At(L)] = lent
        BY <1>13, <4>1 DEF ListInv, NextOK
      <4> QED BY <3>2, <4>1, <4>2, <1>2
    <3>3. CASE i = L + 1
      <4>1. i + 1 = L + 2
        BY <3>3, <1>1
      <4>2. next[lent] = Tail0
        BY <1>13 DEF ListInv, LentOK
      <4> QED BY <3>3, <4>1, <4>2, <1>2
    <3> QED BY <3>1, <3>2, <3>3, <1>1
  <2> QED BY <1>13, <2>1, <1>2 DEF NextOK
<1>7. PrevOK'
  <2>1. ASSUME NEW i \in 1 .. L + 2 PROVE prev[At(i)'] = At(i - 1)'
    <3>1. CASE i \in 1 .. L
      <4>1. i - 1 \in 0 .. L /\ i \in 0 .. L /\ i \in 1 .. L + 1 /\ i # L + 1
        BY <3>1, <1>1
      <4> QED BY <1>13, <4>1, <1>2 DEF ListInv, PrevOK
    <3>2. CASE i = L + 1
      <4>1. i - 1 = L /\ L \in 0 .. L
        BY <3>2, <1>1
      <4>2. prev[lent] = At(L)
        BY <1>13 DEF ListInv, LentOK
      <4> QED BY <3>2, <4>1, <4>2, <1>2
    <3>3. CASE i = L + 2
      <4>1. i - 1 = L + 1 /\ L + 1 \in 1 .. L + 1
        BY <3>3, <1>1
      <4>2. prev[At(L + 1)] = lent
        BY <1>13, <4>1 DEF ListInv, PrevOK
      <4> QED BY <3>3, <4>1, <4>2, <1>2, <1>4
    <3> QED BY <3>1, <3>2, <3>3, <1>1
  <2>2. Len(seq') + 1 = L + 2
    BY <1>13, <1>1, <1>2
  <2> QED BY <2>1, <2>2 DEF PrevOK
<1>8. LentOK'
  <2>1. seq' # <<>> /\ seq'[Len(seq')] = lent
    BY <1>13, <1>1
  <2> QED BY <2>1 DEF LentOK
<1>9. MidOK'
  <2>1. MidSize' = L /\ MidSize = L
    BY <1>13, <1>1, <1>2 DEF MidSize
  <2>2. L # 0 => MidOf(L) + 1 \in 1 .. L
    BY <1>13, <1>1 DEF MidOf
  <2>3. L # 0 => seq'[MidOf(L) + 1] = seq[MidOf(L) + 1]
    <3>1. \A i \in 1 .. Len(seq) : Append(seq, lent)[i] = seq[i]
      BY <1>1
    <3> QED BY <3>1, <2>2, <1>13
  <2> QED BY <1>13, <2>1, <2>3 DEF ListInv, MidOK
<1>10. EntriesApart'
  BY <1>13, <1>1, <1>3 DEF ListInv, EntriesApart
<1>11. LookupOK'
  <2>1. Forward' = Forward
    BY DEF Forward, lookupVars
  <2>2. rpc # "idle" => ~quiet
    BY DEF ListInv, LookupOK
  <2>3. hops \in Nat
    BY DEF ListInv, ListTypeOK
  <2>4. ASSUME NEW k \in 0 .. L, AtPlace(k), ~quiet PROVE AtPlace(k)' /\ k \in 0 .. L + 1
    BY <2>1, <2>3, <2>4, <1>13, <1>1, <1>2 DEF AtPlace, lookupVars
  <2>5. ASSUME AtPlace(L + 1), hops \in 1 .. L, ~quiet
        PROVE  AtPlace(L + 2)' /\ hops \in 1 .. L + 1
    BY <2>1, <2>3, <2>5, <1>13, <1>1, <1>2, <1>4 DEF AtPlace, lookupVars
  <2>6. ASSUME InFresh PROVE AtPlace(L + 1)' /\ L + 1 \in 0 .. L + 1
    BY <2>1, <2>3, <2>6, <1>13, <1>1, <1>2 DEF AtPlace, InFresh, lookupVars
  <2>7. ASSUME rpc = "hop"
        PROVE  \/ \E k \in 0 .. L + 1 : AtPlace(k)'
               \/ AtPlace(L + 2)' /\ hops \in 1 .. L + 1
    <3>1. ~quiet
      BY <2>2, <2>7
    <3>2. \/ \E k \in 0 .. L : AtPlace(k)
          \/ AtPlace(L + 1) /\ hops \in 1 .. L
          \/ InFresh
      BY <1>13, <2>7 DEF ListInv, LookupOK
    <3>3. CASE \E k \in 0 .. L : AtPlace(k)
      BY <3>1, <3>3, <2>4
    <3>4. CASE AtPlace(L + 1) /\ hops \in 1 .. L
      BY <3>1, <3>4, <2>5
    <3>5. CASE InFresh
      BY <3>5, <2>6
    <3> QED BY <3>2, <3>3, <3>4, <3>5
  <2>8. rpc # "idle" => pos < n /\ n <= L + 1
    BY <1>13, <1>1 DEF ListInv, LookupOK, ListTypeOK
  <2>9. Len(seq') + 1 = L + 2
    BY <1>13, <1>1, <1>2
  <2>10. UNCHANGED <<rpc, pos, n, quiet, hops>>
    BY DEF lookupVars
  <2> HIDE DEF CountEntry
  <2> QED BY <2>2, <2>7, <2>8, <2>9, <2>10, <1>2 DEF LookupOK
<1>12. numels' = Len(seq')
  BY <1>13, <1>2 DEF ListInv
<1> QED BY <1>5, <1>6, <1>7, <1>8, <1>9, <1>10, <1>11, <1>12 DEF ListInv

\* The middle of the list, where it is.
LEMMA MidPlace ==
  ASSUME NEW s \in Nat, s # 0
  PROVE  /\ MidOf(s) \in Nat /\ MidOf(s) + 1 \in 1 .. s
         /\ 2 * MidOf(s) <= s - 1 /\ s - 1 <= 2 * MidOf(s) + 1
  BY DEF MidOf

LEMMA FixMidKeeps == ListInv /\ FixMid => ListInv'
<1> SUFFICES ASSUME ListInv, FixMid PROVE ListInv'
  OBVIOUS
<1> USE DEF FixMid
<1>1. PICK L \in Nat : L = Len(seq)
  BY DEF ListInv, ListTypeOK
<1>2. seq \in Seq(Elems) /\ seq # <<>> /\ L # 0 /\ lent = seq[L] /\ numels = L
  BY <1>1 DEF ListInv, ListTypeOK, LentOK
<1>3. mid = IF L - 1 = 0 THEN Null ELSE seq[MidOf(L - 1) + 1]
  BY <1>1 DEF ListInv, MidOK, MidSize
<1>4. mid' = seq[MidOf(L) + 1]
  <2>1. CASE L = 1
    <3>1. MidOf(1) + 1 = 1
      BY DEF MidOf
    <3> QED BY <2>1, <3>1, <1>2 DEF MidAfterAppend
  <2>2. CASE L # 1
    <3>1. L - 1 \in Nat /\ L - 1 # 0 /\ MidOf(L - 1) + 1 \in 1 .. L - 1
      BY <2>2, <1>2, MidPlace
    <3>2. mid = seq[MidOf(L - 1) + 1]
      BY <3>1, <1>3
    <3>3. CASE L % 2 = 1
      <4>1. MidOf(L - 1) + 2 = MidOf(L) + 1
        BY <3>3, <2>2, <1>2 DEF MidOf
      <4>2. PICK i \in 1 .. L - 1 : i = MidOf(L - 1) + 1 /\ i + 1 = MidOf(L) + 1
        BY <3>1, <4>1 DEF MidOf
      <4>3. i \in 0 .. L /\ i # L /\ i \in 1 .. L /\ i + 1 \in 1 .. L
        BY <4>2
      <4>4. next[At(i)] = At(i + 1)
        BY <4>3, <1>1 DEF ListInv, NextOK
      <4>5. At(i) = seq[i] /\ At(i + 1) = seq[i + 1]
        BY <4>3, <1>1, <1>2, Places DEF ListInv, EntriesApart, At
      <4> QED BY <2>2, <3>2, <3>3, <4>2, <4>4, <4>5, <1>2 DEF MidAfterAppend
    <3>4. CASE L % 2 # 1
      <4>1. MidOf(L - 1) = MidOf(L)
        BY <3>4, <2>2, <1>2 DEF MidOf
      <4> QED BY <2>2, <3>2, <3>4, <4>1, <1>2 DEF MidAfterAppend
    <3> QED BY <3>3, <3>4
  <2> QED BY <2>1, <2>2
<1>5. MidOK'
  BY <1>1, <1>2, <1>4 DEF MidOK, MidSize
<1>6. seq[MidOf(L) + 1] \in Elems
  <2>1. MidOf(L) + 1 \in 1 .. L
    BY <1>2, MidPlace
  <2> QED BY <2>1, <1>1, <1>2
<1>7. ListTypeOK'
  BY <1>4, <1>6 DEF ListInv, ListTypeOK, lookupVars
<1>8. NextOK' /\ PrevOK'
  BY DEF ListInv, NextOK, PrevOK, At
<1>9. LentOK' /\ EntriesApart'
  BY DEF ListInv, LentOK, EntriesApart
<1>10. LookupOK'
  BY SameEntries DEF ListInv, LookupOK
<1> QED BY <1>5, <1>7, <1>8, <1>9, <1>10 DEF ListInv

LEMMA GetAtKeeps ==
  ASSUME ListInv, NEW p \in 0 .. numels - 1, GetAt(p)
  PROVE  ListInv'
<1> USE DEF GetAt, listData, appendVars
<1>1. p \in Nat /\ p < Len(seq) /\ Len(seq) \in Nat
  BY DEF ListInv, ListTypeOK
<1>2. ListTypeOK'
  BY <1>1 DEF ListInv, ListTypeOK
<1>3. NextOK' /\ PrevOK' /\ LentOK' /\ MidOK' /\ EntriesApart'
  BY DEF ListInv, NextOK, PrevOK, LentOK, MidOK, MidSize, EntriesApart, At
<1>4. LookupOK'
  <2>1. /\ rpc' = "start" /\ pos' = p /\ n' = Len(seq) /\ seq' = seq /\ apc' = apc
        /\ quiet' => apc = "idle"
    BY DEF ListInv
  <2> HIDE DEF GetAt
  <2> QED BY <1>1, <2>1 DEF LookupOK
<1> QED BY <1>2, <1>3, <1>4 DEF ListInv

\* How far the quarters of the list are from where a lookup starts.
LEMMA Quarters ==
  ASSUME NEW p \in Nat, NEW s \in Nat, NEW L \in Nat, NEW h \in Nat,
         p < s, s <= L, h \in {L - 1, L}
  PROVE  /\ MidBack(p, s) =>
              /\ h # 0 /\ MidOf(s) - p \in Nat /\ MidOf(s) - p <= MidOf(h) + 1
         /\ MidForth(p, s) =>
              /\ h # 0 /\ p - MidOf(s) \in Nat
              /\ (MidOf(h) + 1) + (p - MidOf(s)) <= L
<1>1. MidOf(s) \in Nat /\ 2 * MidOf(s) <= s - 1 /\ s - 1 <= 2 * MidOf(s) + 1
  BY MidPlace
<1>2. h # 0 => MidOf(h) \in Nat /\ 2 * MidOf(h) <= h - 1 /\ h - 1 <= 2 * MidOf(h) + 1
  BY MidPlace
<1>3. ASSUME MidBack(p, s)
      PROVE  h # 0 /\ MidOf(s) - p \in Nat /\ MidOf(s) - p <= MidOf(h) + 1
  BY <1>1, <1>2, <1>3 DEF MidBack, FromHead
<1>4. ASSUME MidForth(p, s)
      PROVE  h # 0 /\ p - MidOf(s) \in Nat /\ (MidOf(h) + 1) + (p - MidOf(s)) <= L
  BY <1>1, <1>2, <1>4 DEF MidForth
<1> QED BY <1>3, <1>4

LEMMA QuartersApart ==
  ASSUME NEW p \in Nat, NEW s \in Nat
  PROVE  /\ FromHead(p, s) => ~MidBack(p, s) /\ ~MidForth(p, s)
         /\ MidBack(p, s) => ~MidForth(p, s)
  BY DEF FromHead, MidBack, MidForth

LEMMA LoadStartKeeps == ListInv /\ LoadStart => ListInv'
<1> SUFFICES ASSUME ListInv, LoadStart PROVE ListInv'
  OBVIOUS
<1> USE DEF LoadStart, listData, appendVars
<1>1. PICK L \in Nat : L = Len(seq)
  BY DEF ListInv, ListTypeOK
<1>2. PICK h \in Nat : h = MidSize /\ h \in {L - 1, L}
  <2>1. apc = "mid" => L # 0
    BY <1>1 DEF ListInv, ListTypeOK, LentOK
  <2>2. MidSize \in Nat /\ MidSize \in {L - 1, L}
    BY <1>1, <2>1 DEF MidSize
  <2> QED BY <2>2
<1>3. seq \in Seq(Elems) /\ IsInjective(seq) /\ pos \in Nat /\ n \in Nat
  BY DEF ListInv, ListTypeOK, EntriesApart
<1>4. pos < n /\ n <= L /\ (quiet => apc = "idle" /\ n = L)
  BY <1>1 DEF ListInv, LookupOK
<1>5. quiet => h = n
  BY <1>1, <1>2, <1>4 DEF MidSize
<1>6. h # 0 => mid = At(MidOf(h) + 1) /\ MidOf(h) + 1 \in 1 .. L /\ MidOf(h) \in Nat
  <2> SUFFICES ASSUME h # 0
               PROVE  mid = At(MidOf(h) + 1) /\ MidOf(h) + 1 \in 1 .. L /\ MidOf(h) \in Nat
    OBVIOUS
  <2>1. MidOf(h) + 1 \in 1 .. h /\ MidOf(h) \in Nat
    BY MidPlace
  <2>2. MidOf(h) + 1 \in 1 .. L
    BY <2>1, <1>2
  <2>3. mid = seq[MidOf(h) + 1]
    BY <1>2 DEF ListInv, MidOK
  <2> QED BY <2>1, <2>2, <2>3, <1>1, <1>3, Places DEF At
<1>7. (\A k : At(k)' = At(k)) /\ Forward' = Forward
  BY DEF At, AtIn, Forward
<1>8. At(0) = Head0 /\ At(L + 1) = Tail0
  BY <1>1, <1>3, Places DEF At
<1> DEFINE Goal == /\ hops' \in Nat /\ ptr' \in Pointers
                   /\ \/ \E k \in 0 .. L : AtPlace(k)'
                      \/ AtPlace(Len(seq) + 1)' /\ hops' \in 1 .. L
<1>9. \A k \in 0 .. L + 1 : At(k) \in Pointers
  <2>1. \A k \in 0 .. L + 1 : At(k) \in Entries
    BY <1>1, <1>3, Places DEF At
  <2> QED BY <2>1 DEF Pointers
<1>10. ASSUME FromHead(pos, n) PROVE Goal
  <2>1. ptr' = Head0 /\ hops' = pos + 1 /\ Forward
    BY <1>3, <1>10, QuartersApart DEF StartsAt, Hops, Forward
  <2>2. 0 + hops' <= L /\ hops' \in Nat /\ 0 + hops' = pos + 1
    BY <2>1, <1>3, <1>4
  <2>3. AtPlace(0)' /\ 0 \in 0 .. L
    BY <2>1, <2>2, <1>1, <1>7, <1>8 DEF AtPlace
  <2>4. ptr' \in Pointers
    BY <2>1 DEF Pointers, Entries
  <2> QED BY <2>2, <2>3, <2>4
<1>11. ASSUME MidBack(pos, n) PROVE Goal
  <2>1. ptr' = mid /\ hops' = MidOf(n) - pos /\ ~Forward
    BY <1>3, <1>11, QuartersApart DEF StartsAt, Hops, Forward
  <2>2. PICK k \in 1 .. L : k = MidOf(h) + 1 /\ mid = At(k)
    BY <1>2, <1>3, <1>4, <1>6, <1>11, Quarters
  <2>3. hops' \in Nat /\ hops' <= k
    BY <1>2, <1>3, <1>4, <1>11, <2>1, <2>2, Quarters
  <2>4. quiet => pos + 1 = k - hops'
    <3>1. n # 0 => MidOf(n) \in Nat
      BY <1>3, MidPlace
    <3> QED BY <2>1, <2>2, <3>1, <1>3, <1>4, <1>5
  <2>5. AtPlace(k)' /\ k \in 0 .. L /\ k \in 0 .. L + 1
    BY <2>1, <2>2, <2>3, <2>4, <1>7 DEF AtPlace
  <2> QED BY <2>1, <2>2, <2>3, <2>5, <1>9
<1>12. ASSUME MidForth(pos, n) PROVE Goal
  <2>1. ptr' = mid /\ hops' = pos - MidOf(n) /\ Forward
    BY <1>3, <1>12, QuartersApart DEF StartsAt, Hops, Forward
  <2>2. PICK k \in 1 .. L : k = MidOf(h) + 1 /\ mid = At(k)
    BY <1>2, <1>3, <1>4, <1>6, <1>12, Quarters
  <2>3. hops' \in Nat /\ k + hops' <= L
    BY <1>2, <1>3, <1>4, <1>12, <2>1, <2>2, Quarters
  <2>4. quiet => pos + 1 = k + hops'
    <3>1. n # 0 => MidOf(n) \in Nat
      BY <1>3, MidPlace
    <3> QED BY <2>1, <2>2, <3>1, <1>3, <1>4, <1>5
  <2>5. AtPlace(k)' /\ k \in 0 .. L /\ k \in 0 .. L + 1
    BY <2>1, <2>2, <2>3, <2>4, <1>1, <1>7 DEF AtPlace
  <2> QED BY <2>1, <2>2, <2>3, <2>5, <1>9
<1>13. ASSUME ~FromHead(pos, n), ~MidBack(pos, n), ~MidForth(pos, n)
       PROVE  Goal
  <2>1. ptr' = Tail0 /\ hops' = n - pos /\ ~Forward
    BY <1>13 DEF StartsAt, Hops, Forward
  <2>2. hops' \in 1 .. L /\ hops' \in Nat /\ hops' <= L + 1
    BY <2>1, <1>3, <1>4
  <2>3. quiet => pos + 1 = (L + 1) - hops'
    BY <2>1, <1>3, <1>4
  <2>4. AtPlace(Len(seq) + 1)'
    BY <2>1, <2>2, <2>3, <1>1, <1>7, <1>8 DEF AtPlace
  <2>5. ptr' \in Pointers
    BY <2>1 DEF Pointers, Entries
  <2> QED BY <2>2, <2>4, <2>5
<1>14. Goal
  <2> HIDE DEF Goal, LoadStart
  <2> QED BY <1>10, <1>11, <1>12, <1>13
<1>15. ListTypeOK'
  BY <1>14 DEF ListInv, ListTypeOK
<1>16. NextOK' /\ PrevOK' /\ LentOK' /\ MidOK' /\ EntriesApart'
  BY <1>7 DEF ListInv, NextOK, PrevOK, LentOK, MidOK, MidSize, EntriesApart, At
<1>17. LookupOK'
  <2> HIDE DEF LoadStart
  <2>1. rpc' = "hop" /\ UNCHANGED <<seq, pos, n, quiet, apc>>
    BY DEF LoadStart
  <2> QED BY <1>1, <1>4, <1>14, <2>1 DEF LookupOK
<1> QED BY <1>15, <1>16, <1>17 DEF ListInv

LEMMA FollowPointerKeeps == ListInv /\ FollowPointer => ListInv'
<1> SUFFICES ASSUME ListInv, FollowPointer PROVE ListInv'
  OBVIOUS
<1>0. /\ rpc = "hop" /\ hops > 0 /\ ptr # Null
      /\ ptr' = Hop(pos, n)[ptr] /\ hops' = hops - 1
      /\ UNCHANGED <<next, prev, mid, numels, spareels, apc, lent, rpc, pos, n, seq, quiet>>
  BY DEF FollowPointer, listData, appendVars
<1>1. PICK L \in Nat : L = Len(seq)
  BY DEF ListInv, ListTypeOK
<1>2. /\ seq \in Seq(Elems) /\ IsInjective(seq) /\ hops \in Nat \ {0}
      /\ hops' \in Nat /\ ptr \in Entries
  BY <1>0 DEF ListInv, ListTypeOK, EntriesApart, Pointers
<1>3. (\A k : At(k)' = At(k)) /\ Forward' = Forward
  BY <1>0 DEF At, AtIn, Forward
<1>4. pos < n /\ n <= L /\ (quiet => apc = "idle" /\ n = L) /\ pos \in Nat
  BY <1>0, <1>1 DEF ListInv, LookupOK, ListTypeOK
<1>5. At(L + 1) = Tail0
  BY <1>1, <1>2, Places DEF At
<1>6. Hop(pos, n) = IF Forward THEN next ELSE prev
  BY DEF Hop, Forward
<1>7. ASSUME NEW k \in 0 .. L, AtPlace(k), Forward
      PROVE  AtPlace(k + 1)' /\ k + 1 \in 0 .. L
  <2>1. k + hops <= L /\ (quiet => pos + 1 = k + hops) /\ ptr = At(k)
    BY <1>1, <1>7 DEF AtPlace
  <2>2. k # L /\ k + 1 \in 0 .. L /\ (k + 1) + hops' = k + hops
    BY <1>0, <1>2, <2>1
  <2>3. next[At(k)] = At(k + 1)
    BY <1>1, <2>2 DEF ListInv, NextOK
  <2>4. ptr' = At(k + 1)'
    BY <1>0, <1>3, <1>6, <1>7, <2>1, <2>3
  <2> QED BY <1>0, <1>1, <1>3, <1>7, <2>1, <2>2, <2>4 DEF AtPlace
<1>8. ASSUME NEW k \in 0 .. L, AtPlace(k), ~Forward
      PROVE  AtPlace(k - 1)' /\ k - 1 \in 0 .. L
  <2>1. hops <= k /\ (quiet => pos + 1 = k - hops) /\ ptr = At(k)
    BY <1>8 DEF AtPlace
  <2>2. /\ k \in 1 .. L + 1 /\ k # L + 1 /\ k - 1 \in 0 .. L
        /\ hops' <= k - 1 /\ (k - 1) - hops' = k - hops
    BY <1>0, <1>2, <2>1
  <2>3. prev[At(k)] = At(k - 1)
    BY <1>1, <2>2 DEF ListInv, PrevOK
  <2>4. ptr' = At(k - 1)'
    BY <1>0, <1>3, <1>6, <1>8, <2>1, <2>3
  <2> QED BY <1>0, <1>3, <1>8, <2>1, <2>2, <2>4 DEF AtPlace
<1>9. ASSUME AtPlace(L + 1), hops \in 1 .. L
      PROVE  AtPlace(L)' \/ InFresh'
  <2>1. ~Forward /\ ptr = Tail0 /\ (quiet => pos + 1 = (L + 1) - hops)
    <3>1. ~((L + 1) + hops <= L)
      BY <1>9
    <3> QED BY <1>1, <1>5, <1>9, <3>1 DEF AtPlace
  <2>2. hops' <= L /\ L - hops' = (L + 1) - hops
    BY <1>0, <1>9
  <2>3. prev[Tail0] = IF apc = "count" THEN lent ELSE At(L)
    <3>1. L + 1 \in 1 .. L + 1 /\ (L + 1) - 1 = L
      OBVIOUS
    <3>2. prev[At(L + 1)] = IF apc = "count" THEN lent ELSE At((L + 1) - 1)
      BY <1>1, <3>1 DEF ListInv, PrevOK
    <3> QED BY <3>1, <3>2, <1>5
  <2>4. ptr' = prev[Tail0]
    BY <1>0, <1>6, <2>1
  <2>5. CASE apc = "count"
    <3>1. ~quiet
      BY <1>4, <2>5
    <3> QED BY <1>0, <1>1, <1>3, <2>1, <2>2, <2>3, <2>4, <2>5, <3>1 DEF InFresh
  <2>6. CASE apc # "count"
    BY <1>0, <1>3, <2>1, <2>2, <2>3, <2>4, <2>6 DEF AtPlace
  <2> QED BY <2>5, <2>6
<1>10. ASSUME InFresh
       PROVE  AtPlace(L)'
  <2>1. ptr = lent /\ apc = "count" /\ ~Forward /\ hops <= L /\ ~quiet
    BY <1>1, <1>10 DEF InFresh
  <2>2. ptr' = prev[lent] /\ prev[lent] = At(L)
    BY <1>0, <1>1, <1>6, <2>1 DEF ListInv, LentOK
  <2>3. hops' <= L
    BY <1>0, <1>2, <2>1
  <2> QED BY <1>0, <1>3, <2>1, <2>2, <2>3 DEF AtPlace
<1>11. LookupOK'
  <2>1. L \in 0 .. L
    BY <1>1
  <2>2. \/ \E k \in 0 .. L : AtPlace(k)
        \/ AtPlace(L + 1) /\ hops \in 1 .. L
        \/ InFresh
    BY <1>0, <1>1 DEF ListInv, LookupOK
  <2>3. (\E k \in 0 .. L : AtPlace(k)') \/ InFresh'
    BY <1>7, <1>8, <1>9, <1>10, <2>1, <2>2
  <2> QED BY <1>0, <1>1, <1>4, <2>3 DEF LookupOK
<1>12. ListTypeOK'
  <2>1. ptr' \in Pointers
    BY <1>0, <1>2, <1>6 DEF ListInv, ListTypeOK
  <2> QED BY <1>0, <1>2, <2>1 DEF ListInv, ListTypeOK
<1>13. NextOK' /\ PrevOK' /\ LentOK' /\ MidOK' /\ EntriesApart'
  BY <1>0, <1>3 DEF ListInv, NextOK, PrevOK, LentOK, MidOK, MidSize, EntriesApart, At
<1> QED BY <1>0, <1>11, <1>12, <1>13 DEF ListInv

LEMMA ServeKeeps == ListInv /\ Serve => ListInv'
<1> SUFFICES ASSUME ListInv, Serve PROVE ListInv'
  OBVIOUS
<1> USE DEF Serve, LookupOver, listData, appendVars
<1>1. ListTypeOK'
  BY DEF ListInv, ListTypeOK, Pointers
<1>2. NextOK' /\ PrevOK' /\ LentOK' /\ MidOK' /\ EntriesApart'
  BY DEF ListInv, NextOK, PrevOK, LentOK, MidOK, MidSize, EntriesApart, At
<1>3. LookupOK'
  BY DEF LookupOK
<1> QED BY <1>1, <1>2, <1>3 DEF ListInv

-----------------------------------------------------------------------------
\* Deletion

\* the entries of a walk of m steps from v0 along the pointers f, and the
\* walks of list_locate and of list_findpos
IsWalk(g, m, v0, f) == g = [k \in 0 .. m |-> IF k = 0 THEN v0 ELSE f[g[k - 1]]]
LocateWalk(g) == IsWalk(g, numels, next[Head0], next)
FindWalk(p, g) == IsWalk(g, Hops(p, numels), StartsAt(p, numels), Hop(p, numels))

\* There is one such walk.
LEMMA SameWalk ==
  ASSUME NEW m \in Nat, NEW g, NEW h, NEW f, NEW v0,
         IsWalk(g, m, v0, f), IsWalk(h, m, v0, f)
  PROVE  g = h
<1> USE DEF IsWalk
<1>1. DOMAIN g = 0 .. m /\ DOMAIN h = 0 .. m
  OBVIOUS
<1>2. /\ \A k \in 0 .. m : g[k] = IF k = 0 THEN v0 ELSE f[g[k - 1]]
      /\ \A k \in 0 .. m : h[k] = IF k = 0 THEN v0 ELSE f[h[k - 1]]
  OBVIOUS
<1> DEFINE T == {k \in Nat : k \in 0 .. m => g[k] = h[k]}
<1>3. 0 \in T
  BY <1>2
<1>4. ASSUME NEW k \in Nat, k \in T PROVE k + 1 \in T
  <2> SUFFICES ASSUME k + 1 \in 0 .. m PROVE g[k + 1] = h[k + 1]
    OBVIOUS
  <2>1. k \in 0 .. m /\ k + 1 # 0 /\ (k + 1) - 1 = k
    OBVIOUS
  <2>2. g[k] = h[k]
    BY <1>4, <2>1
  <2> QED BY <1>2, <2>1, <2>2
<1> HIDE DEF T
<1>5. Nat \subseteq T
  BY <1>3, <1>4, SetInduction
<1>6. ASSUME NEW k \in 0 .. m PROVE g[k] = h[k]
  <2>1. k \in Nat
    OBVIOUS
  <2>2. k \in T
    BY <1>5, <2>1
  <2> QED BY <2>2 DEF T
<1>7. g = [k \in 0 .. m |-> g[k]] /\ h = [k \in 0 .. m |-> h[k]]
  OBVIOUS
<1> QED BY <1>6, <1>7

LEMMA LocateIs ==
  ASSUME ListInv, apc = "idle", NEW k \in 1 .. Len(seq)
  PROVE  Locate(At(k)) = k - 1
<1>1. PICK L \in Nat : L = Len(seq) /\ L = numels
  BY DEF ListInv, ListTypeOK
<1>2. \A i \in 0 .. L : next[At(i)] = At(i + 1)
  BY <1>1 DEF ListInv, NextOK
<1>3. /\ At(0) = Head0
      /\ \A i \in 0 .. L + 1 : \A j \in 0 .. L + 1 : At(i) = At(j) => i = j
  BY <1>1, Places DEF ListInv, ListTypeOK, EntriesApart, At
<1> DEFINE w == [j \in 0 .. L |-> At(j + 1)]
           g == CHOOSE h : LocateWalk(h)
<1>4. LocateWalk(w)
  <2>1. ASSUME NEW j \in 0 .. L
        PROVE  At(j + 1) = IF j = 0 THEN next[Head0] ELSE next[w[j - 1]]
    <3>1. j # 0 => j - 1 \in 0 .. L /\ (j - 1) + 1 = j
      OBVIOUS
    <3>2. j # 0 => w[j - 1] = At(j)
      BY <3>1
    <3>3. 0 \in 0 .. L /\ 0 + 1 = 1
      OBVIOUS
    <3>4. next[Head0] = At(1)
      BY <1>2, <1>3, <3>3
    <3> HIDE DEF w
    <3> QED BY <1>2, <3>2, <3>3, <3>4
  <2>2. w = [j \in 0 .. L |-> IF j = 0 THEN next[Head0] ELSE next[w[j - 1]]]
    BY <2>1
  <2> HIDE DEF w
  <2> QED BY <2>2, <1>1 DEF LocateWalk, IsWalk
<1>5. LocateWalk(g)
  BY <1>4
<1>6. Locate(At(k)) = CHOOSE i \in 0 .. numels - 1 :
                        g[i] = At(k) /\ \A j \in 0 .. i - 1 : g[j] # At(k)
  BY DEF Locate, LocateWalk, IsWalk
<1>7. g = w
  <2> HIDE DEF g, w
  <2> QED BY <1>1, <1>4, <1>5, SameWalk DEF LocateWalk
<1> HIDE DEF g
<1>8. \A i \in 0 .. L - 1 : g[i] = At(i + 1)
  BY <1>7
<1> DEFINE Is(i) == g[i] = At(k) /\ \A j \in 0 .. i - 1 : g[j] # At(k)
<1>9. k - 1 \in 0 .. L - 1 /\ Is(k - 1)
  <2>1. k - 1 \in 0 .. L - 1 /\ (k - 1) + 1 = k /\ k \in 0 .. L + 1
    BY <1>1
  <2>2. ASSUME NEW j \in 0 .. (k - 1) - 1 PROVE g[j] # At(k)
    <3>1. j \in 0 .. L - 1 /\ j + 1 \in 0 .. L + 1 /\ j + 1 # k
      BY <1>1
    <3> QED BY <3>1, <2>1, <1>3, <1>8
  <2> QED BY <2>1, <2>2, <1>8
<1>10. ASSUME NEW i \in 0 .. L - 1, Is(i) PROVE i = k - 1
  <2>1. At(i + 1) = At(k) /\ i + 1 \in 0 .. L + 1 /\ k \in 0 .. L + 1
    BY <1>1, <1>8, <1>10
  <2>2. i + 1 = k
    BY <2>1, <1>3
  <2> QED BY <2>2
<1>11. Locate(At(k)) = CHOOSE i \in 0 .. L - 1 : Is(i)
  BY <1>1, <1>6
<1> HIDE DEF Is
<1> QED BY <1>9, <1>10, <1>11

\* Where list_findpos starts is as far from the place as it makes steps.
LEMMA StartIs ==
  ASSUME ListInv, apc = "idle", NEW p \in 0 .. Len(seq) - 1
  PROVE  \E a \in 0 .. Len(seq) + 1 :
           /\ StartsAt(p, Len(seq)) = At(a) /\ Hops(p, Len(seq)) \in Nat
           /\ \/ Hop(p, Len(seq)) = next /\ p + 1 = a + Hops(p, Len(seq))
              \/ Hop(p, Len(seq)) = prev /\ p + 1 = a - Hops(p, Len(seq))
<1>1. PICK L \in Nat : L = Len(seq)
  BY DEF ListInv, ListTypeOK
<1>2. p \in Nat /\ p < L /\ L # 0 /\ MidOf(L) \in Nat /\ MidOf(L) + 1 \in 1 .. L
  <2>1. p \in Nat /\ p < L /\ L # 0
    BY <1>1
  <2> QED BY <2>1, MidPlace
<1>3. /\ At(0) = Head0 /\ At(L + 1) = Tail0
      /\ \A i \in 1 .. L : At(i) = seq[i]
  BY <1>1, Places DEF ListInv, ListTypeOK, EntriesApart, At
<1>4. mid = At(MidOf(L) + 1)
  BY <1>1, <1>2, <1>3 DEF ListInv, MidOK, MidSize
<1> DEFINE Goal == \E a \in 0 .. L + 1 :
             /\ StartsAt(p, L) = At(a) /\ Hops(p, L) \in Nat
             /\ \/ Hop(p, L) = next /\ p + 1 = a + Hops(p, L)
                \/ Hop(p, L) = prev /\ p + 1 = a - Hops(p, L)
<1>5. ASSUME FromHead(p, L) PROVE Goal
  <2>1. StartsAt(p, L) = At(0) /\ Hops(p, L) = p + 1 /\ Hop(p, L) = next
    BY <1>2, <1>3, <1>5, QuartersApart DEF StartsAt, Hops, Hop
  <2>2. 0 \in 0 .. L + 1 /\ p + 1 = 0 + (p + 1) /\ p + 1 \in Nat
    BY <1>2
  <2> QED BY <2>1, <2>2
<1>6. ASSUME MidBack(p, L) PROVE Goal
  <2>1. /\ StartsAt(p, L) = At(MidOf(L) + 1) /\ Hops(p, L) = MidOf(L) - p
        /\ Hop(p, L) = prev
    BY <1>2, <1>4, <1>6, QuartersApart DEF StartsAt, Hops, Hop
  <2>2. MidOf(L) + 1 \in 0 .. L + 1 /\ p + 1 = (MidOf(L) + 1) - (MidOf(L) - p)
    BY <1>2
  <2>3. MidOf(L) - p \in Nat
    BY <1>2, <1>6, Quarters
  <2> QED BY <2>1, <2>2, <2>3
<1>7. ASSUME MidForth(p, L) PROVE Goal
  <2>1. /\ StartsAt(p, L) = At(MidOf(L) + 1) /\ Hops(p, L) = p - MidOf(L)
        /\ Hop(p, L) = next
    BY <1>2, <1>4, <1>7, QuartersApart DEF StartsAt, Hops, Hop
  <2>2. MidOf(L) + 1 \in 0 .. L + 1 /\ p + 1 = (MidOf(L) + 1) + (p - MidOf(L))
    BY <1>2
  <2>3. p - MidOf(L) \in Nat
    BY <1>2, <1>7, Quarters
  <2> QED BY <2>1, <2>2, <2>3
<1>8. ASSUME ~FromHead(p, L), ~MidBack(p, L), ~MidForth(p, L) PROVE Goal
  <2>1. StartsAt(p, L) = At(L + 1) /\ Hops(p, L) = L - p /\ Hop(p, L) = prev
    BY <1>3, <1>8 DEF StartsAt, Hops, Hop
  <2>2. L + 1 \in 0 .. L + 1 /\ p + 1 = (L + 1) - (L - p) /\ L - p \in Nat
    BY <1>2
  <2> QED BY <2>1, <2>2
<1>9. Goal
  <2> HIDE DEF Goal
  <2> QED BY <1>5, <1>6, <1>7, <1>8
<1> QED BY <1>1, <1>9

LEMMA FindPosIs ==
  ASSUME ListInv, apc = "idle", NEW p \in 0 .. Len(seq) - 1
  PROVE  FindPos(p) = At(p + 1)
<1>1. PICK L \in Nat : L = Len(seq) /\ L = numels
  BY DEF ListInv, ListTypeOK
<1>2. /\ \A i \in 0 .. L : next[At(i)] = At(i + 1)
      /\ \A i \in 1 .. L + 1 : prev[At(i)] = At(i - 1)
  BY <1>1 DEF ListInv, NextOK, PrevOK
<1>3. PICK a \in 0 .. L + 1 :
           /\ StartsAt(p, L) = At(a) /\ Hops(p, L) \in Nat
           /\ \/ Hop(p, L) = next /\ p + 1 = a + Hops(p, L)
              \/ Hop(p, L) = prev /\ p + 1 = a - Hops(p, L)
  BY <1>1, StartIs
<1>4. PICK m \in Nat : m = Hops(p, L)
  BY <1>3
<1>5. PICK back \in BOOLEAN :
        /\ Hop(p, L) = IF back THEN prev ELSE next
        /\ p + 1 = IF back THEN a - m ELSE a + m
  BY <1>3, <1>4
<1> DEFINE w == [j \in 0 .. m |-> IF back THEN At(a - j) ELSE At(a + j)]
           g == CHOOSE h : FindWalk(p, h)
<1>6. ASSUME NEW j \in 0 .. m
      PROVE  w[j] = IF j = 0 THEN At(a) ELSE Hop(p, L)[w[j - 1]]
  <2>1. CASE j = 0
    <3>1. a - 0 = a /\ a + 0 = a /\ 0 \in 0 .. m
      OBVIOUS
    <3> QED BY <2>1, <3>1
  <2>2. CASE j # 0 /\ back
    <3>1. j - 1 \in 0 .. m /\ a - (j - 1) \in 1 .. L + 1 /\ (a - (j - 1)) - 1 = a - j
      BY <1>1, <1>5, <2>2
    <3>2. w[j] = At(a - j) /\ w[j - 1] = At(a - (j - 1))
      BY <2>2, <3>1
    <3>3. prev[At(a - (j - 1))] = At(a - j)
      BY <1>2, <3>1
    <3> HIDE DEF w
    <3> QED BY <1>5, <2>2, <3>2, <3>3
  <2>3. CASE j # 0 /\ ~back
    <3>1. j - 1 \in 0 .. m /\ a + (j - 1) \in 0 .. L /\ (a + (j - 1)) + 1 = a + j
      BY <1>1, <1>5, <2>3
    <3>2. w[j] = At(a + j) /\ w[j - 1] = At(a + (j - 1))
      BY <2>3, <3>1
    <3>3. next[At(a + (j - 1))] = At(a + j)
      BY <1>2, <3>1
    <3> HIDE DEF w
    <3> QED BY <1>5, <2>3, <3>2, <3>3
  <2> QED BY <2>1, <2>2, <2>3
<1>7. FindWalk(p, w)
  <2>1. w = [j \in 0 .. m |-> w[j]]
    OBVIOUS
  <2> HIDE DEF w
  <2>2. w = [j \in 0 .. m |-> IF j = 0 THEN At(a) ELSE Hop(p, L)[w[j - 1]]]
    BY <1>6, <2>1
  <2> QED BY <2>2, <1>1, <1>3, <1>4 DEF FindWalk, IsWalk
<1>8. FindWalk(p, g)
  BY <1>7
<1>9. FindPos(p) = g[Hops(p, numels)]
  BY DEF FindPos, FindWalk, IsWalk
<1>10. g = w
  <2> HIDE DEF g, w
  <2>1. IsWalk(w, m, At(a), Hop(p, L)) /\ IsWalk(g, m, At(a), Hop(p, L))
    BY <1>1, <1>3, <1>4, <1>7, <1>8 DEF FindWalk
  <2> QED BY <2>1, SameWalk
<1> HIDE DEF g
<1>11. g[m] = At(p + 1)
  BY <1>5, <1>10
<1> QED BY <1>1, <1>4, <1>9, <1>11

LEMMA PlacesAfterDrop ==
  ASSUME NEW s \in Seq(Elems), NEW k \in 1 .. Len(s)
  PROVE  /\ Len(RemoveAt(s, k)) = Len(s) - 1
         /\ \A i \in 0 .. Len(s) :
              AtIn(RemoveAt(s, k), i) = IF i < k THEN AtIn(s, i) ELSE AtIn(s, i + 1)
<1>1. PICK L \in Nat : L = Len(s)
  OBVIOUS
<1> DEFINE t == RemoveAt(s, k)
<1>2. Len(t) = L - 1 /\ \A i \in 1 .. L - 1 : t[i] = IF i < k THEN s[i] ELSE s[i + 1]
  BY <1>1, RemoveProperties
<1> HIDE DEF t
<1>3. ASSUME NEW i \in 0 .. L
      PROVE  AtIn(t, i) = IF i < k THEN AtIn(s, i) ELSE AtIn(s, i + 1)
  <2>1. k \in 1 .. L
    BY <1>1
  <2>2. CASE i = 0
    <3>1. i < k
      BY <2>1, <2>2
    <3> QED BY <2>2, <3>1 DEF AtIn
  <2>3. CASE i = L
    <3>1. ~(i < k) /\ i = Len(t) + 1 /\ i + 1 = Len(s) + 1 /\ i # 0 /\ i + 1 # 0
      BY <1>1, <1>2, <2>1, <2>3
    <3> QED BY <3>1 DEF AtIn
  <2>4. CASE i # 0 /\ i # L
    <3>1. /\ i \in 1 .. L - 1 /\ i # Len(t) + 1 /\ i + 1 # Len(s) + 1
          /\ i # Len(s) + 1 /\ i + 1 # 0
      BY <1>1, <1>2, <2>4
    <3>2. t[i] = IF i < k THEN s[i] ELSE s[i + 1]
      BY <1>2, <3>1
    <3> QED BY <2>4, <3>1, <3>2 DEF AtIn
  <2> QED BY <2>2, <2>3, <2>4
<1> QED BY <1>1, <1>2, <1>3 DEF t

\* The middle moves to the middle of what is left.
LEMMA MidAfterDropIs ==
  ASSUME ListInv, apc = "idle", NEW k \in 1 .. Len(seq), Len(seq) # 1
  PROVE  /\ MidOf(Len(seq) - 1) + 1 \in 1 .. Len(seq) - 1
         /\ MidAfterDrop(Len(seq), k - 1, mid) =
              AtIn(RemoveAt(seq, k), MidOf(Len(seq) - 1) + 1)
<1>1. PICK L \in Nat : L = Len(seq)
  BY DEF ListInv, ListTypeOK
<1>2. L > 1 /\ k \in 1 .. L
  BY <1>1
<1>3. /\ MidOf(L) + 1 \in 1 .. L /\ MidOf(L) \in Nat
      /\ MidOf(L - 1) + 1 \in 1 .. L - 1 /\ MidOf(L - 1) \in Nat
  <2>1. L - 1 \in Nat /\ L - 1 # 0 /\ L # 0
    BY <1>2
  <2> QED BY <2>1, MidPlace
<1>4. PICK c \in 1 .. L : c = MidOf(L) + 1 /\ mid = At(c)
  <2>1. mid = seq[MidOf(L) + 1]
    BY <1>1, <1>2 DEF ListInv, MidOK, MidSize
  <2>2. At(MidOf(L) + 1) = seq[MidOf(L) + 1]
    BY <1>1, <1>3, Places DEF ListInv, ListTypeOK, EntriesApart, At
  <2> QED BY <1>3, <2>1, <2>2
<1>5. PICK d \in 1 .. L - 1 : d = MidOf(L - 1) + 1
  BY <1>3
<1>6. AtIn(RemoveAt(seq, k), d) = IF d < k THEN At(d) ELSE At(d + 1)
  <2>1. d \in 0 .. L
    BY <1>2
  <2> QED BY <1>1, <2>1, PlacesAfterDrop DEF ListInv, ListTypeOK, At
<1>7. next[At(c)] = At(c + 1) /\ prev[At(c)] = At(c - 1)
  <2>1. c \in 0 .. L /\ c \in 1 .. L + 1
    BY <1>2
  <2> QED BY <1>1, <2>1 DEF ListInv, NextOK, PrevOK
<1>8. CASE L % 2 = 1
  <2>1. d = c - 1 /\ (k - 1 >= L \div 2) = (k >= c) /\ d + 1 = c
    BY <1>2, <1>4, <1>5, <1>8 DEF MidOf
  <2>2. MidAfterDrop(L, k - 1, mid) = IF k >= c THEN At(c - 1) ELSE At(c)
    <3>1. MidAfterDrop(L, k - 1, mid) = IF k - 1 >= L \div 2 THEN prev[mid] ELSE mid
      BY <1>2, <1>8 DEF MidAfterDrop
    <3> QED BY <1>4, <1>7, <2>1, <3>1
  <2>3. (d < k) = (k >= c)
    BY <1>2, <2>1
  <2> QED BY <1>1, <1>5, <1>6, <2>1, <2>2, <2>3
<1>9. CASE L % 2 # 1
  <2>1. d = c /\ (k - 1 < L \div 2) = (k <= c)
    BY <1>2, <1>4, <1>5, <1>9 DEF MidOf
  <2>2. MidAfterDrop(L, k - 1, mid) = IF k <= c THEN At(c + 1) ELSE At(c)
    BY <1>2, <1>4, <1>7, <1>9, <2>1 DEF MidAfterDrop
  <2>3. (d < k) = ~(k <= c)
    BY <1>2, <2>1
  <2> QED BY <1>1, <1>5, <1>6, <2>1, <2>2, <2>3
<1> QED BY <1>8, <1>9

LEMMA DeleteKeeps == ListInv /\ Delete => ListInv'
<1> SUFFICES ASSUME ListInv, Delete PROVE ListInv'
  OBVIOUS
<1>1. PICK L \in Nat : L = Len(seq) /\ L = numels
  BY DEF ListInv, ListTypeOK
<1>2. rpc = "hop" /\ hops = 0 /\ ptr \in Elems /\ apc = "idle"
  BY DEF Delete, Found
<1>3. /\ seq \in Seq(Elems) /\ IsInjective(seq) /\ spareels \in Seq(Elems)
      /\ next \in [Entries -> Pointers] /\ prev \in [Entries -> Pointers]
  BY DEF ListInv, ListTypeOK, EntriesApart
<1>4. /\ \A i \in 0 .. L + 1 : At(i) \in Entries
      /\ \A i \in 0 .. L + 1 : \A j \in 0 .. L + 1 : At(i) = At(j) => i = j
      /\ \A i \in 1 .. L : At(i) = seq[i]
      /\ \A i \in 0 .. L + 1 : At(i) \in Elems => i \in 1 .. L
  BY <1>1, <1>3, Places DEF At
<1>5. PICK k \in 1 .. L : ptr = At(k) /\ ptr = seq[k]
  <2>1. PICK k \in 0 .. L + 1 : ptr = At(k)
    <3>1. ~InFresh /\ hops \notin 1 .. Len(seq)
      BY <1>1, <1>2 DEF InFresh
    <3>2. PICK k \in 0 .. Len(seq) : AtPlace(k)
      BY <1>2, <3>1 DEF ListInv, LookupOK
    <3> QED BY <1>1, <3>2 DEF AtPlace
  <2> QED BY <1>2, <1>4, <2>1
<1>6. Locate(ptr) = k - 1
  BY <1>1, <1>2, <1>5, LocateIs
<1>7. FindPos(k - 1) = ptr
  <2>1. k - 1 \in 0 .. L - 1 /\ (k - 1) + 1 = k
    OBVIOUS
  <2> QED BY <1>1, <1>2, <1>5, <2>1, FindPosIs
<1>8. /\ mid' = MidAfterDrop(numels, k - 1, mid)
      /\ next' = [next EXCEPT ![prev[ptr]] = next[ptr]]
      /\ prev' = [prev EXCEPT ![next[ptr]] = prev[ptr]]
      /\ numels' = numels - 1
      /\ spareels' = Append(spareels, ptr)
  BY <1>6, <1>7 DEF Delete
<1>9. prev[ptr] = At(k - 1) /\ next[ptr] = At(k + 1)
  <2>1. k \in 0 .. L /\ k \in 1 .. L + 1
    OBVIOUS
  <2> QED BY <1>1, <1>2, <1>5, <2>1 DEF ListInv, NextOK, PrevOK
<1>10. seq' = RemoveAt(seq, k)
  <2>1. DOMAIN seq = 1 .. L
    <3>1. DOMAIN seq = 1 .. Len(seq)
      BY <1>3
    <3> QED BY <1>1, <3>1
  <2>2. \A i \in DOMAIN seq : seq[i] = ptr => i = k
    BY <1>3, <1>5, <2>1 DEF IsInjective
  <2>3. (CHOOSE i \in DOMAIN seq : seq[i] = ptr) = k
    BY <1>5, <2>1, <2>2
  <2> QED BY <2>3 DEF Delete
<1>11. /\ Len(seq') = L - 1
       /\ \A i \in 0 .. L : AtIn(seq', i) = IF i < k THEN At(i) ELSE At(i + 1)
  BY <1>1, <1>3, <1>10, PlacesAfterDrop DEF At
<1>12. UNCHANGED <<apc, lent>> /\ rpc' = "idle" /\ pos' = 0 /\ n' = 0 /\ ptr' = Null
       /\ hops' = 0 /\ quiet' = TRUE
  BY DEF Delete, LookupOver, appendVars
<1>13. /\ ToSet(seq') = ToSet(seq) \ {ptr} /\ IsInjective(seq') /\ seq' \in Seq(Elems)
  BY <1>1, <1>3, <1>5, <1>10, RemoveElems
<1>14. EntriesApart'
  <2>1. ptr \in ToSet(seq)
    <3>1. DOMAIN seq = 1 .. Len(seq)
      BY <1>3
    <3> QED BY <1>1, <1>5, <3>1 DEF ToSet
  <2>2. /\ ptr \notin ToSet(spareels) /\ IsInjective(spareels)
        /\ ToSet(seq) \cap ToSet(spareels) = {}
    BY <2>1 DEF ListInv, EntriesApart
  <2>3. /\ ToSet(Append(spareels, ptr)) = ToSet(spareels) \cup {ptr}
        /\ IsInjective(Append(spareels, ptr))
    BY <1>2, <1>3, <2>2, AppendElems
  <2> QED BY <1>8, <1>13, <2>2, <2>3 DEF EntriesApart
<1>15. k - 1 \in 0 .. L + 1 /\ k + 1 \in 0 .. L + 1 /\ (k - 1) + 1 = k /\ (k + 1) - 1 = k
  OBVIOUS
<1>16. NextOK'
  <2>1. ASSUME NEW i \in 0 .. L - 1 PROVE next'[AtIn(seq', i)] = AtIn(seq', i + 1)
    <3>1. i \in 0 .. L /\ i + 1 \in 0 .. L /\ i + 1 \in 0 .. L + 1 /\ i \in 0 .. L + 1
      BY <1>1
    <3>2. CASE i < k - 1
      <4>1. i < k /\ i + 1 < k /\ i # k - 1
        BY <3>2
      <4>2. next'[At(i)] = next[At(i)]
        BY <1>3, <1>4, <1>8, <1>9, <1>15, <3>1, <4>1
      <4>3. next[At(i)] = At(i + 1)
        BY <1>1, <1>2, <3>1 DEF ListInv, NextOK
      <4> QED BY <1>11, <3>1, <4>1, <4>2, <4>3
    <3>3. CASE i = k - 1
      <4>1. i < k /\ ~(i + 1 < k) /\ (i + 1) + 1 = k + 1
        BY <3>3
      <4>2. next'[At(k - 1)] = At(k + 1)
        BY <1>3, <1>4, <1>8, <1>9, <1>15
      <4> QED BY <1>11, <3>1, <3>3, <4>1, <4>2
    <3>4. CASE i > k - 1
      <4>1. ~(i < k) /\ ~(i + 1 < k) /\ i + 1 # k - 1 /\ i + 1 \in 0 .. L
        BY <3>1, <3>4
      <4>2. next'[At(i + 1)] = next[At(i + 1)]
        BY <1>3, <1>4, <1>8, <1>9, <1>15, <3>1, <4>1
      <4>3. next[At(i + 1)] = At((i + 1) + 1)
        BY <1>1, <1>2, <4>1 DEF ListInv, NextOK
      <4> QED BY <1>11, <3>1, <4>1, <4>2, <4>3
    <3> QED BY <3>2, <3>3, <3>4
  <2> QED BY <1>2, <1>11, <1>12, <2>1 DEF NextOK, At
<1>17. PrevOK'
  <2>1. ASSUME NEW i \in 1 .. L PROVE prev'[AtIn(seq', i)] = AtIn(seq', i - 1)
    <3>1. /\ i \in 0 .. L /\ i - 1 \in 0 .. L /\ i + 1 \in 0 .. L + 1 /\ i \in 0 .. L + 1
          /\ i \in 1 .. L + 1 /\ i + 1 \in 1 .. L + 1 /\ (i - 1) + 1 = i /\ (i + 1) - 1 = i
      BY <1>1
    <3>2. CASE i < k
      <4>1. i - 1 < k /\ i # k + 1
        BY <3>2
      <4>2. prev'[At(i)] = prev[At(i)]
        BY <1>3, <1>4, <1>8, <1>9, <1>15, <3>1, <4>1
      <4>3. prev[At(i)] = At(i - 1)
        BY <1>1, <1>2, <3>1 DEF ListInv, PrevOK
      <4> QED BY <1>11, <3>1, <3>2, <4>1, <4>2, <4>3
    <3>3. CASE i = k
      <4>1. ~(i < k) /\ i - 1 < k
        BY <3>3
      <4>2. prev'[At(k + 1)] = At(k - 1)
        BY <1>3, <1>4, <1>8, <1>9, <1>15
      <4> QED BY <1>11, <3>1, <3>3, <4>1, <4>2
    <3>4. CASE i > k
      <4>1. ~(i < k) /\ ~(i - 1 < k) /\ i + 1 # k + 1
        BY <3>4
      <4>2. prev'[At(i + 1)] = prev[At(i + 1)]
        BY <1>3, <1>4, <1>8, <1>9, <1>15, <3>1, <4>1
      <4>3. prev[At(i + 1)] = At(i)
        BY <1>1, <1>2, <3>1 DEF ListInv, PrevOK
      <4> QED BY <1>11, <3>1, <4>1, <4>2, <4>3
    <3> QED BY <3>2, <3>3, <3>4
  <2>2. Len(seq') + 1 = L
    BY <1>1, <1>11
  <2> QED BY <1>2, <1>12, <2>1, <2>2 DEF PrevOK, At
<1>18. MidOK' /\ mid' \in Elems \cup {Null}
  <2>1. MidSize' = L - 1
    BY <1>2, <1>11, <1>12 DEF MidSize
  <2>2. CASE L = 1
    <3>1. mid' = Null
      BY <1>1, <1>8, <2>2 DEF MidAfterDrop
    <3> QED BY <2>1, <2>2, <3>1 DEF MidOK
  <2>3. CASE L # 1
    <3>1. /\ MidOf(L - 1) + 1 \in 1 .. L - 1
          /\ mid' = AtIn(seq', MidOf(L - 1) + 1)
      BY <1>1, <1>2, <1>8, <1>10, <2>3, MidAfterDropIs
    <3>2. /\ AtIn(seq', MidOf(L - 1) + 1) = seq'[MidOf(L - 1) + 1]
          /\ seq'[MidOf(L - 1) + 1] \in Elems
      BY <1>11, <1>13, <3>1, Places
    <3>3. L - 1 # 0
      BY <2>3
    <3> QED BY <2>1, <3>1, <3>2, <3>3 DEF MidOK
  <2> QED BY <2>2, <2>3
<1>19. ListTypeOK'
  <2>1. /\ next' \in [Entries -> Pointers] /\ prev' \in [Entries -> Pointers]
    BY <1>3, <1>4, <1>8, <1>9, <1>15 DEF Pointers
  <2>2. spareels' \in Seq(Elems) /\ numels' \in Nat
    BY <1>1, <1>2, <1>3, <1>8
  <2>3. quiet' \in BOOLEAN /\ rpc' \in {"idle", "start", "hop"} /\ pos' \in Nat /\ n' \in Nat
        /\ ptr' \in Pointers /\ hops' \in Nat
    BY <1>12 DEF Pointers
  <2> QED BY <1>12, <1>13, <1>18, <2>1, <2>2, <2>3 DEF ListInv, ListTypeOK
<1>20. LentOK' /\ LookupOK'
  BY <1>2, <1>12 DEF ListInv, LentOK, LookupOK
<1>21. numels' = Len(seq')
  BY <1>1, <1>8, <1>11
<1> QED BY <1>14, <1>16, <1>17, <1>18, <1>19, <1>20, <1>21 DEF ListInv

-----------------------------------------------------------------------------

LEMMA ListStep == ListInv /\ [ListNext]_listAll => ListInv'
<1> SUFFICES ASSUME ListInv, [ListNext]_listAll PROVE ListInv'
  OBVIOUS
<1>1. CASE BeginAppend
  BY <1>1, BeginAppendKeeps
<1>2. CASE LinkAfter
  BY <1>2, LinkAfterKeeps
<1>3. CASE LinkBack
  BY <1>3, LinkBackKeeps
<1>4. CASE LinkForth
  BY <1>4, LinkForthKeeps
<1>5. CASE LinkBefore
  BY <1>5, LinkBeforeKeeps
<1>6. CASE CountEntry
  BY <1>6, CountEntryKeeps
<1>7. CASE FixMid
  BY <1>7, FixMidKeeps
<1>8. CASE \E p \in 0 .. numels - 1 : GetAt(p)
  BY <1>8, GetAtKeeps
<1>9. CASE LoadStart
  BY <1>9, LoadStartKeeps
<1>10. CASE FollowPointer
  BY <1>10, FollowPointerKeeps
<1>11. CASE Serve
  BY <1>11, ServeKeeps
<1>12. CASE Delete
  BY <1>12, DeleteKeeps
<1>13. CASE UNCHANGED listAll
  <2>1. UNCHANGED <<next, prev, mid, numels, spareels, apc, lent, rpc, pos, n, ptr, hops,
                    seq, quiet>>
    BY <1>13 DEF listAll, listData, appendVars, lookupVars
  <2>2. (\A k : At(k)' = At(k)) /\ Forward' = Forward
    BY <2>1 DEF At, AtIn, Forward
  <2>3. (\A k : AtPlace(k)' = AtPlace(k)) /\ InFresh' = InFresh
    BY <2>1, <2>2 DEF AtPlace, InFresh
  <2>4. ListTypeOK' /\ LookupOK'
    BY <2>1, <2>3 DEF ListInv, ListTypeOK, LookupOK
  <2>5. NextOK' /\ PrevOK' /\ LentOK' /\ MidOK' /\ EntriesApart'
    BY <2>1, <2>2
       DEF ListInv, NextOK, PrevOK, LentOK, MidOK, MidSize, EntriesApart
  <2> QED BY <2>1, <2>4, <2>5 DEF ListInv
<1> QED BY <1>1, <1>2, <1>3, <1>4, <1>5, <1>6, <1>7, <1>8, <1>9, <1>10, <1>11, <1>12,
           <1>13 DEF ListNext, AppendStep, Lookup

THEOREM ListInductive == ListSpec => []ListInv
  BY ListStarts, ListStep, PTL DEF ListSpec

\* The variables of the list, of the append and of the lookup keep their
\* types.
THEOREM ListTypeCorrect == ListSpec => []ListTypeOK
<1>1. ListInv => ListTypeOK
  BY DEF ListInv
<1> QED BY <1>1, ListInductive, PTL

\* Between appends both chains go through the clients in their order, and the
\* pointer to the middle is right, however appends, deletions and unlocked
\* lookups were mixed before.
THEOREM ListSound == ListSpec => []RepOk
<1>1. ASSUME ListInv PROVE RepOk
  <2> SUFFICES ASSUME apc = "idle"
               PROVE  LET chain == <<Head0>> \o seq \o <<Tail0>>
                      IN  /\ numels = Len(seq)
                          /\ \A i \in 1 .. Len(chain) - 1 :
                               /\ next[chain[i]] = chain[i + 1]
                               /\ prev[chain[i + 1]] = chain[i]
                          /\ mid = IF seq = <<>> THEN Null ELSE seq[MidOf(numels) + 1]
    BY DEF RepOk
  <2> DEFINE chain == <<Head0>> \o seq \o <<Tail0>>
  <2>1. PICK L \in Nat : L = Len(seq) /\ L = numels
    BY <1>1 DEF ListInv, ListTypeOK
  <2>2. seq \in Seq(Elems)
    BY <1>1 DEF ListInv, ListTypeOK
  <2>3. Len(chain) = L + 2 /\ \A i \in 1 .. L + 2 : chain[i] = At(i - 1)
    <3>1. /\ <<Head0>> \in Seq(Entries) /\ <<Tail0>> \in Seq(Entries)
          /\ seq \in Seq(Entries) /\ Len(<<Head0>>) = 1 /\ Len(<<Tail0>>) = 1
          /\ <<Head0>>[1] = Head0 /\ <<Tail0>>[1] = Tail0
      BY <2>2 DEF Entries
    <3>2. /\ <<Head0>> \o seq \in Seq(Entries) /\ Len(<<Head0>> \o seq) = 1 + L
          /\ \A i \in 1 .. 1 + L : (<<Head0>> \o seq)[i] =
                                   IF i <= 1 THEN <<Head0>>[i] ELSE seq[i - 1]
      <4> DEFINE a == <<Head0>>
      <4>1. a \in Seq(Entries) /\ seq \in Seq(Entries) /\ Len(a) = 1
        BY <3>1
      <4> HIDE DEF a
      <4>2. /\ a \o seq \in Seq(Entries) /\ Len(a \o seq) = Len(a) + Len(seq)
            /\ \A i \in 1 .. Len(a) + Len(seq) :
                 (a \o seq)[i] = IF i <= Len(a) THEN a[i] ELSE seq[i - Len(a)]
        BY <4>1, ConcatProperties
      <4>3. Len(a) + Len(seq) = 1 + L
        BY <2>1, <4>1
      <4> QED BY <4>1, <4>2, <4>3 DEF a
    <3> DEFINE b == <<Head0>> \o seq
    <3> HIDE DEF b
    <3>3. /\ Len(chain) = (1 + L) + 1
          /\ \A i \in 1 .. (1 + L) + 1 :
               chain[i] = IF i <= 1 + L THEN b[i] ELSE <<Tail0>>[i - (1 + L)]
      BY <3>1, <3>2, ConcatProperties DEF b
    <3>4. ASSUME NEW i \in 1 .. L + 2 PROVE chain[i] = At(i - 1)
      <4>1. CASE i = 1
        <5>1. 1 \in 1 .. 1 + L /\ 1 \in 1 .. (1 + L) + 1 /\ 1 <= 1 + L
          BY <2>1
        <5> QED BY <3>1, <3>2, <3>3, <4>1, <5>1 DEF At, AtIn, b
      <4>2. CASE i = L + 2
        <5>1. /\ ~(i <= 1 + L) /\ i - (1 + L) = 1 /\ i \in 1 .. (1 + L) + 1
              /\ i - 1 # 0 /\ i - 1 = Len(seq) + 1
          BY <2>1, <4>2
        <5> QED BY <3>1, <3>3, <5>1 DEF At, AtIn
      <4>3. CASE i # 1 /\ i # L + 2
        <5>1. /\ i <= 1 + L /\ ~(i <= 1) /\ i \in 1 .. 1 + L /\ i \in 1 .. (1 + L) + 1
              /\ i - 1 # 0 /\ i - 1 # Len(seq) + 1
          BY <2>1, <4>3
        <5> QED BY <3>2, <3>3, <5>1 DEF At, AtIn, b
      <4> QED BY <4>1, <4>2, <4>3
    <3>5. (1 + L) + 1 = L + 2
      BY <2>1
    <3> QED BY <3>3, <3>4, <3>5
  <2> HIDE DEF chain
  <2>4. ASSUME NEW i \in 1 .. L + 1
        PROVE  next[chain[i]] = chain[i + 1] /\ prev[chain[i + 1]] = chain[i]
    <3>1. i - 1 \in 0 .. L /\ i \in 1 .. L + 2 /\ i + 1 \in 1 .. L + 2
          /\ (i - 1) + 1 = i /\ (i + 1) - 1 = i
      BY <2>1
    <3>2. next[At(i - 1)] = At((i - 1) + 1) /\ prev[At(i)] = At(i - 1)
      BY <1>1, <2>1, <3>1 DEF ListInv, NextOK, PrevOK
    <3> QED BY <2>3, <3>1, <3>2
  <2>5. mid = IF seq = <<>> THEN Null ELSE seq[MidOf(numels) + 1]
    BY <1>1, <2>1, <2>2 DEF ListInv, MidOK, MidSize
  <2>6. Len(chain) - 1 = L + 1
    BY <2>1, <2>3
  <2> QED BY <2>1, <2>4, <2>5, <2>6 DEF chain
<1> QED BY <1>1, ListInductive, PTL

\* A lookup without the lock that no append meets ends at the client it was
\* made for, from whichever end or from the middle it was started.
THEOREM QuietLookups == ListSpec => []QuietLookupExact
<1>1. ASSUME ListInv PROVE QuietLookupExact
  <2> SUFFICES ASSUME quiet, Found PROVE ptr = seq[pos + 1]
    BY DEF QuietLookupExact, LookupExact
  <2>1. PICK L \in Nat : L = Len(seq)
    BY <1>1 DEF ListInv, ListTypeOK
  <2>2. hops = 0 /\ pos \in Nat /\ pos < n /\ n <= L
    BY <1>1, <2>1 DEF ListInv, ListTypeOK, LookupOK, Found
  <2>3. PICK k \in 0 .. L : AtPlace(k)
    <3>1. ~InFresh /\ hops \notin 1 .. L
      BY <2>1, <2>2 DEF InFresh
    <3> QED BY <1>1, <2>1, <3>1 DEF ListInv, LookupOK, Found
  <2>4. pos + 1 = k /\ ptr = At(k)
    BY <2>2, <2>3 DEF AtPlace
  <2>5. k # 0 /\ k # L + 1
    BY <2>2, <2>4
  <2> QED BY <2>1, <2>4, <2>5 DEF At, AtIn
<1> QED BY <1>1, ListInductive, PTL

-----------------------------------------------------------------------------
\* All components

\* Each component moves by its own steps, and stands still while another one
\* moves.
LEMMA EachByItself ==
  /\ MCInit => /\ Init /\ ListInit /\ ClockInit /\ PathInit /\ PortsInit /\ OfferInit
               /\ TransferInit /\ ConfigInit /\ IntakeInit
  /\ [MCNext]_MCAll =>
       /\ [Next]_vars /\ [ListNext]_listAll /\ [ClockNext]_clockAll /\ [PathNext]_pathAll
       /\ [PortsNext]_portsAll /\ [OfferNext]_offerAll /\ [TransferNext]_transferAll
       /\ [ConfigNext]_configAll /\ [IntakeNext]_intakeAll
<1>1. MCInit => /\ Init /\ ListInit /\ ClockInit /\ PathInit /\ PortsInit /\ OfferInit
                /\ TransferInit /\ ConfigInit /\ IntakeInit
  BY DEF MCInit
<1> SUFFICES ASSUME [MCNext]_MCAll
             PROVE  /\ [Next]_vars /\ [ListNext]_listAll /\ [ClockNext]_clockAll
                    /\ [PathNext]_pathAll /\ [PortsNext]_portsAll
                    /\ [OfferNext]_offerAll /\ [TransferNext]_transferAll
                    /\ [ConfigNext]_configAll /\ [IntakeNext]_intakeAll
  BY <1>1
<1>2. CASE UNCHANGED MCAll
  BY <1>2 DEF MCAll
<1>3. CASE MCNext
  BY <1>3 DEF MCNext, Only, Still
<1> QED BY <1>2, <1>3

\* No walk or buffer index, port, sequence number or list of any component
\* leaves its range, and of an offer only the bandwidths of a media are left on
\* the heap (sdp.c:1220-1263).
THEOREM AllTypesCorrect == MCSpec => []TypesOK
<1>1. MCSpec =>
        /\ Spec /\ ListSpec /\ ClockSpec /\ PathSpec /\ OfferSpec /\ TransferSpec
        /\ ConfigSpec /\ IntakeSpec
  BY EachByItself, PTL
     DEF MCSpec, Spec, ListSpec, ClockSpec, PathSpec, OfferSpec, TransferSpec,
         ConfigSpec, IntakeSpec
<1>2. MCSpec => []PortsTypeOK
  <2>1. PortsInv => PortsTypeOK
    BY DEF PortsInv
  <2> QED BY <2>1, EachByItself, PortsInvInit, PortsInvNext, PTL DEF MCSpec
<1>3. TypeOK /\ ListTypeOK /\ ClockTypeOK /\ PathTypeOK /\ PortsTypeOK /\ OfferTypeOK
      /\ TransferTypeOK /\ ConfigTypeOK /\ IntakeTypeOK => TypesOK
  BY DEF TypesOK
<1> QED BY <1>1, <1>2, <1>3, TypeCorrect, ListTypeCorrect, ClockTypeCorrect,
           PathTypeCorrect, OfferTypeCorrect, TransferTypeCorrect, ConfigTypeCorrect,
           IntakeTypeCorrect, PTL
=============================================================================
