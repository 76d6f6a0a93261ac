------------------------------ MODULE LfQueue ------------------------------
(***************************************************************************)
(* The lock-free queue of frames, lf_queue.c, as this program uses it: one *)
(* producer, the event loop (get_frame_from_hbserver.c:225), and one       *)
(* consumer, the task of the node (send_av_data.c:209 and 99-113).  A step *)
(* is one access to the shared head of the queue or to the head of a unit. *)
(*                                                                         *)
(* Units are an array; the used ones form a linked list that starts after  *)
(* the unit p_head, which has been taken already (at first a unit of its   *)
(* own, LIST_END, that is no slot of the array).                           *)
(***************************************************************************)
EXTENDS Integers, Sequences

CONSTANTS
  max_unit_num,  \* capacity (512)
  Window         \* bound: units are numbered modulo this

ASSUME CapacityAssumption == max_unit_num \in Nat \ {0}
ASSUME WindowAssumption == Window \in Nat /\ Window > max_unit_num + 1

LIST_END == -1
Slots    == 0 .. max_unit_num
Units    == Slots \cup {LIST_END}
Numbers  == 0 .. Window - 1

VARIABLES
  p_head, p_tail, w_tail, w_len, r_len,  \* queue_head
  next, use_flag,                        \* unit_head of every unit
  data,                                  \* the unit stored there
  \* --- nolock_queue_push
  wpc, wlen, wslot, wold, number,        \* place, w_len, w_tail, old_p_tail
  \* --- nolock_queue_pop
  rpc, rlen, rhead, out                  \* place, r_len, p_head, *unit

queueVars == <<p_head, p_tail, w_tail, w_len, r_len, next, use_flag, data>>
pushVars  == <<wpc, wlen, wslot, wold, number>>
popVars   == <<rpc, rlen, rhead, out>>
vars      == <<queueVars, pushVars, popVars>>

\* nolock_queue_init: zeroed memory, then the list is made empty
Init ==
  /\ p_head = LIST_END /\ p_tail = LIST_END
  /\ w_tail = 0 /\ w_len = 0 /\ r_len = 0
  /\ next = [u \in Units |-> IF u = LIST_END THEN LIST_END ELSE 0]
  /\ use_flag = [u \in Units |-> FALSE]
  /\ data = [u \in Units |-> 0]
  /\ wpc = "len" /\ wlen = 0 /\ wslot = 0 /\ wold = LIST_END /\ number = 0
  /\ rpc = "len" /\ rlen = 0 /\ rhead = LIST_END /\ out = Window - 1

PushTo(pc) == wpc' = pc
PopTo(pc)  == rpc' = pc

-----------------------------------------------------------------------------
\* nolock_queue_push

\* is there room?  A full queue: the push fails
ReadWLen ==
  /\ wpc = "len" /\ w_len < max_unit_num
  /\ wlen' = w_len /\ PushTo("reserve")
  /\ UNCHANGED <<queueVars, wslot, wold, number, popVars>>

IncWLenPlain ==                            \* mutant: a plain store
  /\ wpc = "reserve"
  /\ w_len' = wlen + 1 /\ PushTo("slot")
  /\ UNCHANGED <<p_head, p_tail, w_tail, r_len, next, use_flag, data, wlen,
                 wslot, wold, number, popVars>>
\* compare and swap of w_len; a pop may have changed it
IncWLen ==
  /\ wpc = "reserve"
  /\ IF w_len = wlen
     THEN w_len' = wlen + 1 /\ PushTo("slot")
     ELSE w_len' = w_len /\ PushTo("len")
  /\ UNCHANGED <<p_head, p_tail, w_tail, r_len, next, use_flag, data, wlen,
                 wslot, wold, number, popVars>>

SlotShort(t) == t % max_unit_num           \* mutant: no unit to spare
SlotAt(t) == t % (max_unit_num + 1)

\* the next slot of the ring; nobody else moves w_tail
ClaimSlot ==
  /\ wpc = "slot"
  /\ wslot' = SlotAt(w_tail)
  /\ w_tail' = SlotAt(w_tail) + 1
  /\ PushTo("check")
  /\ UNCHANGED <<p_head, p_tail, w_len, r_len, next, use_flag, data, wlen,
                 wold, number, popVars>>

CheckSlot ==
  /\ wpc = "check"
  /\ PushTo(IF use_flag[wslot] THEN "slot" ELSE "end")
  /\ UNCHANGED <<queueVars, wlen, wslot, wold, number, popVars>>

EndUnit ==
  /\ wpc = "end"
  /\ next' = [next EXCEPT ![wslot] = LIST_END]
  /\ PushTo("use")
  /\ UNCHANGED <<p_head, p_tail, w_tail, w_len, r_len, use_flag, data, wlen,
                 wslot, wold, number, popVars>>

UseUnit ==
  /\ wpc = "use"
  /\ use_flag' = [use_flag EXCEPT ![wslot] = TRUE]
  /\ PushTo("write")
  /\ UNCHANGED <<p_head, p_tail, w_tail, w_len, r_len, next, data, wlen, wslot,
                 wold, number, popVars>>

\* memcpy of the unit; p_tail is read next
WriteUnit ==
  /\ wpc = "write"
  /\ data' = [data EXCEPT ![wslot] = number]
  /\ wold' = p_tail
  /\ PushTo("link")
  /\ UNCHANGED <<p_head, p_tail, w_tail, w_len, r_len, next, use_flag, wlen,
                 wslot, number, popVars>>

\* compare and swap of the last unit's next; try_times bears on several
\* producers only
LinkUnit ==
  /\ wpc = "link" /\ next[wold] = LIST_END
  /\ next' = [next EXCEPT ![wold] = wslot]
  /\ number' = (number + 1) % Window
  /\ PushTo("tail")
  /\ UNCHANGED <<p_head, p_tail, w_tail, w_len, r_len, use_flag, data, wlen,
                 wslot, wold, popVars>>

MoveTailForgotten ==                       \* mutant: p_tail stays
  /\ wpc = "tail"
  /\ PushTo("count")
  /\ UNCHANGED <<queueVars, wlen, wslot, wold, number, popVars>>
\* the tail follows, unless another push has moved it
MoveTail ==
  /\ wpc = "tail"
  /\ p_tail' = IF p_tail = wold THEN wslot ELSE p_tail
  /\ PushTo("count")
  /\ UNCHANGED <<p_head, w_tail, w_len, r_len, next, use_flag, data, wlen,
                 wslot, wold, number, popVars>>

CountUnit ==
  /\ wpc = "count"
  /\ r_len' = r_len + 1
  /\ PushTo("len")
  /\ UNCHANGED <<p_head, p_tail, w_tail, w_len, next, use_flag, data, wlen,
                 wslot, wold, number, popVars>>

-----------------------------------------------------------------------------
\* nolock_queue_pop

ReadableZero(len) == len >= 0              \* mutant: off by one
Readable(len) == len > 0

\* is there a unit?  An empty queue: the pop fails
ReadRLen ==
  /\ rpc = "len" /\ Readable(r_len)
  /\ rlen' = r_len /\ PopTo("claim")
  /\ UNCHANGED <<queueVars, pushVars, rhead, out>>

\* compare and swap of r_len; a push may have changed it
DecRLen ==
  /\ rpc = "claim"
  /\ IF r_len = rlen
     THEN r_len' = rlen - 1 /\ PopTo("head")
     ELSE r_len' = r_len /\ PopTo("len")
  /\ UNCHANGED <<p_head, p_tail, w_tail, w_len, next, use_flag, data, pushVars,
                 rlen, rhead, out>>

\* compare and swap of p_head with the next of the unit it points to; nobody
\* else moves p_head
MoveHead ==
  /\ rpc = "head"
  /\ rhead' = p_head
  /\ p_head' = next[p_head]
  /\ PopTo("read")
  /\ UNCHANGED <<p_tail, w_tail, w_len, r_len, next, use_flag, data, pushVars,
                 rlen, out>>

\* memcpy from the unit after the old head
ReadUnit ==
  /\ rpc = "read"
  /\ out' = data[next[rhead]]
  /\ PopTo("free")
  /\ UNCHANGED <<queueVars, pushVars, rlen, rhead>>

FreeUnit ==
  /\ rpc = "free"
  /\ use_flag' = [use_flag EXCEPT ![next[rhead]] = FALSE]
  /\ PopTo("release")
  /\ UNCHANGED <<p_head, p_tail, w_tail, w_len, r_len, next, data, pushVars,
                 rlen, rhead, out>>

DecWLen ==
  /\ rpc = "release"
  /\ w_len' = w_len - 1
  /\ PopTo("len")
  /\ UNCHANGED <<p_head, p_tail, w_tail, r_len, next, use_flag, data, pushVars,
                 rlen, rhead, out>>

Push == \/ ReadWLen \/ IncWLen \/ ClaimSlot \/ CheckSlot \/ EndUnit \/ UseUnit
        \/ WriteUnit \/ LinkUnit \/ MoveTail \/ CountUnit
Pop  == \/ ReadRLen \/ DecRLen \/ MoveHead \/ ReadUnit \/ FreeUnit \/ DecWLen

Next == Push \/ Pop

Spec == Init /\ [][Next]_vars

-----------------------------------------------------------------------------
TypeOK ==
  /\ {p_head, p_tail, wold, rhead} \subseteq Units
  /\ w_tail \in 0 .. max_unit_num + 1
  /\ w_len \in 0 .. max_unit_num /\ r_len \in 0 .. max_unit_num
  /\ wlen \in 0 .. max_unit_num /\ rlen \in 0 .. max_unit_num
  /\ next \in [Units -> Units] /\ use_flag \in [Units -> BOOLEAN]
  /\ data \in [Units -> Numbers]
  /\ wslot \in Slots /\ number \in Numbers /\ out \in Numbers
  /\ wpc \in {"len", "reserve", "slot", "check", "end", "use", "write", "link",
              "tail", "count"}
  /\ rpc \in {"len", "claim", "head", "read", "free", "release"}

(***************************************************************************)
(* The list in the ring: units are linked in the order of their slots, so  *)
(* the list is the part of the ring from p_head to the unit linked last.   *)
(***************************************************************************)

After(u) == IF u = max_unit_num THEN 0 ELSE u + 1
At(k) == IF p_head + k > max_unit_num THEN p_head + k - (max_unit_num + 1)
                                      ELSE p_head + k
\* steps round the ring from p_head to a unit
Dist(u) == IF u < p_head THEN u - p_head + max_unit_num + 1 ELSE u - p_head

\* p_tail follows one step after the link
Last == IF wpc = "tail" THEN wslot ELSE p_tail
Length == Dist(Last)
Linked == {At(k) : k \in 0 .. Length}

\* each next from p_head on, up to LIST_END
ListIsRing ==
  \A k \in 0 .. Length : next[At(k)] = IF k = Length THEN LIST_END ELSE At(k + 1)

Filling  == {"check", "end", "use", "write", "link"}
Reserved == {"slot"} \cup Filling
Reading  == {"read", "free"}
Taken    == {"read", "free", "release"}
One(b)   == IF b THEN 1 ELSE 0

\* what the two counters count
CountInv ==
  /\ w_len = Length + One(wpc \in Reserved) + One(rpc \in Taken)
  /\ r_len + One(wpc \in {"tail", "count"}) + One(rpc = "head") = Length
  /\ wpc = "reserve" => wlen < max_unit_num
  /\ rpc = "claim" => rlen > 0

\* the slot of a push is the one after the last unit, and it is prepared
\* before it is linked
PushInv ==
  /\ wpc \in Filling \cup {"tail"} => wslot = After(p_tail)
  /\ SlotAt(w_tail) = After(IF wpc \in Filling THEN wslot ELSE Last)
  /\ wpc \in {"use", "write", "link"} => next[wslot] = LIST_END
  /\ wpc = "link" => data[wslot] = number
  /\ wpc \in {"link", "tail"} => wold = p_tail
  /\ Last = LIST_END => p_head = LIST_END

\* a pop reads the unit p_head has moved to; what is marked as used is in
\* the list, being read or being linked
PopInv ==
  /\ rpc \in Reading => p_head = next[rhead] /\ p_head = After(rhead)
  /\ \A s \in Slots : use_flag[s] =>
       \/ Dist(s) \in 1 .. Length
       \/ rpc \in Reading /\ s = p_head
       \/ wpc \in {"write", "link"} /\ s = wslot

RingInv == TypeOK /\ ListIsRing /\ CountInv /\ PushInv /\ PopInv

UnitsExclusive ==
  wpc \in {"end", "use", "write"} =>
    /\ wslot \notin Linked
    /\ rpc \in {"read", "free"} => wslot \notin {rhead, next[rhead]}

\* The unit a push fills is in nobody's hands: not in the list, not the
\* taken unit p_head whose next the following pop will read, and not the one
\* a pop is reading (use_flag is cleared while p_head still points there);
\* and the links, the slots and the two counters agree all the time, which is
\* what makes it so (lf_queue.c:145-224).
UnitsSafe == RingInv /\ UnitsExclusive

\* The count the receiver and the sender look at, nolock_queue_len, runs
\* behind the list and never ahead of it.
LenIsHonest == r_len <= Length /\ Length <= w_len

\* The only push there is always links its unit: the slot of its turn is
\* free, its p_tail is the end of the list.
FirstTrySucceeds ==
  /\ wpc = "check" => ~use_flag[wslot]
  /\ wpc = "link" => wold = p_tail /\ next[wold] = LIST_END

\* The queue implements the bounded buffer.
Fifo == INSTANCE BoundedFifo WITH
  Capacity <- max_unit_num,
  room  <- max_unit_num - w_len,
  ready <- r_len,
  items <- [k \in 1 .. Length |-> data[At(k)]],
  push  <- CASE wpc \in {"len", "reserve"}  -> "idle"
             [] wpc \in {"tail", "count"}   -> "stored"
             [] OTHER                       -> "reserved",
  pop   <- CASE rpc \in {"len", "claim"} -> "idle"
             [] rpc = "head"             -> "claimed"
             [] OTHER                    -> "taken",
  out   <- IF rpc = "read" THEN data[next[rhead]] ELSE out

\* Every push and every pop is one of the steps of BoundedFifo or a stutter:
\* the linked list, the ring of slots and the two counters together are a
\* queue.
ImplementsFifo == Fifo!Spec
=============================================================================
