---------------------------- MODULE BoundedFifo ----------------------------
(***************************************************************************)
(* What a frame queue promises (inc/common/lf_queue.h): a bounded buffer   *)
(* between one producer and one consumer.  A push takes room before it     *)
(* stores its unit and announces the unit after it; a pop takes an         *)
(* announcement before it takes the unit and gives the room back after it. *)
(* A push that finds no room and a pop that finds nothing announced fail   *)
(* and change nothing.  Units are numbered in the order of their pushes,   *)
(* modulo Window.                                                          *)
(***************************************************************************)
EXTENDS Naturals, Sequences

CONSTANTS
  Capacity,  \* max_unit_num
  Window     \* bound: numbers given to units

ASSUME CapacityAssumption == Capacity \in Nat \ {0}
ASSUME WindowAssumption == Window \in Nat /\ Window > Capacity + 1

VARIABLES
  room,   \* units that may still be stored
  ready,  \* units announced: nolock_queue_len
  items,  \* units stored and not taken
  push,   \* where the producer is
  pop,    \* where the consumer is
  number, \* the number of the next unit
  out     \* the unit taken last

vars == <<room, ready, items, push, pop, number, out>>

Numbers == 0 .. Window - 1
Succ(u) == IF u = Window - 1 THEN 0 ELSE u + 1

Init ==
  /\ room = Capacity /\ ready = 0 /\ items = <<>>
  /\ push = "idle" /\ pop = "idle"
  /\ number = 0 /\ out = Window - 1

ReserveUnchecked ==                        \* mutant: fullness not looked at
  /\ push = "idle"
  /\ room' = room - 1 /\ push' = "reserved"
  /\ UNCHANGED <<ready, items, pop, number, out>>
Reserve ==
  /\ push = "idle" /\ room > 0
  /\ room' = room - 1 /\ push' = "reserved"
  /\ UNCHANGED <<ready, items, pop, number, out>>

Store ==
  /\ push = "reserved"
  /\ items' = Append(items, number) /\ number' = Succ(number)
  /\ push' = "stored"
  /\ UNCHANGED <<room, ready, pop, out>>

AnnounceTwice ==                           \* mutant: counted twice
  /\ push = "stored"
  /\ ready' = ready + 2 /\ push' = "idle"
  /\ UNCHANGED <<room, items, pop, number, out>>
Announce ==
  /\ push = "stored"
  /\ ready' = ready + 1 /\ push' = "idle"
  /\ UNCHANGED <<room, items, pop, number, out>>

Claim ==
  /\ pop = "idle" /\ ready > 0
  /\ ready' = ready - 1 /\ pop' = "claimed"
  /\ UNCHANGED <<room, items, push, number, out>>

TakeLast ==                                \* mutant: a stack
  /\ pop = "claimed" /\ items # <<>>
  /\ out' = items[Len(items)] /\ items' = SubSeq(items, 1, Len(items) - 1)
  /\ pop' = "taken"
  /\ UNCHANGED <<room, ready, push, number>>
Take ==
  /\ pop = "claimed" /\ items # <<>>
  /\ out' = Head(items) /\ items' = Tail(items) /\ pop' = "taken"
  /\ UNCHANGED <<room, ready, push, number>>

Release ==
  /\ pop = "taken"
  /\ room' = room + 1 /\ pop' = "idle"
  /\ UNCHANGED <<ready, items, push, number, out>>

Next == Reserve \/ Store \/ Announce \/ Claim \/ Take \/ Release

Spec == Init /\ [][Next]_vars

-----------------------------------------------------------------------------
TypeOK ==
  /\ room \in 0 .. Capacity /\ ready \in 0 .. Capacity
  /\ items \in Seq(Numbers)
  /\ push \in {"idle", "reserved", "stored"}
  /\ pop \in {"idle", "claimed", "taken"}
  /\ number \in Numbers /\ out \in Numbers

One(b) == IF b THEN 1 ELSE 0

Conservation ==
  /\ room + Len(items) + One(push = "reserved") + One(pop = "taken") = Capacity
  /\ ready + One(push = "stored") + One(pop = "claimed") = Len(items)
ClaimedIsThere == pop = "claimed" => items # <<>>

InOrder ==
  /\ \A i \in 1 .. Len(items) - 1 : items[i + 1] = Succ(items[i])
  /\ items # <<>> => Head(items) = Succ(out) /\ number = Succ(items[Len(items)])
  /\ items = <<>> => number = Succ(out)

\* The buffer keeps its promise: room is neither lost nor invented (w_len),
\* what has been announced and not claimed (r_len) is what is stored, but for
\* the two operations under way, so that a pop whose claim succeeded finds a
\* unit; and units are taken in the order in which they were pushed, none
\* twice, none left out (lf_queue.c:126-225).
FifoExact == Conservation /\ ClaimedIsThere /\ InOrder
=============================================================================
