----------------------------- MODULE ClientList -----------------------------
(***************************************************************************)
(* The list of clients of a stream node, a simclist (simclist.c): doubly   *)
(* linked between two sentinels, with a pointer to its middle so that an   *)
(* index is reached from the head, the middle or the tail.                 *)
(*                                                                         *)
(* The event loop appends under the bucket mutex (stream_moudle.c:173).    *)
(* The sender deletes under it too (client_opt.c:88), but looks a client   *)
(* up by its index without it (rtp_pack.c:501).  So the stores of an       *)
(* append and the loads of a lookup are steps of their own here, in the    *)
(* order of the source, and a deletion, which excludes both, is one step.  *)
(***************************************************************************)
EXTENDS Naturals, Sequences, SequencesExt

CONSTANTS
  Elems,             \* list entries; an entry stands for the client in it
  Head0, Tail0,      \* the sentinels
  Null               \* NULL, and what a fresh entry's pointers hold

ASSUME SentinelAssumption ==
  /\ Head0 # Tail0 /\ Null \notin {Head0, Tail0}
  /\ {Head0, Tail0, Null} \cap Elems = {}

VARIABLES
  next, prev, mid, numels, spareels,  \* list_t and its entries
  apc, lent,                          \* list_insert_at of the loop
  rpc, pos, n, ptr, hops,             \* list_findpos of the sender
  seq,                                \* history: the clients appended and not deleted
  quiet                               \* history: no append met the lookup

listData   == <<next, prev, mid, numels, spareels>>
appendVars == <<apc, lent>>
lookupVars == <<rpc, pos, n, ptr, hops>>
listAll == <<listData, appendVars, lookupVars, seq, quiet>>

Entries  == Elems \cup {Head0, Tail0}
Pointers == Entries \cup {Null}

\* list_init
ListInit ==
  /\ next = [e \in Entries |-> IF e = Head0 THEN Tail0 ELSE Null]
  /\ prev = [e \in Entries |-> IF e = Tail0 THEN Head0 ELSE Null]
  /\ mid = Null /\ numels = 0 /\ spareels = <<>>
  /\ apc = "idle" /\ lent = Null
  /\ rpc = "idle" /\ pos = 0 /\ n = 0 /\ ptr = Null /\ hops = 0
  /\ seq = <<>> /\ quiet = TRUE

-----------------------------------------------------------------------------
\* list_findpos: where it starts for index p in a list of size s, by quarters
\* of (p + 1) / s, how many steps it makes and in which direction

FromHead(p, s)    == s > 0 /\ 4 * (p + 1) <= s
MidBack(p, s)     == s > 0 /\ ~FromHead(p, s) /\ 2 * (p + 1) < s
MidForth(p, s)    == s > 0 /\ 2 * (p + 1) >= s /\ 4 * (p + 1) <= 3 * s

MidOfUpper(s) == s \div 2                 \* mutant: the upper middle
MidOf(s) == (s - 1) \div 2

StartsAt(p, s) ==
  CASE FromHead(p, s)                     -> Head0
    [] MidBack(p, s) \/ MidForth(p, s)    -> mid
    [] OTHER                              -> Tail0

HopsTailShort(p, s) ==                     \* mutant: off by one at the tail
  CASE FromHead(p, s) -> p + 1
    [] MidBack(p, s)  -> MidOf(s) - p
    [] MidForth(p, s) -> p - MidOf(s)
    [] OTHER          -> s - p - 1
Hops(p, s) ==
  CASE FromHead(p, s) -> p + 1
    [] MidBack(p, s)  -> MidOf(s) - p
    [] MidForth(p, s) -> p - MidOf(s)
    [] OTHER          -> s - p

Hop(p, s) == IF FromHead(p, s) \/ MidForth(p, s) THEN next ELSE prev

-----------------------------------------------------------------------------
\* list_append = list_insert_at(l, data, numels), by the loop

\* an entry from the spares or from malloc; prec = list_findpos(l, pos - 1)
\* is the last entry, found from the tail.  Fresh entries are alike: any of
\* them does.
Fresh == Elems \ (ToSet(seq) \cup ToSet(spareels))
BeginAppend ==
  /\ apc = "idle"
  /\ IF spareels # <<>>
     THEN lent' = Last(spareels) /\ spareels' = Front(spareels)
     ELSE /\ Fresh # {} /\ lent' = CHOOSE e \in Fresh : TRUE
          /\ UNCHANGED spareels
  /\ apc' = "link1"
  /\ quiet' = FALSE
  /\ UNCHANGED <<next, prev, mid, numels, lookupVars, seq>>

\* prec->next = lent
LinkAfter ==
  /\ apc = "link1"
  /\ next' = [next EXCEPT ![prev[Tail0]] = lent]
  /\ apc' = "link2"
  /\ UNCHANGED <<prev, mid, numels, spareels, lent, lookupVars, seq, quiet>>

\* lent->prev = prec
LinkBack ==
  /\ apc = "link2"
  /\ prev' = [prev EXCEPT ![lent] = prev[Tail0]]
  /\ apc' = "link3"
  /\ UNCHANGED <<next, mid, numels, spareels, lent, lookupVars, seq, quiet>>

\* lent->next = succ
LinkForth ==
  /\ apc = "link3"
  /\ next' = [next EXCEPT ![lent] = Tail0]
  /\ apc' = "link4"
  /\ UNCHANGED <<prev, mid, numels, spareels, lent, lookupVars, seq, quiet>>

\* succ->prev = lent
LinkBefore ==
  /\ apc = "link4"
  /\ prev' = [prev EXCEPT ![Tail0] = lent]
  /\ apc' = "count"
  /\ UNCHANGED <<next, mid, numels, spareels, lent, lookupVars, seq, quiet>>

CountEntry ==
  /\ apc = "count"
  /\ numels' = numels + 1
  /\ seq' = Append(seq, lent)
  /\ apc' = "mid"
  /\ UNCHANGED <<next, prev, mid, spareels, lent, lookupVars, quiet>>

\* the middle moves on when the new size is odd
MidAfterAppendEven(s, m, e) ==             \* mutant: even for odd
  IF s = 1 THEN e ELSE IF s % 2 = 0 THEN next[m] ELSE m
MidAfterAppend(s, m, e) ==
  IF s = 1 THEN e ELSE IF s % 2 = 1 THEN next[m] ELSE m

FixMid ==
  /\ apc = "mid"
  /\ mid' = MidAfterAppend(numels, mid, lent)
  /\ apc' = "idle" /\ lent' = Null
  /\ UNCHANGED <<next, prev, numels, spareels, lookupVars, seq, quiet>>

-----------------------------------------------------------------------------
\* list_get_at(pos) by the sender, for an index below a size it has read

GetAt(p) ==
  /\ rpc = "idle" /\ p < numels
  /\ rpc' = "start" /\ pos' = p /\ n' = numels
  /\ quiet' = (apc = "idle")
  /\ UNCHANGED <<listData, appendVars, ptr, hops, seq>>

LoadStart ==
  /\ rpc = "start"
  /\ ptr' = StartsAt(pos, n)
  /\ hops' = Hops(pos, n)
  /\ rpc' = "hop"
  /\ UNCHANGED <<listData, appendVars, pos, n, seq, quiet>>

FollowPointer ==
  /\ rpc = "hop" /\ hops > 0 /\ ptr # Null
  /\ ptr' = Hop(pos, n)[ptr]
  /\ hops' = hops - 1
  /\ UNCHANGED <<listData, appendVars, rpc, pos, n, seq, quiet>>

Found == rpc = "hop" /\ hops = 0

\* the lookup has returned: its variables are gone
LookupOver ==
  /\ rpc' = "idle" /\ pos' = 0 /\ n' = 0 /\ ptr' = Null /\ hops' = 0
  /\ quiet' = TRUE

\* the client found gets the packet
Serve ==
  /\ Found /\ ptr \in Elems
  /\ LookupOver
  /\ UNCHANGED <<listData, appendVars, seq>>

\* list_drop_elem at index p (from 0) of a list of size s: the middle first,
\* by the state before
MidAfterDrop(s, p, m) ==
  CASE s = 1                     -> Null
    [] s > 1 /\ s % 2 = 1        -> IF p >= s \div 2 THEN prev[m] ELSE m
    [] OTHER                     -> IF p < s \div 2 THEN next[m] ELSE m

\* list_locate: walk from the head
Locate(e) ==
  LET walk[k \in 0 .. numels] == IF k = 0 THEN next[Head0] ELSE next[walk[k - 1]]
  IN  CHOOSE k \in 0 .. numels - 1 :
        walk[k] = e /\ \A j \in 0 .. k - 1 : walk[j] # e

\* list_findpos with nobody else around
FindPos(p) ==
  LET walk[k \in 0 .. Hops(p, numels)] ==
        IF k = 0 THEN StartsAt(p, numels) ELSE Hop(p, numels)[walk[k - 1]]
  IN  walk[Hops(p, numels)]

\* it is flagged: list_delete of the client found, under the mutex
Delete ==
  /\ Found /\ ptr \in Elems /\ apc = "idle"
  /\ LET p == Locate(ptr)
         e == FindPos(p)
     IN  /\ mid' = MidAfterDrop(numels, p, mid)
         /\ next' = [next EXCEPT ![prev[e]] = next[e]]
         /\ prev' = [prev EXCEPT ![next[e]] = prev[e]]
         /\ numels' = numels - 1
         /\ spareels' = Append(spareels, e)
  /\ seq' = RemoveAt(seq, CHOOSE i \in DOMAIN seq : seq[i] = ptr)
  /\ LookupOver
  /\ UNCHANGED appendVars

\* the data of a sentinel is NULL, and pClientNode is not checked
NullClient ==
  /\ rpc = "hop"
  /\ \/ ptr = Null
     \/ hops = 0 /\ ptr \in {Head0, Tail0}

AppendStep == \/ BeginAppend \/ LinkAfter \/ LinkBack \/ LinkForth \/ LinkBefore
           \/ CountEntry \/ FixMid
Lookup  == \/ (\E p \in 0 .. numels - 1 : GetAt(p))
           \/ LoadStart \/ FollowPointer \/ Serve \/ Delete

\* a NULL client ends the process
ListNext == ~NullClient /\ (AppendStep \/ Lookup)

ListSpec == ListInit /\ [][ListNext]_listAll

-----------------------------------------------------------------------------
ListTypeOK ==
  /\ next \in [Entries -> Pointers] /\ prev \in [Entries -> Pointers]
  /\ mid \in Elems \cup {Null}
  /\ numels \in Nat /\ spareels \in Seq(Elems)
  /\ apc \in {"idle", "link1", "link2", "link3", "link4", "count", "mid"}
  /\ lent \in Elems \cup {Null}
  /\ rpc \in {"idle", "start", "hop"}
  /\ pos \in Nat /\ n \in Nat /\ ptr \in Pointers /\ hops \in Nat
  /\ seq \in Seq(Elems) /\ quiet \in BOOLEAN

\* list_repOk, asserted after every change of the list, and what it leaves
\* out: both chains go through the clients that were appended and not
\* deleted, in that order, and mid points to the middle one.
RepOk ==
  apc = "idle" =>
    LET chain == <<Head0>> \o seq \o <<Tail0>>
    IN  /\ numels = Len(seq)
        /\ \A i \in 1 .. Len(chain) - 1 :
             next[chain[i]] = chain[i + 1] /\ prev[chain[i + 1]] = chain[i]
        /\ mid = IF seq = <<>> THEN Null ELSE seq[MidOf(numels) + 1]

\* simclist.c:406, set tmp to point to element at index posstart in l: an
\* index below the size has one element from then on, since the loop only
\* appends.
LookupExact == Found => ptr = seq[pos + 1]

\* A lookup that no append meets is exact, from whichever quarter it starts
\* and whatever was appended and deleted before.
QuietLookupExact == quiet => LookupExact
=============================================================================
