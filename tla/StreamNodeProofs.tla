-------------------------- MODULE StreamNodeProofs --------------------------
(***************************************************************************)
(* Theorems about StreamNode, for any number of calls, streams, nodes and  *)
(* clients, any queue capacity and any pool: the invariant NodeInv is      *)
(* inductive, and with it nobody uses a freed node, no node is lost, a     *)
(* node gets one task and the walk over the clients stays in the list.     *)
(***************************************************************************)
EXTENDS StreamNode, SequenceTheorems, TLAPS

\* list_delete of simclist drops one element.
LEMMA RemoveAtFacts ==
  ASSUME NEW S, NEW s \in Seq(S), NEW p \in 1 .. Len(s)
  PROVE  RemoveAt(s, p) \in Seq(S) /\ Len(RemoveAt(s, p)) = Len(s) - 1
<1> DEFINE a == SubSeq(s, 1, p - 1)
           b == SubSeq(s, p + 1, Len(s))
<1>1. /\ a \in Seq(S) /\ Len(a) = p - 1
      /\ b \in Seq(S) /\ Len(b) = Len(s) - p
  BY SubSeqProperties
<1>2. RemoveAt(s, p) = a \o b
  BY DEF RemoveAt
<1> HIDE DEF a, b
<1>3. Len(a \o b) = Len(a) + Len(b) /\ a \o b \in Seq(S)
  BY <1>1, ConcatProperties
<1> QED BY <1>1, <1>2, <1>3, LenProperties

\* A bufferevent that is still armed has a node that is allocated, in the
\* table and not handed over.
LEMMA OpenNode ==
  ASSUME NodeInv, NEW n \in Nodes, Open(n)
  PROVE  n \in heap /\ n \in table /\ getFlag[n] = 0 /\ lock # n
  BY DEF NodeInv, TypeOK, AllocInv, FlagInv, Open

\* The invariant holds before the first request.
LEMMA NodeInvInit == Init => NodeInv
<1> SUFFICES ASSUME Init PROVE NodeInv
  OBVIOUS
<1> USE DEF Init
<1>1. TypeOK
  BY QueueAssumption, BoundAssumption
  DEF TypeOK, LoopPCs, NodeLoopPCs, TaskPCs, Sources, Walks, NewFrame, Nodes
<1>2. LoopInv
  BY DEF LoopInv, NodeLoopPCs, LoopPCs
<1>3. ASSUME NEW n \in Nodes PROVE AllocInv(n) /\ FlagInv(n)
  BY DEF AllocInv, FlagInv, Open, Nodes, Free
<1>4. ASSUME NEW n \in Nodes PROVE IdleInv(n) /\ WalkInv(n)
  BY DEF IdleInv, WalkInv, Walking
<1> QED BY <1>1, <1>2, <1>3, <1>4 DEF NodeInv

-----------------------------------------------------------------------------
(***************************************************************************)
(* The steps of the event loop.                                            *)
(***************************************************************************)

\* PLAY: the node it finds is in the table, the one it makes is fresh.
LEMMA PlayInv ==
  ASSUME NEW k \in Calls, NodeInv, Play(k)
  PROVE  NodeInv'
<1> DEFINE n == NodeFor(k)
<1> USE DEF NodeInv
<1>1. /\ loop = "idle" /\ lock = Free /\ n \in Nodes
      /\ UNCHANGED <<lock, loop, cur, getFlag, sendFlag, rlen, del, iframe,
                     listen, hangup, spc, walk, victim>>
  BY DEF Play, LoopIdle, loopVars, taskVars
<1>2. /\ n \notin table => n = nNodes + 1
      /\ n \notin table => n \notin heap
  BY <1>1 DEF NodeFor, AllocInv, Free, Nodes
<1>3. /\ heap' = heap \cup {n} /\ table' = table \cup {n}
      /\ nNodes' = IF n \in table THEN nNodes ELSE n
      /\ key' \in [Nodes -> Keys \cup {None}]
  <2>1. InsertNode(n, k)
    BY DEF Play
  <2>2. n \in table => n \in heap
    BY <1>1 DEF AllocInv
  <2>3. key' = key \/ key' = [key EXCEPT ![n] = KeyOf[k]]
    BY <2>1 DEF InsertNode
  <2>4. key' \in [Nodes -> Keys \cup {None}]
    BY <2>3, KeyOfAssumption DEF TypeOK
  <2> QED BY <2>1, <2>2, <2>4, <1>1 DEF InsertNode
<1>4. /\ src' \in [Nodes -> Sources]
      /\ \A m \in Nodes : src'[m] # src[m] =>
           m = n /\ src[m] = "none" /\ src'[m] = "connecting"
  <2>1. OpenSource(n)
    BY DEF Play
  <2> QED BY <2>1, <1>1 DEF OpenSource, TypeOK, Sources
<1>5. /\ list' \in [Nodes -> Seq(Clients)]
      /\ \A m \in Nodes : m # n => list'[m] = list[m]
      /\ list'[n] # <<>>
      /\ list'[n] = list[n] \/ \E c \in Clients : list'[n] = Append(list[n], c)
      /\ nClients' \in 0 .. MaxClients
      /\ call' \in [Clients -> Calls \cup {None}]
      /\ cstate' \in [Clients -> {"unused", "listed", "detached", "freed"}]
      /\ timer' \in [Clients -> BOOLEAN]
  <2>1. AddClient(n, k)
    BY DEF Play
  <2>2. CASE HasClient(n, k)
    <3>1. list[n] # <<>>
      BY <2>2, <1>1 DEF HasClient, Members, ToSet, TypeOK
    <3> QED BY <2>1, <2>2, <3>1 DEF AddClient, TypeOK
  <2>3. CASE ~HasClient(n, k)
    <3> DEFINE c == nClients + 1
    <3>1. /\ c \in Clients /\ nClients' = c
          /\ call' = [call EXCEPT ![c] = k]
          /\ cstate' = [cstate EXCEPT ![c] = "listed"]
          /\ timer' = [timer EXCEPT ![c] = TRUE]
          /\ list' = [list EXCEPT ![n] = Append(@, c)]
      BY <2>1, <2>3 DEF AddClient
    <3>2. /\ list'[n] = Append(list[n], c)
          /\ list'[n] \in Seq(Clients) /\ list'[n] # <<>>
      BY <3>1, <1>1 DEF TypeOK
    <3> HIDE DEF c
    <3> QED BY <3>1, <3>2, <1>1 DEF TypeOK, Clients
  <2> QED BY <2>2, <2>3
<1> HIDE DEF n
<1>6. TypeOK'
  <2>1. nNodes' \in 0 .. MaxNodes /\ heap' \subseteq Nodes /\ table' \subseteq Nodes
    BY <1>1, <1>3 DEF TypeOK, Nodes
  <2> QED BY <2>1, <1>1, <1>3, <1>4, <1>5 DEF TypeOK
<1>7. LoopInv'
  BY <1>1 DEF LoopInv, NodeLoopPCs, LoopPCs
<1>8. ASSUME NEW m \in Nodes PROVE AllocInv(m)'
  <2>1. CASE m = n
    BY <1>1, <1>2, <1>3, <1>4, <2>1 DEF AllocInv, FlagInv, Open, Nodes, Free, TypeOK
  <2>2. CASE m # n
    BY <1>1, <1>2, <1>3, <1>4, <2>2 DEF AllocInv, Open, Nodes, TypeOK
  <2> QED BY <2>1, <2>2
<1>9. ASSUME NEW m \in Nodes PROVE FlagInv(m)'
  BY <1>1, <1>2, <1>3, <1>4 DEF FlagInv, AllocInv, Free, Nodes, TypeOK
<1>10. ASSUME NEW m \in Nodes PROVE IdleInv(m)'
  BY <1>1, <1>2, <1>3, <1>5 DEF IdleInv, AllocInv, Nodes, TypeOK
<1>11. ASSUME NEW m \in Nodes PROVE WalkInv(m)'
  <2>1. CASE list'[m] = list[m]
    BY <1>1, <2>1 DEF WalkInv
  <2>2. ASSUME NEW c \in Clients, list'[m] = Append(list[m], c)
        PROVE  WalkInv(m)'
    <3>1. list[m] \in Seq(Clients) /\ walk[m] \in Walks /\ lock # m
      BY <1>1 DEF TypeOK, Free, Nodes
    <3>2. /\ Len(list'[m]) = Len(list[m]) + 1
          /\ \A i \in 1 .. Len(list[m]) : list'[m][i] = list[m][i]
      BY <2>2, <3>1
    <3>3. spc[m] = "unlist" => walk[m].i + 1 \in 1 .. Len(list[m])
      BY <3>1 DEF WalkInv, Walking, Walks
    <3>4. /\ Len(list[m]) \in Nat /\ Len(list'[m]) \in Nat
          /\ walk[m].i \in Nat /\ walk[m].size \in Nat /\ walk[m].left \in Nat
      BY <3>1, <3>2 DEF Walks
    <3>5. WalkInv(m) /\ UNCHANGED <<spc, walk, lock, victim>>
      BY <1>1
    <3>6. spc[m] = "unlist" => list'[m][walk[m].i + 1] = victim[m]
      BY <3>2, <3>3, <3>5 DEF WalkInv
    <3>7. \A x \in Nat : x <= Len(list[m]) => x <= Len(list'[m])
      BY <3>2, <3>4
    <3>8. spc[m] \in {"packet", "visit", "unlist"} => walk[m].size <= Len(list'[m])
      BY <3>4, <3>5, <3>7 DEF WalkInv
    <3>9. spc[m] \in {"untimer", "unlisten"} /\ lock # m =>
            walk[m].size - 1 <= Len(list'[m])
      BY <3>2, <3>4, <3>5 DEF WalkInv
    <3> QED BY <3>5, <3>6, <3>8, <3>9 DEF WalkInv
  <2> QED BY <2>1, <2>2, <1>5
<1> QED BY <1>6, <1>7, <1>8, <1>9, <1>10, <1>11

\* Steps that touch only clients: STOP, RTCP, the SIP hang-up.
LEMMA ClientStep ==
  ASSUME NodeInv, TypeOK',
         UNCHANGED <<lock, nodeVars, getFlag, sendFlag, rlen, list, spc, taskVars>>,
         \/ UNCHANGED loopVars
         \/ loop \notin NodeLoopPCs /\ loop' \notin NodeLoopPCs
  PROVE  NodeInv'
<1>1. LoopInv'
  BY DEF NodeInv, LoopInv, NodeLoopPCs, LoopPCs, loopVars, nodeVars
<1>2. ASSUME NEW n \in Nodes PROVE AllocInv(n)' /\ FlagInv(n)'
  BY DEF NodeInv, AllocInv, FlagInv, Open, NodeLoopPCs, LoopPCs, loopVars, nodeVars
<1>3. ASSUME NEW n \in Nodes PROVE IdleInv(n)' /\ WalkInv(n)'
  BY DEF NodeInv, IdleInv, WalkInv, nodeVars, taskVars
<1> QED BY <1>1, <1>2, <1>3 DEF NodeInv

LEMMA StopInv ==
  ASSUME NEW k \in Calls, NodeInv, Stop(k)
  PROVE  NodeInv'
<1>1. TypeOK'
  BY DEF NodeInv, TypeOK, Stop, loopVars, nodeVars, taskVars
<1> QED BY <1>1, ClientStep DEF Stop

LEMMA RtcpTimerInv ==
  ASSUME NEW c \in Clients, NodeInv, RtcpTimer(c)
  PROVE  NodeInv'
<1>1. TypeOK'
  BY DEF NodeInv, TypeOK, RtcpTimer, EnterLoop, NodeLoopPCs, LoopPCs,
         nodeVars, clientVars, taskVars
<1> QED BY <1>1, ClientStep DEF RtcpTimer, LoopIdle, EnterLoop, NodeLoopPCs

LEMMA RtcpTimerEndInv ==
  ASSUME NodeInv, RtcpTimerEnd
  PROVE  NodeInv'
<1>1. TypeOK'
  BY DEF NodeInv, TypeOK, RtcpTimerEnd, LeaveLoop, NodeLoopPCs, LoopPCs,
         nodeVars, taskVars
<1> QED BY <1>1, ClientStep DEF RtcpTimerEnd, LeaveLoop, NodeLoopPCs

LEMMA RtcpTimeoutInv ==
  ASSUME NEW c \in Clients, NodeInv, RtcpTimeout(c)
  PROVE  NodeInv'
<1>1. TypeOK'
  BY DEF NodeInv, TypeOK, RtcpTimeout, EnterLoop, NodeLoopPCs, LoopPCs,
         nodeVars, taskVars
<1> QED BY <1>1, ClientStep DEF RtcpTimeout, LoopIdle, EnterLoop, NodeLoopPCs

LEMMA RtcpTimeoutEndInv ==
  ASSUME NodeInv, RtcpTimeoutEnd
  PROVE  NodeInv'
<1>1. TypeOK'
  BY DEF NodeInv, TypeOK, RtcpTimeoutEnd, LeaveLoop, NodeLoopPCs, LoopPCs,
         nodeVars, clientVars, taskVars
<1> QED BY <1>1, ClientStep DEF RtcpTimeoutEnd, LeaveLoop, NodeLoopPCs

LEMMA SipHangupInv ==
  ASSUME NodeInv, SipHangup
  PROVE  NodeInv'
<1>1. TypeOK'
  BY DEF NodeInv, TypeOK, SipHangup, loopVars, nodeVars, clientVars, taskVars
<1> QED BY <1>1, ClientStep DEF SipHangup

\* The loop frees a node only when it has no task and its source is in the
\* loop's own hands.
LEMMA DestroyNodeInv ==
  ASSUME NodeInv, NEW n \in Nodes, n \in heap, sendFlag[n] = 0, spc[n] = "none",
         \/ loop = "idle"
         \/ loop \in {"broke", "error"} /\ cur = n,
         DestroyNode(n)
  PROVE  NodeInv'
<1> USE DEF NodeInv
<1>1. /\ loop' = "idle" /\ cur' = Nil /\ lock = Free
      /\ table' = table \ {n} /\ heap' = heap \ {n}
      /\ UNCHANGED <<lock, nNodes, key, getFlag, sendFlag, rlen, nClients,
                     call, del, iframe, hangup, spc, walk, victim>>
  BY DEF DestroyNode, LeaveLoop, taskVars
<1>2. /\ src' \in [Nodes -> Sources]
      /\ src'[n] = "closed"
      /\ \A m \in Nodes : m # n => src'[m] = src[m]
  BY DEF DestroyNode, TypeOK, Sources
<1>3. /\ list' \in [Nodes -> Seq(Clients)]
      /\ \A m \in Nodes : m # n => list'[m] = list[m]
  BY DEF DestroyNode, TypeOK
<1>4. TypeOK'
  <2>1. /\ cstate' \in [Clients -> {"unused", "listed", "detached", "freed"}]
        /\ timer' \in [Clients -> BOOLEAN] /\ listen' \in [Clients -> BOOLEAN]
    BY DEF DestroyNode, TypeOK
  <2> QED BY <1>1, <1>2, <1>3, <2>1 DEF TypeOK, NodeLoopPCs, LoopPCs
<1>5. LoopInv'
  BY <1>1 DEF LoopInv, NodeLoopPCs, LoopPCs
<1>6. ASSUME NEW m \in Nodes PROVE AllocInv(m)' /\ FlagInv(m)'
  <2>1. CASE m = n
    BY <1>1, <1>2, <2>1 DEF AllocInv, FlagInv, Open, Nodes, Free, TypeOK
  <2>2. CASE m # n
    BY <1>1, <1>2, <2>2 DEF AllocInv, FlagInv, Open
  <2> QED BY <2>1, <2>2
<1>7. ASSUME NEW m \in Nodes PROVE IdleInv(m)' /\ WalkInv(m)'
  <2>1. CASE m = n
    BY <1>1, <2>1 DEF IdleInv, WalkInv, Walking
  <2>2. CASE m # n
    BY <1>1, <1>3, <2>2 DEF IdleInv, WalkInv
  <2> QED BY <2>1, <2>2
<1> QED BY <1>4, <1>5, <1>6, <1>7

LEMMA SourceRefusedInv ==
  ASSUME NEW n \in Nodes, NodeInv, SourceRefused(n)
  PROVE  NodeInv'
<1>1. n \in heap /\ sendFlag[n] = 0 /\ spc[n] = "none" /\ loop = "idle"
  BY OpenNode DEF NodeInv, TypeOK, FlagInv, SourceRefused, Open, LoopIdle
<1> QED BY <1>1, DestroyNodeInv DEF SourceRefused

LEMMA FreeUnstartedInv ==
  ASSUME NodeInv, FreeUnstarted
  PROVE  NodeInv'
<1>1. /\ cur \in Nodes /\ loop \in {"broke", "error"} /\ sendFlag[cur] = 0
      /\ cur \in table
  BY DEF NodeInv, TypeOK, LoopInv, NodeLoopPCs, LoopPCs, FreeUnstarted, LeftToTask
<1>2. cur \in heap /\ spc[cur] = "none"
  BY <1>1 DEF NodeInv, AllocInv, FlagInv
<1> QED BY <1>1, <1>2, DestroyNodeInv DEF FreeUnstarted

LEMMA SourceConnectedInv ==
  ASSUME NEW n \in Nodes, NodeInv, SourceConnected(n)
  PROVE  NodeInv'
<1> USE DEF NodeInv, SourceConnected, loopVars, clientVars, taskVars
<1>1. TypeOK'
  BY DEF TypeOK, Sources
<1>2. LoopInv'
  BY DEF LoopInv, TypeOK, LoopIdle, NodeLoopPCs
<1>3. ASSUME NEW m \in Nodes PROVE AllocInv(m)' /\ FlagInv(m)'
  BY DEF AllocInv, FlagInv, Open, TypeOK
<1>4. ASSUME NEW m \in Nodes PROVE IdleInv(m)' /\ WalkInv(m)'
  BY DEF IdleInv, WalkInv
<1> QED BY <1>1, <1>2, <1>3, <1>4

LEMMA SourceAcceptedInv ==
  ASSUME NEW n \in Nodes, NodeInv, SourceAccepted(n)
  PROVE  NodeInv'
<1> USE DEF NodeInv, SourceAccepted, loopVars, clientVars, taskVars
<1>1. TypeOK'
  BY DEF TypeOK, Sources
<1>2. LoopInv'
  BY DEF LoopInv, TypeOK, LoopIdle, NodeLoopPCs
<1>3. ASSUME NEW m \in Nodes PROVE AllocInv(m)' /\ FlagInv(m)'
  BY DEF AllocInv, FlagInv, Open, TypeOK
<1>4. ASSUME NEW m \in Nodes PROVE IdleInv(m)' /\ WalkInv(m)'
  BY DEF IdleInv, WalkInv
<1> QED BY <1>1, <1>2, <1>3, <1>4

\* The bufferevent is freed: from here on the callback answers for the node.
LEMMA SourceErrorInv ==
  ASSUME NEW n \in Nodes, NodeInv, SourceError(n)
  PROVE  NodeInv'
<1> USE DEF NodeInv, SourceError, EnterLoop, LoopIdle, clientVars, taskVars
<1>1. n \in heap /\ n \in table /\ getFlag[n] = 0
  BY OpenNode DEF Open
<1>2. TypeOK'
  BY DEF TypeOK, Sources, NodeLoopPCs, LoopPCs
<1>3. LoopInv'
  BY <1>1 DEF LoopInv, TypeOK
<1>4. ASSUME NEW m \in Nodes PROVE AllocInv(m)' /\ FlagInv(m)'
  BY <1>1 DEF AllocInv, FlagInv, Open, TypeOK
<1>5. ASSUME NEW m \in Nodes PROVE IdleInv(m)' /\ WalkInv(m)'
  BY DEF IdleInv, WalkInv
<1> QED BY <1>2, <1>3, <1>4, <1>5

\* A frame comes from an armed bufferevent; a task is started only when the
\* flag says that there is none.
LEMMA RecvFrameInv ==
  ASSUME NEW n \in Nodes, NEW I \in BOOLEAN, NEW AV \in BOOLEAN,
         NodeInv, RecvFrame(n, I, AV)
  PROVE  NodeInv'
<1> USE DEF NodeInv, LoopIdle, clientVars, taskVars
<1>1. n \in heap /\ n \in table /\ getFlag[n] = 0
  BY OpenNode DEF RecvFrame, Open
<1>2. /\ loop = "idle" /\ src[n] = "stream"
      /\ UNCHANGED <<lock, nNodes, heap, table, key, getFlag, sendFlag, rlen,
                     list, clientVars, hangup, spc, walk, victim>>
      /\ \/ src' = [src EXCEPT ![n] = "closed"] /\ loop' = "broke" /\ cur' = n
         \/ /\ src' = src
            /\ \/ loop' = "task" /\ cur' = n /\ sendFlag[n] = 0
               \/ loop' = "push" /\ cur' = n /\ sendFlag[n] # 0
               \/ loop' = loop /\ cur' = cur
  BY DEF RecvFrame, EnterLoop, StartsTask, loopVars
<1>3. TypeOK'
  BY <1>2 DEF TypeOK, Sources, NodeLoopPCs, LoopPCs
<1>4. LoopInv'
  <2>1. src'[n] = IF loop' = "broke" THEN "closed" ELSE "stream"
    BY <1>2 DEF TypeOK
  <2>2. sendFlag[n] = 0 => spc[n] = "none"
    BY <1>2 DEF FlagInv
  <2> QED BY <1>1, <1>2, <2>1, <2>2 DEF LoopInv, NodeLoopPCs, LoopPCs
<1>5. ASSUME NEW m \in Nodes PROVE AllocInv(m)' /\ FlagInv(m)'
  <2>1. src'[m] = IF loop' = "broke" /\ m = n THEN "closed" ELSE src[m]
    BY <1>2 DEF TypeOK
  <2>2. loop' = "broke" => cur' = n
    BY <1>2
  <2>3. AllocInv(m)'
    BY <1>1, <1>2, <2>1 DEF AllocInv, Open
  <2>4. FlagInv(m)'
    BY <1>1, <1>2, <2>1, <2>2 DEF FlagInv
  <2> QED BY <2>3, <2>4
<1>6. ASSUME NEW m \in Nodes PROVE IdleInv(m)' /\ WalkInv(m)'
  BY <1>2 DEF IdleInv, WalkInv
<1> QED BY <1>3, <1>4, <1>5, <1>6

\* The task is queued while the flag still says that there is none.
LEMMA QueueTaskInv ==
  ASSUME NodeInv, QueueTask
  PROVE  NodeInv'
<1> USE DEF NodeInv, QueueTask, EnterLoop, nodeVars, clientVars, taskVars
<1>1. cur \in Nodes /\ cur \in table /\ sendFlag[cur] = 0
  BY DEF TypeOK, LoopInv, NodeLoopPCs, LoopPCs
<1>2. TypeOK'
  BY <1>1 DEF TypeOK, NodeLoopPCs, LoopPCs, TaskPCs
<1>3. LoopInv'
  BY <1>1 DEF LoopInv, TypeOK, NodeLoopPCs, LoopPCs
<1>4. ASSUME NEW m \in Nodes PROVE AllocInv(m)' /\ FlagInv(m)'
  BY <1>1 DEF AllocInv, FlagInv, LoopInv, Open, TypeOK, Freeing
<1>5. ASSUME NEW m \in Nodes PROVE IdleInv(m)' /\ WalkInv(m)'
  BY <1>1 DEF IdleInv, WalkInv, TypeOK, Walking
<1> QED BY <1>2, <1>3, <1>4, <1>5

\* The late store of the flag finds a task that has not left its loop.
LEMMA SetSendFlagInv ==
  ASSUME NodeInv, SetSendFlag
  PROVE  NodeInv'
<1> USE DEF NodeInv
<1>1. /\ cur \in Nodes /\ cur \in table /\ src[cur] = "stream"
      /\ spc[cur] \in {"queued", "top", "size", "len"} /\ loop = "flag"
      /\ sendFlag[cur] = 0 /\ getFlag[cur] = 0
  BY DEF SetSendFlag, TypeOK, LoopInv, NodeLoopPCs, LoopPCs
<1>2. /\ UNCHANGED <<lock, nNodes, heap, table, key, src, getFlag, rlen, list,
                     clientVars, hangup, spc, walk, victim>>
      /\ sendFlag' \in [Nodes -> 0 .. 2]
      /\ \A m \in Nodes : sendFlag'[m] = IF m = cur THEN 1 ELSE sendFlag[m]
      /\ \/ loop' = "push" /\ cur' = cur
         \/ loop' = "idle" /\ cur' = Nil
  BY <1>1 DEF SetSendFlag, EnterLoop, LeaveLoop, TypeOK, nodeVars, taskVars
<1>3. TypeOK'
  BY <1>1, <1>2 DEF TypeOK, NodeLoopPCs, LoopPCs, clientVars
<1>4. LoopInv'
  BY <1>1, <1>2 DEF LoopInv, NodeLoopPCs, LoopPCs
<1>5. ASSUME NEW m \in Nodes PROVE AllocInv(m)' /\ FlagInv(m)'
  BY <1>1, <1>2 DEF AllocInv, FlagInv, Open
<1>6. ASSUME NEW m \in Nodes PROVE IdleInv(m)' /\ WalkInv(m)'
  BY <1>2 DEF IdleInv, WalkInv
<1> QED BY <1>3, <1>4, <1>5, <1>6

LEMMA PushFrameInv ==
  ASSUME NodeInv, PushFrame
  PROVE  NodeInv'
<1> USE DEF NodeInv
<1>1. /\ cur \in Nodes /\ cur \in table /\ src[cur] = "stream"
      /\ sendFlag[cur] # 0 /\ getFlag[cur] = 0 /\ loop = "push"
  BY DEF PushFrame, TypeOK, LoopInv, NodeLoopPCs, LoopPCs
<1>2. /\ UNCHANGED <<lock, nNodes, heap, table, key, getFlag, sendFlag, list,
                     clientVars, hangup, spc, walk, victim>>
      /\ \/ /\ src' = [src EXCEPT ![cur] = "closed"] /\ rlen' = rlen
            /\ loop' = "broke" /\ cur' = cur
         \/ /\ src' = src /\ loop' = "idle" /\ cur' = Nil
            /\ rlen' = rlen \/ ( /\ rlen[cur] < QueueMax
                                 /\ rlen' = [rlen EXCEPT ![cur] = @ + 1])
  <2>1. rlen[cur] \in Nat
    BY <1>1, QueueAssumption DEF TypeOK
  <2> QED BY <2>1, QueueAssumption DEF PushFrame, EnterLoop, LeaveLoop, taskVars
<1>3. /\ rlen' \in [Nodes -> 0 .. QueueMax]
      /\ \A m \in Nodes : m # cur => rlen'[m] = rlen[m]
  <2>1. CASE rlen' = rlen
    BY <2>1 DEF TypeOK
  <2>2. CASE rlen[cur] < QueueMax /\ rlen' = [rlen EXCEPT ![cur] = @ + 1]
    <3>1. rlen \in [Nodes -> 0 .. QueueMax] /\ rlen[cur] + 1 \in 0 .. QueueMax
      BY <1>1, <2>2, QueueAssumption DEF TypeOK
    <3> QED BY <1>1, <2>2, <3>1
  <2> QED BY <1>2, <2>1, <2>2
<1>4. /\ src' \in [Nodes -> Sources]
      /\ \A m \in Nodes :
           src'[m] = IF m = cur /\ loop' = "broke" THEN "closed" ELSE src[m]
  BY <1>1, <1>2 DEF TypeOK, Sources
<1>5. TypeOK'
  BY <1>1, <1>2, <1>3, <1>4 DEF TypeOK, NodeLoopPCs, LoopPCs, clientVars
<1>6. LoopInv'
  BY <1>1, <1>2, <1>4 DEF LoopInv, NodeLoopPCs, LoopPCs
<1>7. ASSUME NEW m \in Nodes PROVE AllocInv(m)'
  BY <1>1, <1>2, <1>3, <1>4, OpenNode DEF AllocInv, Open
<1>8. ASSUME NEW m \in Nodes PROVE FlagInv(m)'
  BY <1>1, <1>2, <1>4 DEF FlagInv
<1>9. ASSUME NEW m \in Nodes PROVE IdleInv(m)' /\ WalkInv(m)'
  BY <1>1, <1>2, <1>3 DEF IdleInv, WalkInv
<1> QED BY <1>5, <1>6, <1>7, <1>8, <1>9

LEMMA HandOverUnderLockInv ==
  ASSUME NodeInv, HandOverUnderLock
  PROVE  NodeInv'
<1> USE DEF NodeInv, HandOverUnderLock, LeaveLoop, nodeVars, clientVars, taskVars
<1>1. cur \in Nodes /\ src[cur] = "closed" /\ sendFlag[cur] # 0
  BY DEF TypeOK, LoopInv, LeftToTask, NodeLoopPCs, LoopPCs
<1>2. TypeOK'
  BY <1>1 DEF TypeOK, NodeLoopPCs, LoopPCs
<1>3. LoopInv'
  BY DEF LoopInv, NodeLoopPCs, LoopPCs
<1>4. ASSUME NEW m \in Nodes PROVE AllocInv(m)' /\ FlagInv(m)'
  BY <1>1 DEF AllocInv, FlagInv, Open, TypeOK
<1>5. ASSUME NEW m \in Nodes PROVE IdleInv(m)' /\ WalkInv(m)'
  BY DEF IdleInv, WalkInv
<1> QED BY <1>2, <1>3, <1>4, <1>5

LEMMA DisableClientsInv ==
  ASSUME NodeInv, DisableClients
  PROVE  NodeInv'
<1> USE DEF NodeInv, DisableClients, EnterLoop, nodeVars, clientVars, taskVars
<1>1. cur \in Nodes /\ sendFlag[cur] # 0
  BY DEF TypeOK, LoopInv, LeftToTask, NodeLoopPCs, LoopPCs
<1>2. TypeOK'
  BY <1>1 DEF TypeOK, NodeLoopPCs, LoopPCs
<1>3. LoopInv'
  BY <1>1 DEF LoopInv, NodeLoopPCs, LoopPCs
<1>4. ASSUME NEW m \in Nodes PROVE AllocInv(m)' /\ FlagInv(m)'
  BY DEF AllocInv, FlagInv, Open
<1>5. ASSUME NEW m \in Nodes PROVE IdleInv(m)' /\ WalkInv(m)'
  BY DEF IdleInv, WalkInv
<1> QED BY <1>2, <1>3, <1>4, <1>5

LEMMA HandOverInv ==
  ASSUME NodeInv, HandOver
  PROVE  NodeInv'
<1> USE DEF NodeInv, HandOver, LeaveLoop, nodeVars, clientVars, taskVars
<1>1. cur \in Nodes /\ src[cur] = "closed" /\ sendFlag[cur] # 0
  BY DEF TypeOK, LoopInv, NodeLoopPCs, LoopPCs
<1>2. TypeOK'
  BY <1>1 DEF TypeOK, NodeLoopPCs, LoopPCs
<1>3. LoopInv'
  BY DEF LoopInv, NodeLoopPCs, LoopPCs
<1>4. ASSUME NEW m \in Nodes PROVE AllocInv(m)' /\ FlagInv(m)'
  BY <1>1 DEF AllocInv, FlagInv, Open, TypeOK
<1>5. ASSUME NEW m \in Nodes PROVE IdleInv(m)' /\ WalkInv(m)'
  BY DEF IdleInv, WalkInv
<1> QED BY <1>2, <1>3, <1>4, <1>5

-----------------------------------------------------------------------------
(***************************************************************************)
(* The steps of a node's task.                                             *)
(***************************************************************************)

LEMMA StartTaskInv ==
  ASSUME NEW n \in Nodes, NodeInv, StartTask(n)
  PROVE  NodeInv'
<1> USE DEF NodeInv, StartTask, Goto, loopVars, nodeVars, clientVars, taskVars
<1>1. TypeOK'
  BY DEF TypeOK, TaskPCs
<1>2. LoopInv'
  BY DEF LoopInv, TypeOK, NodeLoopPCs, LoopPCs
<1>3. ASSUME NEW m \in Nodes PROVE AllocInv(m)' /\ FlagInv(m)'
  BY DEF AllocInv, FlagInv, Open, TypeOK, Freeing
<1>4. ASSUME NEW m \in Nodes PROVE IdleInv(m)' /\ WalkInv(m)'
  BY DEF IdleInv, WalkInv, TypeOK, Walking
<1> QED BY <1>1, <1>2, <1>3, <1>4

LEMMA CheckSourceInv ==
  ASSUME NEW n \in Nodes, NodeInv, CheckSource(n)
  PROVE  NodeInv'
<1> USE DEF NodeInv, CheckSource, Goto, loopVars, nodeVars, clientVars, taskVars
<1>1. TypeOK'
  BY DEF TypeOK, TaskPCs
<1>2. LoopInv'
  BY DEF LoopInv, TypeOK, NodeLoopPCs, LoopPCs
<1>3. ASSUME NEW m \in Nodes PROVE AllocInv(m)' /\ FlagInv(m)'
  <2>1. spc'[m] = IF m # n THEN spc[m] ELSE IF getFlag[n] = 2 THEN "exit" ELSE "size"
    BY DEF TypeOK
  <2> QED BY <2>1 DEF AllocInv, FlagInv, Open, Freeing
<1>4. ASSUME NEW m \in Nodes PROVE IdleInv(m)' /\ WalkInv(m)'
  BY DEF IdleInv, WalkInv, TypeOK, Walking
<1> QED BY <1>1, <1>2, <1>3, <1>4

\* Before its flag is stored the task finds clients: it cannot quit yet.
LEMMA CheckClientsInv ==
  ASSUME NEW n \in Nodes, NodeInv, CheckClients(n)
  PROVE  NodeInv'
<1> USE DEF NodeInv, CheckClients, Goto, loopVars, nodeVars, clientVars, taskVars
<1>1. spc \in [Nodes -> TaskPCs] /\ list[n] \in Seq(Clients)
  BY DEF TypeOK
<1>2. \A m \in Nodes :
        spc'[m] = IF m # n THEN spc[m] ELSE IF list[n] = <<>> THEN "quit" ELSE "len"
  BY <1>1
<1>3. TypeOK'
  BY DEF TypeOK, TaskPCs
<1>4. LoopInv'
  <2>1. loop = "flag" /\ cur = n => list[n] # <<>>
    BY DEF LoopInv, IdleInv, AllocInv, NodeLoopPCs, LoopPCs
  <2> QED BY <1>2, <2>1 DEF LoopInv, TypeOK, NodeLoopPCs, LoopPCs
<1>5. ASSUME NEW m \in Nodes PROVE AllocInv(m)' /\ FlagInv(m)'
  BY <1>2 DEF AllocInv, FlagInv, Open, Freeing
<1>6. ASSUME NEW m \in Nodes PROVE IdleInv(m)' /\ WalkInv(m)'
  BY <1>2 DEF IdleInv, WalkInv, Walking
<1> QED BY <1>3, <1>4, <1>5, <1>6

LEMMA QuitInv ==
  ASSUME NEW n \in Nodes, NodeInv, Quit(n)
  PROVE  NodeInv'
<1> USE DEF NodeInv, Quit, Goto, loopVars, nodeVars, clientVars, taskVars
<1>1. /\ sendFlag' \in [Nodes -> 0 .. 2] /\ spc' \in [Nodes -> TaskPCs]
      /\ \A m \in Nodes : /\ sendFlag'[m] = IF m = n THEN 2 ELSE sendFlag[m]
                          /\ spc'[m] = IF m = n THEN "exit" ELSE spc[m]
  BY DEF TypeOK, TaskPCs
<1>2. sendFlag[n] # 0
  BY DEF FlagInv, LoopInv
<1>3. TypeOK'
  BY <1>1 DEF TypeOK
<1>4. LoopInv'
  BY <1>1, <1>2 DEF LoopInv, TypeOK, NodeLoopPCs, LoopPCs
<1>5. ASSUME NEW m \in Nodes PROVE AllocInv(m)' /\ FlagInv(m)'
  BY <1>1, <1>2 DEF AllocInv, FlagInv, Open, Freeing
<1>6. ASSUME NEW m \in Nodes PROVE IdleInv(m)' /\ WalkInv(m)'
  BY <1>1 DEF IdleInv, WalkInv, Walking
<1> QED BY <1>3, <1>4, <1>5, <1>6

\* Before its flag is stored the task finds no frame.
LEMMA TakeFrameInv ==
  ASSUME NEW n \in Nodes, NodeInv, TakeFrame(n)
  PROVE  NodeInv'
<1> USE DEF NodeInv
<1>1. /\ spc[n] = "len" /\ spc' \in [Nodes -> TaskPCs]
      /\ rlen' \in [Nodes -> 0 .. QueueMax]
      /\ \A m \in Nodes : m # n => spc'[m] = spc[m] /\ rlen'[m] = rlen[m]
      /\ \/ spc'[n] = "pop" /\ rlen[n] # 0
         \/ spc'[n] = "top" /\ rlen'[n] = rlen[n]
      /\ UNCHANGED <<lock, loop, cur, nNodes, heap, table, key, src, getFlag,
                     sendFlag, list, clientVars, hangup, walk, victim>>
  <2>1. /\ rlen \in [Nodes -> 0 .. QueueMax] /\ rlen[n] \in 0 .. QueueMax
        /\ spc \in [Nodes -> TaskPCs]
    BY DEF TypeOK
  <2>2. CASE rlen[n] > MinBacklog
    <3>1. rlen[n] - 1 \in 0 .. QueueMax /\ rlen[n] # 0
      BY <2>1, <2>2, QueueAssumption
    <3> QED BY <2>1, <2>2, <3>1
        DEF TakeFrame, Goto, TaskPCs, loopVars, nodeVars, taskVars
  <2>3. CASE ~(rlen[n] > MinBacklog)
    BY <2>1, <2>3 DEF TakeFrame, Goto, TaskPCs, loopVars, nodeVars, taskVars
  <2> QED BY <2>2, <2>3
<1>2. sendFlag[n] = 0 => rlen[n] = 0
  BY <1>1 DEF IdleInv, AllocInv
<1>3. TypeOK'
  BY <1>1 DEF TypeOK, clientVars
<1>4. LoopInv'
  BY <1>1, <1>2 DEF LoopInv, TypeOK, NodeLoopPCs, LoopPCs
<1>5. ASSUME NEW m \in Nodes PROVE AllocInv(m)' /\ FlagInv(m)'
  BY <1>1 DEF AllocInv, FlagInv, Open, Freeing
<1>6. ASSUME NEW m \in Nodes PROVE IdleInv(m)' /\ WalkInv(m)'
  BY <1>1, <1>2 DEF IdleInv, WalkInv, Walking
<1> QED BY <1>3, <1>4, <1>5, <1>6

\* A step of a task that only moves its place and its walk, between two
\* places where its frame loop is well under way.
Sending == {"pop", "pack", "packet", "visit", "unlist", "untimer", "unlisten"}
LEMMA SendingStep ==
  ASSUME NodeInv, NEW n \in Nodes,
         spc[n] \in Sending, lock # n,
         UNCHANGED <<lock, loop, cur, nNodes, heap, table, key, src, getFlag,
                     sendFlag, rlen>>,
         spc' \in [Nodes -> TaskPCs],
         spc'[n] \in Sending \cup {"top"},
         \A m \in Nodes : m # n =>
           spc'[m] = spc[m] /\ list'[m] = list[m] /\ walk'[m] = walk[m]
             /\ victim'[m] = victim[m],
         WalkInv(n)'
  PROVE  LoopInv' /\ \A m \in Nodes : AllocInv(m)' /\ FlagInv(m)' /\ IdleInv(m)' /\ WalkInv(m)'
<1> USE DEF NodeInv, Sending
<1>1. n \in heap /\ sendFlag[n] \in {1, 2} /\ sendFlag[n] # 2
  BY DEF FlagInv, AllocInv, LoopInv, Freeing, TypeOK
<1>2. LoopInv'
  BY DEF LoopInv, TypeOK, NodeLoopPCs, LoopPCs
<1>3. ASSUME NEW m \in Nodes PROVE AllocInv(m)' /\ FlagInv(m)'
  BY <1>1 DEF AllocInv, FlagInv, Open, Freeing
<1>4. ASSUME NEW m \in Nodes PROVE IdleInv(m)' /\ WalkInv(m)'
  BY <1>1 DEF IdleInv, WalkInv
<1> QED BY <1>2, <1>3, <1>4

LEMMA FrameTakenInv ==
  ASSUME NEW n \in Nodes, NodeInv, FrameTaken(n)
  PROVE  NodeInv'
<1>1. TypeOK'
  <2>1. walk' \in [Nodes -> Walks]
    <3>1. CASE UNCHANGED walk
      BY <3>1 DEF NodeInv, TypeOK
    <3>2. ASSUME NEW I \in BOOLEAN, NEW p \in 0 .. MaxPackets,
                 walk' = [walk EXCEPT ![n] = NewFrame(I, p)]
          PROVE  walk' \in [Nodes -> Walks]
      <4>1. NewFrame(I, p) \in Walks
        BY BoundAssumption DEF NewFrame, Walks
      <4> QED BY <3>2, <4>1 DEF NodeInv, TypeOK
    <3> QED BY <3>1, <3>2 DEF FrameTaken
  <2>2. spc' \in [Nodes -> TaskPCs]
    <3>1. \/ spc' = [spc EXCEPT ![n] = "top"]
          \/ spc' = [spc EXCEPT ![n] = "pack"]
      BY DEF FrameTaken, Goto
    <3> QED BY <3>1 DEF NodeInv, TypeOK, TaskPCs
  <2> QED BY <2>1, <2>2
      DEF NodeInv, TypeOK, FrameTaken, loopVars, nodeVars, clientVars
<1>2. /\ spc[n] = "pop" /\ spc'[n] \in {"top", "pack"}
      /\ \A m \in Nodes : m # n => spc'[m] = spc[m] /\ walk'[m] = walk[m]
  BY DEF NodeInv, TypeOK, FrameTaken, Goto
<1>3. WalkInv(n)'
  BY <1>2 DEF WalkInv, Walking
<1>4. lock # n
  BY <1>2 DEF NodeInv, FlagInv, Freeing
<1>5. UNCHANGED <<lock, loopVars, nodeVars, getFlag, sendFlag, rlen, list, victim>>
  BY DEF FrameTaken
<1> QED
  BY <1>1, <1>2, <1>3, <1>4, <1>5, SendingStep
  DEF NodeInv, TypeOK, Sending, loopVars, nodeVars

LEMMA PackFrameInv ==
  ASSUME NEW n \in Nodes, NodeInv, PackFrame(n)
  PROVE  NodeInv'
<1>1. /\ spc[n] = "pack" /\ spc' = [spc EXCEPT ![n] = "packet"]
      /\ walk' = [walk EXCEPT ![n] = [@ EXCEPT !.size = Len(list[n])]]
      /\ UNCHANGED <<lock, loopVars, nodeVars, getFlag, sendFlag, rlen, list,
                     clientVars, hangup, victim>>
  BY DEF PackFrame, Goto
<1>2. /\ spc' \in [Nodes -> TaskPCs] /\ spc'[n] = "packet"
      /\ walk' \in [Nodes -> Walks] /\ walk'[n].size = Len(list[n])
      /\ \A m \in Nodes : m # n => spc'[m] = spc[m] /\ walk'[m] = walk[m]
  <2>1. walk[n] \in Walks /\ Len(list[n]) \in Nat
    BY DEF NodeInv, TypeOK
  <2>2. [walk[n] EXCEPT !.size = Len(list[n])] \in Walks
    BY <2>1 DEF Walks
  <2>3. [walk[n] EXCEPT !.size = Len(list[n])].size = Len(list[n])
    BY <2>1 DEF Walks
  <2>4. walk \in [Nodes -> Walks] /\ spc \in [Nodes -> TaskPCs]
    BY DEF NodeInv, TypeOK
  <2> QED BY <1>1, <2>2, <2>3, <2>4 DEF TaskPCs
<1>3. TypeOK'
  BY <1>1, <1>2 DEF NodeInv, TypeOK, loopVars, nodeVars, clientVars
<1>4. WalkInv(n)'
  <2>1. Len(list[n]) \in Nat
    BY DEF NodeInv, TypeOK
  <2> QED BY <1>1, <1>2, <2>1 DEF WalkInv, Walking
<1>5. lock # n
  BY <1>1 DEF NodeInv, FlagInv, Freeing
<1> QED
  BY <1>1, <1>2, <1>3, <1>4, <1>5, SendingStep DEF NodeInv, Sending, loopVars, nodeVars

LEMMA NextPacketInv ==
  ASSUME NEW n \in Nodes, NodeInv, NextPacket(n)
  PROVE  NodeInv'
<1> DEFINE w == walk[n]
<1>1. /\ spc[n] = "packet" /\ w \in Walks /\ walk \in [Nodes -> Walks]
      /\ spc \in [Nodes -> TaskPCs] /\ lock # n /\ w.size <= Len(list[n])
      /\ UNCHANGED <<lock, loopVars, nodeVars, getFlag, sendFlag, rlen, list,
                     clientVars, hangup, victim>>
  BY DEF NodeInv, TypeOK, NextPacket, FlagInv, WalkInv, Freeing
<1>2. /\ spc' \in [Nodes -> TaskPCs] /\ walk' \in [Nodes -> Walks]
      /\ spc'[n] \in {"top", "visit"}
      /\ spc'[n] = "visit" =>
           walk'[n].i = 0 /\ walk'[n].left = w.size /\ walk'[n].size = w.size
      /\ \A m \in Nodes : m # n => spc'[m] = spc[m] /\ walk'[m] = walk[m]
  <2>1. CASE w.pkts = 0
    BY <1>1, <2>1 DEF NextPacket, Goto, TaskPCs
  <2>2. CASE w.pkts # 0
    <3>1. FromFirst(w) \in Walks
      <4>1. w.pkts - 1 \in Nat /\ w.size \in Nat
        BY <1>1, <2>2 DEF Walks
      <4> QED BY <1>1, <4>1 DEF FromFirst, Walks
    <3>2. /\ FromFirst(w).i = 0 /\ FromFirst(w).left = w.size
          /\ FromFirst(w).size = w.size
      BY <1>1 DEF FromFirst, Walks
    <3>3. /\ walk' = [walk EXCEPT ![n] = FromFirst(w)]
          /\ spc' = [spc EXCEPT ![n] = "visit"]
      BY <2>2 DEF NextPacket, Goto
    <3> QED BY <1>1, <3>1, <3>2, <3>3 DEF TaskPCs
  <2> QED BY <2>1, <2>2
<1>3. TypeOK'
  BY <1>1, <1>2 DEF NodeInv, TypeOK, loopVars, nodeVars, clientVars
<1>4. WalkInv(n)'
  BY <1>1, <1>2 DEF WalkInv, Walking, Walks
<1> QED
  BY <1>1, <1>2, <1>3, <1>4, SendingStep DEF NodeInv, Sending, loopVars, nodeVars

\* A step of the walk: past the end, to a flagged client, or over one.
LEMMA VisitClientInv ==
  ASSUME NEW n \in Nodes, NodeInv, VisitClient(n)
  PROVE  NodeInv'
<1> DEFINE w == walk[n]
           c == list[n][w.i + 1]
<1>1. /\ spc[n] = "visit" /\ w \in Walks /\ walk \in [Nodes -> Walks]
      /\ spc \in [Nodes -> TaskPCs] /\ lock # n /\ list[n] \in Seq(Clients)
      /\ victim \in [Nodes -> Clients \cup {Nil}] /\ iframe \in [Clients -> BOOLEAN]
      /\ w.size <= Len(list[n]) /\ w.i + w.left = w.size
      /\ UNCHANGED <<lock, loopVars, nodeVars, getFlag, sendFlag, rlen, list,
                     nClients, call, cstate, del, timer, listen, hangup>>
  BY DEF NodeInv, TypeOK, VisitClient, FlagInv, WalkInv, Freeing, Walking
<1>2. w.left > 0 => c \in Clients
  BY <1>1 DEF Walks
<1> HIDE DEF c
<1>3. \/ /\ spc' = [spc EXCEPT ![n] = "packet"]
         /\ UNCHANGED <<iframe, walk, victim>>
      \/ /\ w.left > 0 /\ spc' = [spc EXCEPT ![n] = "unlist"]
         /\ victim' = [victim EXCEPT ![n] = c]
         /\ UNCHANGED <<iframe, walk>>
      \/ /\ w.left > 0 /\ UNCHANGED <<spc, victim>>
         /\ iframe' = [iframe EXCEPT ![c] = @ \/ w.I]
         /\ walk' = [walk EXCEPT ![n] = [w EXCEPT !.i = @ + 1, !.left = @ - 1]]
  BY DEF VisitClient, Goto, taskVars, c
<1>4. /\ spc' \in [Nodes -> TaskPCs] /\ walk' \in [Nodes -> Walks]
      /\ victim' \in [Nodes -> Clients \cup {Nil}] /\ iframe' \in [Clients -> BOOLEAN]
      /\ \A m \in Nodes : m # n =>
           spc'[m] = spc[m] /\ walk'[m] = walk[m] /\ victim'[m] = victim[m]
      /\ spc'[n] \in {"packet", "visit", "unlist"}
      /\ WalkInv(n)'
  <2>1. CASE spc' = [spc EXCEPT ![n] = "packet"] /\ UNCHANGED <<iframe, walk, victim>>
    BY <1>1, <2>1 DEF TaskPCs, WalkInv, Walking
  <2>2. CASE /\ w.left > 0 /\ spc' = [spc EXCEPT ![n] = "unlist"]
             /\ victim' = [victim EXCEPT ![n] = c]
             /\ UNCHANGED <<iframe, walk>>
    <3>1. spc'[n] = "unlist" /\ victim'[n] = c /\ c \in Clients /\ list'[n][walk'[n].i + 1] = c
      BY <1>1, <1>2, <2>2 DEF c
    <3> QED BY <1>1, <2>2, <3>1 DEF TaskPCs, WalkInv, Walking
  <2>3. CASE /\ w.left > 0 /\ UNCHANGED <<spc, victim>>
             /\ iframe' = [iframe EXCEPT ![c] = @ \/ w.I]
             /\ walk' = [walk EXCEPT ![n] = [w EXCEPT !.i = @ + 1, !.left = @ - 1]]
    <3> DEFINE v == [w EXCEPT !.i = @ + 1, !.left = @ - 1]
    <3>1. v \in Walks /\ v.i = w.i + 1 /\ v.left = w.left - 1 /\ v.size = w.size
      <4>1. w.i + 1 \in Nat /\ w.left - 1 \in Nat
        BY <1>1, <2>3 DEF Walks
      <4> QED BY <1>1, <4>1 DEF Walks
    <3>2. v.i + v.left = v.size
      BY <1>1, <3>1 DEF Walks
    <3>3. w.I \in BOOLEAN /\ iframe[c] \in BOOLEAN
      BY <1>1, <1>2, <2>3 DEF Walks
    <3> HIDE DEF v
    <3>4. walk' = [walk EXCEPT ![n] = v]
      BY <2>3 DEF v
    <3>5. iframe' \in [Clients -> BOOLEAN]
      BY <1>1, <2>3, <3>3
    <3> QED BY <1>1, <2>3, <3>1, <3>2, <3>4, <3>5 DEF WalkInv, Walking
  <2> QED BY <1>3, <2>1, <2>2, <2>3
<1>5. TypeOK'
  BY <1>1, <1>4 DEF NodeInv, TypeOK, loopVars, nodeVars
<1> QED
  BY <1>1, <1>4, <1>5, SendingStep DEF NodeInv, Sending, loopVars, nodeVars

\* list_delete takes the client the walk stands on, and only that one.
LEMMA UnlistClientInv ==
  ASSUME NEW n \in Nodes, NodeInv, UnlistClient(n)
  PROVE  NodeInv'
<1> DEFINE w == walk[n]
           c == victim[n]
           p == Locate(n, c)
<1>1. /\ spc[n] = "unlist" /\ w \in Walks /\ lock = Free /\ lock # n
      /\ spc \in [Nodes -> TaskPCs] /\ list \in [Nodes -> Seq(Clients)]
      /\ list[n] \in Seq(Clients) /\ c \in Clients /\ list[n][w.i + 1] = c
      /\ w.size <= Len(list[n]) /\ w.i + w.left = w.size /\ w.left > 0
  BY DEF NodeInv, TypeOK, UnlistClient, WalkInv, Walking, Free, Nodes
<1>2. /\ spc' = [spc EXCEPT ![n] = "untimer"]
      /\ list' = [list EXCEPT ![n] = RemoveAt(@, p)]
      /\ cstate' = [cstate EXCEPT ![c] = "detached"]
      /\ UNCHANGED <<lock, loopVars, nodeVars, getFlag, sendFlag, rlen, nClients,
                     call, del, iframe, timer, listen, hangup, walk, victim>>
  BY DEF UnlistClient, Goto, taskVars
<1>3. p \in 1 .. Len(list[n])
  <2>1. w.i + 1 \in 1 .. Len(list[n])
    BY <1>1 DEF Walks
  <2> QED BY <1>1, <2>1 DEF Locate
<1> HIDE DEF p
<1>4. /\ list' \in [Nodes -> Seq(Clients)]
      /\ Len(list'[n]) = Len(list[n]) - 1
      /\ \A m \in Nodes : m # n => list'[m] = list[m]
  <2>1. RemoveAt(list[n], p) \in Seq(Clients)
        /\ Len(RemoveAt(list[n], p)) = Len(list[n]) - 1
    BY <1>1, <1>3, RemoveAtFacts
  <2> QED BY <1>1, <1>2, <2>1
<1>5. /\ spc' \in [Nodes -> TaskPCs] /\ spc'[n] = "untimer"
      /\ \A m \in Nodes : m # n => spc'[m] = spc[m]
  BY <1>1, <1>2 DEF TaskPCs
<1>6. TypeOK'
  BY <1>1, <1>2, <1>4, <1>5 DEF NodeInv, TypeOK, loopVars, nodeVars
<1>7. WalkInv(n)'
  <2>1. Len(list[n]) \in Nat
    BY <1>1
  <2> QED BY <1>1, <1>2, <1>4, <1>5, <2>1 DEF WalkInv, Walking, Walks
<1> QED
  BY <1>1, <1>2, <1>4, <1>5, <1>6, <1>7, SendingStep
  DEF NodeInv, Sending, loopVars, nodeVars

\* Taking down a client, for a walk or for destory_client_list.
LEMMA StopTimerInv ==
  ASSUME NEW n \in Nodes, NodeInv, StopTimer(n)
  PROVE  NodeInv'
<1> USE DEF NodeInv, StopTimer, Goto, loopVars, nodeVars, taskVars
<1>1. /\ spc[n] = "untimer" /\ spc' \in [Nodes -> TaskPCs]
      /\ \A m \in Nodes : spc'[m] = IF m = n THEN "unlisten" ELSE spc[m]
  BY DEF TypeOK, TaskPCs
<1>2. timer' \in [Clients -> BOOLEAN]
  BY DEF TypeOK
<1>3. TypeOK'
  BY <1>1, <1>2 DEF TypeOK
<1>4. LoopInv'
  BY <1>1 DEF LoopInv, TypeOK, NodeLoopPCs, LoopPCs
<1>5. ASSUME NEW m \in Nodes PROVE AllocInv(m)' /\ FlagInv(m)'
  BY <1>1 DEF AllocInv, FlagInv, Open, Freeing
<1>6. ASSUME NEW m \in Nodes PROVE IdleInv(m)' /\ WalkInv(m)'
  BY <1>1 DEF IdleInv, WalkInv, Walking
<1> QED BY <1>3, <1>4, <1>5, <1>6

LEMMA FreeClientInv ==
  ASSUME NEW n \in Nodes, NodeInv, FreeClient(n)
  PROVE  NodeInv'
<1> DEFINE w == walk[n]
<1>1. /\ spc[n] = "unlisten" /\ w \in Walks /\ list[n] \in Seq(Clients)
      /\ spc \in [Nodes -> TaskPCs] /\ walk \in [Nodes -> Walks]
      /\ victim' = [victim EXCEPT ![n] = Nil]
      /\ cstate' \in [Clients -> {"unused", "listed", "detached", "freed"}]
      /\ listen' \in [Clients -> BOOLEAN]
      /\ UNCHANGED <<lock, loopVars, nodeVars, getFlag, sendFlag, rlen, list,
                     nClients, call, del, iframe, timer, hangup>>
  BY DEF NodeInv, TypeOK, FreeClient
<1>2. /\ victim' \in [Nodes -> Clients \cup {Nil}]
      /\ \A m \in Nodes : m # n => victim'[m] = victim[m]
  BY <1>1 DEF NodeInv, TypeOK
<1>3. CASE lock = n
  <2> USE DEF NodeInv, loopVars, nodeVars
  <2>1. /\ walk' = walk /\ spc' \in [Nodes -> TaskPCs]
        /\ \A m \in Nodes : spc'[m] = IF m = n THEN "drain" ELSE spc[m]
    BY <1>1, <1>3 DEF FreeClient, Goto, TaskPCs
  <2>2. TypeOK'
    BY <1>1, <1>2, <2>1 DEF TypeOK
  <2>3. LoopInv'
    BY <1>1, <2>1 DEF LoopInv, TypeOK, NodeLoopPCs, LoopPCs
  <2>4. ASSUME NEW m \in Nodes PROVE AllocInv(m)' /\ FlagInv(m)'
    BY <1>1, <1>3, <2>1 DEF AllocInv, FlagInv, Open, Freeing
  <2>5. ASSUME NEW m \in Nodes PROVE IdleInv(m)' /\ WalkInv(m)'
    BY <1>1, <1>2, <2>1 DEF IdleInv, WalkInv, Walking
  <2> QED BY <2>2, <2>3, <2>4, <2>5
<1>4. CASE lock # n
  <2>1. /\ w.left > 0 /\ w.i + w.left = w.size /\ w.size - 1 <= Len(list[n])
    BY <1>1, <1>4 DEF NodeInv, WalkInv, Walking
  <2>2. /\ AfterDeletion(w) \in Walks /\ AfterDeletion(w).i = w.i
        /\ AfterDeletion(w).left = w.left - 1 /\ AfterDeletion(w).size = w.size - 1
    <3>1. w.left - 1 \in Nat /\ w.size - 1 \in Nat
      BY <1>1, <2>1 DEF Walks
    <3> QED BY <1>1, <3>1 DEF AfterDeletion, Walks
  <2>3. /\ walk' = [walk EXCEPT ![n] = AfterDeletion(w)]
        /\ spc' = [spc EXCEPT ![n] = "visit"]
    BY <1>4 DEF FreeClient, Goto
  <2>4. /\ spc' \in [Nodes -> TaskPCs] /\ walk' \in [Nodes -> Walks]
        /\ spc'[n] = "visit" /\ walk'[n] = AfterDeletion(w)
        /\ \A m \in Nodes : m # n => spc'[m] = spc[m] /\ walk'[m] = walk[m]
    BY <1>1, <2>2, <2>3 DEF TaskPCs
  <2>5. TypeOK'
    BY <1>1, <1>2, <2>4 DEF NodeInv, TypeOK, loopVars, nodeVars
  <2>6. WalkInv(n)'
    BY <1>1, <2>1, <2>2, <2>4 DEF WalkInv, Walking, Walks
  <2> QED
    BY <1>1, <1>2, <1>4, <2>4, <2>5, <2>6, SendingStep
    DEF NodeInv, Sending, loopVars, nodeVars
<1> QED BY <1>3, <1>4

LEMMA LeaveTaskLoopInv ==
  ASSUME NEW n \in Nodes, NodeInv, LeaveTaskLoop(n)
  PROVE  NodeInv'
<1> USE DEF NodeInv, LeaveTaskLoop, Goto, loopVars, nodeVars, clientVars, taskVars
<1>1. /\ spc[n] = "exit" /\ spc' \in [Nodes -> TaskPCs]
      /\ \A m \in Nodes : spc'[m] = IF m # n THEN spc[m]
                                    ELSE IF sendFlag[n] = 2 THEN "wait" ELSE "lock"
  BY DEF TypeOK, TaskPCs
<1>2. TypeOK'
  BY <1>1 DEF TypeOK
<1>3. LoopInv'
  BY <1>1 DEF LoopInv, TypeOK, NodeLoopPCs, LoopPCs
<1>4. ASSUME NEW m \in Nodes PROVE AllocInv(m)' /\ FlagInv(m)'
  BY <1>1 DEF AllocInv, FlagInv, Open, Freeing
<1>5. ASSUME NEW m \in Nodes PROVE IdleInv(m)' /\ WalkInv(m)'
  BY <1>1 DEF IdleInv, WalkInv, Walking
<1> QED BY <1>2, <1>3, <1>4, <1>5

LEMMA SourceGoneInv ==
  ASSUME NEW n \in Nodes, NodeInv, SourceGone(n)
  PROVE  NodeInv'
<1> USE DEF NodeInv, SourceGone, Goto, loopVars, nodeVars, clientVars, taskVars
<1>1. /\ spc[n] = "wait" /\ spc' \in [Nodes -> TaskPCs]
      /\ \A m \in Nodes : spc'[m] = IF m = n THEN "lock" ELSE spc[m]
  BY DEF TypeOK, TaskPCs
<1>2. TypeOK'
  BY <1>1 DEF TypeOK
<1>3. LoopInv'
  BY <1>1 DEF LoopInv, TypeOK, NodeLoopPCs, LoopPCs
<1>4. ASSUME NEW m \in Nodes PROVE AllocInv(m)' /\ FlagInv(m)'
  BY <1>1 DEF AllocInv, FlagInv, Open, Freeing
<1>5. ASSUME NEW m \in Nodes PROVE IdleInv(m)' /\ WalkInv(m)'
  BY <1>1 DEF IdleInv, WalkInv, Walking
<1> QED BY <1>2, <1>3, <1>4, <1>5

\* From here the task owns the node: the source has let go of it.
LEMMA LockBucketInv ==
  ASSUME NEW n \in Nodes, NodeInv, LockBucket(n)
  PROVE  NodeInv'
<1> USE DEF NodeInv
<1>1. /\ spc[n] = "lock" /\ lock = Free /\ getFlag[n] = 2 /\ n \in heap
      /\ sendFlag[n] # 0 /\ src[n] = "closed"
  BY DEF LockBucket, FlagInv, AllocInv
<1>2. /\ lock' = n /\ table' = table \ {n}
      /\ rlen' \in [Nodes -> 0 .. QueueMax] /\ spc' \in [Nodes -> TaskPCs]
      /\ \A m \in Nodes : m # n => spc'[m] = spc[m] /\ rlen'[m] = rlen[m]
      /\ spc'[n] = "drain" /\ rlen'[n] = 0
      /\ UNCHANGED <<loop, cur, nNodes, heap, key, src, getFlag, sendFlag, list,
                     clientVars, hangup, walk, victim>>
  BY QueueAssumption DEF LockBucket, Goto, TypeOK, TaskPCs, loopVars, taskVars
<1>3. TypeOK'
  BY <1>2 DEF TypeOK, clientVars
<1>4. LoopInv'
  <2>1. loop \in NodeLoopPCs => cur # n
    BY <1>1 DEF LoopInv
  <2> QED BY <1>2, <2>1 DEF LoopInv, TypeOK, NodeLoopPCs, LoopPCs
<1>5. ASSUME NEW m \in Nodes PROVE AllocInv(m)'
  BY <1>1, <1>2 DEF AllocInv, Open, Free, Nodes
<1>6. ASSUME NEW m \in Nodes PROVE FlagInv(m)'
  BY <1>1, <1>2 DEF FlagInv, Freeing, Free, Nodes
<1>7. ASSUME NEW m \in Nodes PROVE IdleInv(m)' /\ WalkInv(m)'
  BY <1>1, <1>2 DEF IdleInv, WalkInv, Walking, Free, Nodes
<1> QED BY <1>3, <1>4, <1>5, <1>6, <1>7

LEMMA DrainClientInv ==
  ASSUME NEW n \in Nodes, NodeInv, DrainClient(n)
  PROVE  NodeInv'
<1> USE DEF NodeInv
<1>1. /\ spc[n] = "drain" /\ lock = n /\ sendFlag[n] # 0
      /\ list[n] \in Seq(Clients) /\ list[n] # <<>>
  BY DEF DrainClient, FlagInv, AllocInv, TypeOK
<1>2. Head(list[n]) \in Clients /\ Tail(list[n]) \in Seq(Clients)
  BY <1>1, HeadTailProperties
<1>3. /\ victim' \in [Nodes -> Clients \cup {Nil}]
      /\ list' \in [Nodes -> Seq(Clients)] /\ spc' \in [Nodes -> TaskPCs]
      /\ victim'[n] \in Clients /\ spc'[n] = "untimer"
      /\ \A m \in Nodes : m # n =>
           spc'[m] = spc[m] /\ list'[m] = list[m] /\ victim'[m] = victim[m]
  BY <1>2 DEF DrainClient, Goto, TypeOK, TaskPCs
<1>4. UNCHANGED <<lock, loop, cur, nNodes, heap, table, key, src, getFlag,
                  sendFlag, rlen, nClients, call, del, iframe, timer, listen,
                  hangup, walk>>
  BY DEF DrainClient, loopVars, nodeVars
<1>5. TypeOK'
  <2>1. cstate' \in [Clients -> {"unused", "listed", "detached", "freed"}]
    BY DEF DrainClient, TypeOK
  <2> QED BY <1>3, <1>4, <2>1 DEF TypeOK
<1>6. LoopInv'
  BY <1>1, <1>3, <1>4 DEF LoopInv, TypeOK, NodeLoopPCs, LoopPCs
<1>7. ASSUME NEW m \in Nodes PROVE AllocInv(m)' /\ FlagInv(m)'
  BY <1>1, <1>3, <1>4, SMTT(30) DEF AllocInv, FlagInv, Open, Freeing
<1>8. ASSUME NEW m \in Nodes PROVE IdleInv(m)' /\ WalkInv(m)'
  BY <1>1, <1>3, <1>4 DEF IdleInv, WalkInv, Walking
<1> QED BY <1>5, <1>6, <1>7, <1>8

\* The one free of the node.
LEMMA FreeNodeInv ==
  ASSUME NEW n \in Nodes, NodeInv, FreeNode(n)
  PROVE  NodeInv'
<1> USE DEF NodeInv
<1>1. /\ spc[n] = "drain" /\ lock = n /\ getFlag[n] = 2 /\ n \in heap
      /\ sendFlag[n] # 0 /\ src[n] = "closed" /\ n \notin table
  BY DEF FreeNode, FlagInv, AllocInv
<1>2. /\ lock' = Free /\ heap' = heap \ {n} /\ spc' \in [Nodes -> TaskPCs]
      /\ \A m \in Nodes : spc'[m] = IF m = n THEN "done" ELSE spc[m]
      /\ UNCHANGED <<loop, cur, nNodes, table, key, src, getFlag, sendFlag,
                     rlen, list, clientVars, hangup, walk, victim>>
  BY DEF FreeNode, Goto, TypeOK, TaskPCs, loopVars, taskVars
<1>3. TypeOK'
  BY <1>2 DEF TypeOK, clientVars
<1>4. LoopInv'
  <2>1. loop \in NodeLoopPCs => cur # n
    BY <1>1 DEF LoopInv
  <2> QED BY <1>2, <2>1 DEF LoopInv, TypeOK, NodeLoopPCs, LoopPCs
<1>5. ASSUME NEW m \in Nodes PROVE AllocInv(m)'
  BY <1>1, <1>2 DEF AllocInv, FlagInv, Open, Free, Nodes
<1>6. ASSUME NEW m \in Nodes PROVE FlagInv(m)'
  BY <1>1, <1>2 DEF FlagInv, Freeing, Free, Nodes
<1>7. ASSUME NEW m \in Nodes PROVE IdleInv(m)' /\ WalkInv(m)'
  BY <1>1, <1>2 DEF IdleInv, WalkInv, Walking, Free, Nodes
<1> QED BY <1>3, <1>4, <1>5, <1>6, <1>7

-----------------------------------------------------------------------------
(***************************************************************************)
(* The theorems.                                                           *)
(***************************************************************************)

\* Every step of the loop and of every task preserves the invariant.
LEMMA NodeInvNext == NodeInv /\ [Next]_vars => NodeInv'
<1> SUFFICES ASSUME NodeInv, [Next]_vars PROVE NodeInv'
  OBVIOUS
<1>1. CASE Request
  BY <1>1, PlayInv, StopInv DEF Request
<1>2. CASE RtcpEvent
  BY <1>2, RtcpTimerInv, RtcpTimeoutInv DEF RtcpEvent
<1>3. CASE SipHangup
  BY <1>3, SipHangupInv
<1>4. CASE LoopStep
  BY <1>4, QueueTaskInv, SetSendFlagInv, PushFrameInv, FreeUnstartedInv,
     HandOverUnderLockInv, DisableClientsInv, HandOverInv, RtcpTimerEndInv,
     RtcpTimeoutEndInv
  DEF LoopStep
<1>5. ASSUME NEW n \in Nodes, SourceEvent(n) PROVE NodeInv'
  BY <1>5, SourceConnectedInv, SourceAcceptedInv, SourceRefusedInv,
     SourceErrorInv, RecvFrameInv
  DEF SourceEvent
<1>6. ASSUME NEW n \in Nodes, Task(n) PROVE NodeInv'
  BY <1>6, StartTaskInv, CheckSourceInv, CheckClientsInv, QuitInv, TakeFrameInv,
     FrameTakenInv, PackFrameInv, NextPacketInv, VisitClientInv,
     UnlistClientInv, StopTimerInv, FreeClientInv, LeaveTaskLoopInv,
     SourceGoneInv, LockBucketInv, DrainClientInv, FreeNodeInv
  DEF Task
<1>7. CASE UNCHANGED vars
  <2>1. TypeOK'
    BY <1>7 DEF NodeInv, TypeOK, vars, loopVars, nodeVars, clientVars, taskVars
  <2> QED BY <1>7, <2>1, ClientStep DEF vars
<1> QED BY <1>1, <1>2, <1>3, <1>4, <1>5, <1>6, <1>7 DEF Next

\* NodeInv holds in every reachable state, whatever the constants.
THEOREM Inductive == Spec => []NodeInv
<1>1. Init => NodeInv
  BY NodeInvInit
<1>2. NodeInv /\ [Next]_vars => NodeInv'
  BY NodeInvNext
<1> QED BY <1>1, <1>2, PTL DEF Spec

\* Every variable keeps its type.
THEOREM TypeCorrect == Spec => []TypeOK
<1>1. NodeInv => TypeOK
  BY DEF NodeInv
<1> QED BY <1>1, Inductive, PTL

\* send_av_data.c:475-494 and get_frame_from_hbserver.c:235-322: a node is
\* freed by the loop or by its task, once, and nobody uses it afterwards.
THEOREM NodeSafety == Spec => []NodeSafe
<1>1. NodeInv => NodeSafe
  <2> SUFFICES ASSUME NodeInv PROVE NodeSafe
    OBVIOUS
  <2>1. table \subseteq heap
    BY DEF NodeInv, TypeOK, AllocInv
  <2>2. loop \in NodeLoopPCs => cur \in heap
    BY <2>1 DEF NodeInv, LoopInv
  <2>3. ASSUME NEW n \in Nodes
        PROVE  /\ src[n] \in {"connecting", "cmd", "stream"} => n \in heap
               /\ spc[n] \notin {"none", "done"} => n \in heap
    BY DEF NodeInv, AllocInv, Open
  <2> QED BY <2>1, <2>2, <2>3 DEF NodeSafe
<1> QED BY <1>1, Inductive, PTL

\* get_frame_from_hbserver.c:145-172: one task per node, although its flag is
\* stored after the task is queued.
THEOREM OneTaskPerNode == Spec => []StartHandshake
<1>1. NodeInv => StartHandshake
  BY DEF NodeInv, LoopInv, StartHandshake
<1> QED BY <1>1, Inductive, PTL

\* Every allocated node is in the table or being freed, and every node whose
\* source is gone has somebody who will free it.
THEOREM NodesAreFound == Spec => []NoOrphan
<1>1. NodeInv => NoOrphan
  <2> SUFFICES ASSUME NodeInv, NEW n \in heap
               PROVE  /\ n \in table \/ lock = n
                      /\ \/ src[n] # "closed"
                         \/ loop \in {"broke", "error", "getflag"} /\ cur = n
                         \/ spc[n] \notin {"none", "done"}
    BY DEF NoOrphan
  <2>1. n \in Nodes
    BY DEF NodeInv, TypeOK
  <2> QED BY <2>1 DEF NodeInv, AllocInv, FlagInv
<1> QED BY <1>1, Inductive, PTL

\* rtp_pack.c:497-522: the walk over the clients never leaves the list.
THEOREM WalkIsInBounds == Spec => []WalkInBounds
<1>1. NodeInv => WalkInBounds
  <2> SUFFICES ASSUME NodeInv, NEW n \in Nodes
               PROVE  /\ spc[n] \in {"packet", "visit", "unlist"} =>
                           walk[n].size <= Len(list[n])
                      /\ spc[n] \in {"visit", "unlist"} =>
                           walk[n].i + walk[n].left = walk[n].size
    BY DEF WalkInBounds
  <2> QED BY DEF NodeInv, WalkInv, FlagInv, Walking, Freeing
<1> QED BY <1>1, Inductive, PTL
=============================================================================
