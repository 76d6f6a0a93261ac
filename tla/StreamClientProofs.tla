------------------------- MODULE StreamClientProofs -------------------------
(***************************************************************************)
(* Theorems about the clients of StreamNode, for any number of calls,      *)
(* streams, nodes and clients: StreamInv, which adds to NodeInv where each *)
(* client is and which events may be pending on it, is inductive, and with *)
(* it no event, no callback and no task uses a freed client, and a call    *)
(* has one client in the one node of its stream.                           *)
(***************************************************************************)
EXTENDS StreamNodeProofs, SequenceFacts

\* The invariant holds before the first request.
LEMMA ClientInvInit == Init => ClientInv /\ KeyInv
<1> SUFFICES ASSUME Init PROVE ClientInv /\ KeyInv
  OBVIOUS
<1> USE DEF Init
<1>1. ASSUME NEW n \in Nodes PROVE MemberInv(n) /\ VictimInv(n)
  <2>1. list[n] = <<>> /\ victim[n] = Nil /\ spc[n] = "none"
    OBVIOUS
  <2>2. IsInjective(<<>>) /\ ToSet(<<>>) = {}
    BY DEF IsInjective, ToSet
  <2> QED BY <2>1, <2>2 DEF MemberInv, VictimInv, Members, TearDown
<1>2. ASSUME NEW c \in Clients PROVE EventInv(c)
  BY DEF EventInv
<1> QED BY <1>1, <1>2 DEF ClientInv, CallbackInv, KeyInv

\* Steps that leave clients, lists and the removal of a client alone.
LEMMA QuietStep ==
  ASSUME NodeInv, ClientInv,
         UNCHANGED <<list, nClients, call, cstate, timer, listen, victim>>,
         loop' \notin {"timer", "rtcp"} \/ UNCHANGED <<loop, cur>>,
         \A m \in Nodes :
           \/ spc'[m] = spc[m]
           \/ /\ spc[m] \notin {"unlist"} \cup TearDown
              /\ spc'[m] \notin TearDown,
         \A m \in Nodes : m \notin heap' => m \notin heap \/ list[m] = <<>>
  PROVE  ClientInv'
<1> USE DEF ClientInv
<1>1. \A m \in Nodes : spc[m] \in TearDown <=> spc'[m] \in TearDown
  BY DEF TearDown
<1>2. \A m \in Nodes : spc[m] = "untimer" <=> spc'[m] = "untimer"
  BY DEF TearDown
<1>3. ASSUME NEW m \in Nodes PROVE MemberInv(m)'
  BY DEF MemberInv, Members
<1>4. ASSUME NEW m \in Nodes PROVE VictimInv(m)'
  <2>1. victim'[m] # Nil => spc'[m] \in {"unlist"} \cup TearDown
    <3>1. CASE spc'[m] = spc[m]
      BY <3>1 DEF VictimInv
    <3>2. CASE spc'[m] # spc[m]
      BY <3>2 DEF VictimInv
    <3> QED BY <3>1, <3>2
  <2> QED BY <1>1, <2>1 DEF VictimInv
<1>5. \A c : (Held(c, TearDown)' <=> Held(c, TearDown))
            /\ (Held(c, {"untimer"})' <=> Held(c, {"untimer"}))
  BY <1>1, <1>2 DEF Held
<1>6. ASSUME NEW c \in Clients PROVE EventInv(c)'
  BY <1>5 DEF EventInv
<1>7. CallbackInv'
  <2>1. CASE UNCHANGED <<loop, cur>>
    BY <1>5, <2>1 DEF CallbackInv
  <2>2. CASE loop' \notin {"timer", "rtcp"}
    BY <2>2 DEF CallbackInv
  <2> QED BY <2>1, <2>2
<1> QED BY <1>3, <1>4, <1>6, <1>7

\* A listed client is allocated and nobody is tearing it down.
LEMMA ListedClient ==
  ASSUME NodeInv, ClientInv, NEW n \in Nodes, NEW c \in Members(n)
  PROVE  /\ c \in Clients /\ cstate[c] = "listed" /\ ~(c > nClients)
         /\ ~Held(c, TearDown) /\ ~Held(c, {"untimer"})
<1>1. c \in Clients
  BY DEF NodeInv, TypeOK, Members, ToSet
<1>2. cstate[c] = "listed"
  BY DEF ClientInv, MemberInv
<1> QED BY <1>1, <1>2 DEF ClientInv, EventInv, VictimInv, Held, TearDown

-----------------------------------------------------------------------------
\* PLAY makes a client that nobody knew.
LEMMA PlayClients ==
  ASSUME NodeInv, ClientInv, NEW k \in Calls, Play(k)
  PROVE  ClientInv'
<1>1. PICK n \in Nodes :
        /\ loop = "idle" /\ AddClient(n, k) /\ InsertNode(n, k)
        /\ UNCHANGED <<loop, cur, listen, spc, victim>>
  BY DEF Play, LoopIdle, loopVars, taskVars
<1>2. heap' = heap \cup {n}
  <2>1. n \in table => n \in heap
    BY <1>1 DEF NodeInv, AllocInv
  <2> QED BY <1>1, <2>1 DEF InsertNode
<1>3. CASE HasClient(n, k)
  <2>1. UNCHANGED <<list, nClients, call, cstate, timer>>
    BY <1>1, <1>3 DEF AddClient
  <2> QED BY <1>1, <1>2, <2>1, QuietStep
<1>4. CASE ~HasClient(n, k)
  <2>1. PICK c \in Clients :
        /\ c = nClients + 1 /\ nClients' = c
        /\ call' = [call EXCEPT ![c] = k]
        /\ cstate' = [cstate EXCEPT ![c] = "listed"]
        /\ timer' = [timer EXCEPT ![c] = TRUE]
        /\ list' = [list EXCEPT ![n] = Append(@, c)]
    BY <1>1, <1>4 DEF AddClient
  <2>2. /\ nClients \in Nat /\ c > nClients /\ c \in Nat
        /\ list \in [Nodes -> Seq(Clients)]
        /\ call \in [Clients -> Calls \cup {None}]
        /\ cstate \in [Clients -> {"unused", "listed", "detached", "freed"}]
        /\ timer \in [Clients -> BOOLEAN]
    BY <2>1 DEF NodeInv, TypeOK
  <2>3. cstate[c] = "unused"
    BY <2>1, <2>2 DEF ClientInv, EventInv
  <2>4. \A m \in Nodes : c \notin Members(m)
    BY <2>3 DEF ClientInv, MemberInv
  <2>5. /\ Members(n)' = Members(n) \cup {c}
        /\ IsInjective(list'[n])
    <3>1. list[n] \in Seq(Clients) /\ list'[n] = Append(list[n], c)
          /\ IsInjective(list[n]) /\ c \notin ToSet(list[n])
      BY <1>1, <2>1, <2>2, <2>4 DEF ClientInv, MemberInv, Members
    <3>2. /\ ToSet(Append(list[n], c)) = ToSet(list[n]) \cup {c}
          /\ IsInjective(Append(list[n], c))
      BY <3>1, <2>1, AppendElems
    <3> QED BY <3>1, <3>2 DEF Members
  <2>6. \A m \in Nodes \ {n} : list'[m] = list[m] /\ Members(m)' = Members(m)
    BY <2>1, <2>2 DEF Members
  <2>7. \A d \in Clients \ {c} : cstate'[d] = cstate[d] /\ call'[d] = call[d]
                                /\ timer'[d] = timer[d]
    BY <2>1, <2>2
  <2>8. cstate'[c] = "listed" /\ call'[c] = k
    BY <2>1, <2>2
  <2>9. \A m \in Nodes : \A d \in Members(m) : d \in Clients \ {c}
    BY <2>4, ListedClient
  <2>10. ASSUME NEW m \in Nodes PROVE MemberInv(m)'
    <3>1. IsInjective(list'[m])
      BY <2>5, <2>6 DEF ClientInv, MemberInv
    <3>2. \A d \in Members(m)' : cstate'[d] = "listed"
      BY <2>5, <2>6, <2>7, <2>8, <2>9 DEF ClientInv, MemberInv
    <3>3. \A l \in Nodes : l # m => Members(l)' \cap Members(m)' = {}
      BY <1>1, <2>4, <2>5, <2>6 DEF ClientInv, MemberInv
    <3>4. \A d, e \in Members(m)' : call'[d] = call'[e] => d = e
      <4>1. CASE m # n
        BY <4>1, <2>6, <2>7, <2>9 DEF ClientInv, MemberInv
      <4>2. CASE m = n
        <5>1. \A d \in Members(n) : call'[d] = call[d] /\ call[d] # k
          BY <1>4, <1>1, <2>7, <2>9 DEF HasClient
        <5> QED BY <4>2, <5>1, <1>1, <2>5, <2>8 DEF ClientInv, MemberInv
      <4> QED BY <4>1, <4>2
    <3>5. m \notin heap' => list'[m] = <<>>
      BY <1>2, <2>6 DEF ClientInv, MemberInv
    <3> QED BY <3>1, <3>2, <3>3, <3>4, <3>5 DEF MemberInv
  <2>11. \A m \in Nodes : spc[m] \in TearDown =>
            victim[m] \in Clients \ {c}
    <3> SUFFICES ASSUME NEW m \in Nodes, spc[m] \in TearDown
                 PROVE  victim[m] \in Clients \ {c}
      OBVIOUS
    <3>1. cstate[victim[m]] = "detached"
      BY DEF ClientInv, VictimInv
    <3>2. victim[m] \in Clients
      BY DEF NodeInv, WalkInv, Walking, TearDown
    <3> QED BY <3>1, <3>2, <2>3
  <2>12. ASSUME NEW m \in Nodes PROVE VictimInv(m)'
    BY <1>1, <2>7, <2>11 DEF ClientInv, VictimInv
  <2>13. ASSUME NEW d \in Clients PROVE EventInv(d)'
    <3>1. CASE d = c
      BY <3>1, <2>1, <2>2, <2>8 DEF EventInv
    <3>2. CASE d # c
      <4>1. d > nClients' => d > nClients
        BY <2>1, <2>2, BoundAssumption DEF Clients
      <4> QED BY <3>2, <4>1, <1>1, <2>7 DEF ClientInv, EventInv, Held
    <3> QED BY <3>1, <3>2
  <2>14. CallbackInv'
    BY <1>1 DEF CallbackInv
  <2> QED BY <2>10, <2>12, <2>13, <2>14 DEF ClientInv
<1> QED BY <1>3, <1>4

\* The loop frees a node with its clients: none of them is being removed.
LEMMA DestroyNodeClients ==
  ASSUME NodeInv, ClientInv, NEW n \in Nodes, DestroyNode(n)
  PROVE  ClientInv'
<1>1. /\ loop' = "idle" /\ heap' = heap \ {n}
      /\ cstate' = [c \in Clients |->
                      IF c \in Members(n) THEN "freed" ELSE cstate[c]]
      /\ timer' = [c \in Clients |-> c \notin Members(n) /\ timer[c]]
      /\ listen' = [c \in Clients |-> c \notin Members(n) /\ listen[c]]
      /\ list' = [list EXCEPT ![n] = <<>>]
      /\ UNCHANGED <<nClients, call, spc, victim>>
  BY DEF DestroyNode, LeaveLoop, taskVars
<1>2. list'[n] = <<>> /\ Members(n)' = {} /\ IsInjective(list'[n])
  <2>1. list'[n] = <<>>
    BY <1>1 DEF NodeInv, TypeOK
  <2> QED BY <2>1 DEF Members, ToSet, IsInjective
<1>3. \A m \in Nodes \ {n} : list'[m] = list[m] /\ Members(m)' = Members(m)
  BY <1>1 DEF NodeInv, TypeOK, Members
<1>4. ASSUME NEW m \in Nodes PROVE MemberInv(m)'
  <2>1. CASE m = n
    BY <2>1, <1>2, <1>3 DEF MemberInv
  <2>2. CASE m # n
    <3>1. \A c \in Members(m) : cstate'[c] = "listed"
      <4> SUFFICES ASSUME NEW c \in Members(m) PROVE cstate'[c] = "listed"
        OBVIOUS
      <4>1. c \notin Members(n) /\ c \in Clients /\ cstate[c] = "listed"
        BY <2>2, ListedClient DEF ClientInv, MemberInv
      <4> QED BY <4>1, <1>1
    <3> QED BY <2>2, <3>1, <1>1, <1>2, <1>3 DEF ClientInv, MemberInv
  <2> QED BY <2>1, <2>2
<1>5. ASSUME NEW m \in Nodes PROVE VictimInv(m)'
  <2>1. ASSUME spc[m] \in TearDown PROVE cstate'[victim[m]] = cstate[victim[m]]
    <3>1. victim[m] \in Clients /\ cstate[victim[m]] = "detached"
      BY <2>1 DEF NodeInv, ClientInv, VictimInv, WalkInv, Walking, TearDown
    <3>2. victim[m] \notin Members(n)
      BY <3>1, ListedClient
    <3> QED BY <3>1, <3>2, <1>1
  <2> QED BY <2>1, <1>1 DEF ClientInv, VictimInv
<1>6. ASSUME NEW c \in Clients PROVE EventInv(c)'
  <2>1. CASE c \in Members(n)
    BY <2>1, <1>1, ListedClient DEF EventInv
  <2>2. CASE c \notin Members(n)
    BY <2>2, <1>1 DEF ClientInv, EventInv, Held
  <2> QED BY <2>1, <2>2
<1>7. CallbackInv'
  BY <1>1 DEF CallbackInv
<1> QED BY <1>4, <1>5, <1>6, <1>7 DEF ClientInv

LEMMA SourceRefusedClients ==
  ASSUME NodeInv, ClientInv, NEW n \in Nodes, SourceRefused(n)
  PROVE  ClientInv'
BY DestroyNodeClients DEF SourceRefused

LEMMA FreeUnstartedClients ==
  ASSUME NodeInv, ClientInv, FreeUnstarted
  PROVE  ClientInv'
<1>1. cur \in Nodes /\ DestroyNode(cur)
  BY DEF NodeInv, TypeOK, NodeLoopPCs, LoopPCs, FreeUnstarted
<1> QED BY <1>1, DestroyNodeClients

-----------------------------------------------------------------------------
\* The RTCP callbacks of a client.

\* Lists and removals stay as they are.
LEMMA SameLists ==
  ASSUME ClientInv,
         UNCHANGED <<list, heap, nClients, call, cstate, spc, victim>>
  PROVE  /\ \A m \in Nodes : MemberInv(m)' /\ VictimInv(m)'
         /\ \A c, pcs : Held(c, pcs)' <=> Held(c, pcs)
<1>1. ASSUME NEW m \in Nodes PROVE MemberInv(m)' /\ VictimInv(m)'
  BY DEF ClientInv, MemberInv, VictimInv, Members
<1>2. ASSUME NEW c, NEW pcs PROVE Held(c, pcs)' <=> Held(c, pcs)
  BY DEF Held
<1> QED BY <1>1, <1>2

LEMMA RtcpTimerClients ==
  ASSUME NodeInv, ClientInv, NEW c \in Clients, RtcpTimer(c)
  PROVE  ClientInv'
<1>1. /\ timer[c] /\ loop' = "timer" /\ cur' = c
      /\ UNCHANGED <<list, heap, nClients, call, cstate, spc, victim, timer,
                     listen>>
  BY DEF RtcpTimer, EnterLoop, nodeVars, clientVars, taskVars
<1>2. ASSUME NEW d \in Clients PROVE EventInv(d)'
  BY <1>1, SameLists DEF ClientInv, EventInv
<1>3. CallbackInv'
  BY <1>1, SameLists DEF ClientInv, EventInv, CallbackInv
<1> QED BY <1>1, <1>2, <1>3, SameLists DEF ClientInv

\* the listener is added while the timer cannot be deleted
LEMMA RtcpTimerEndClients ==
  ASSUME NodeInv, ClientInv, RtcpTimerEnd
  PROVE  ClientInv'
<1>1. /\ loop = "timer" /\ loop' = "idle"
      /\ listen' = [listen EXCEPT ![cur] = @ \/ iframe[cur]]
      /\ UNCHANGED <<list, heap, nClients, call, cstate, spc, victim, timer>>
  BY DEF RtcpTimerEnd, LeaveLoop, nodeVars, taskVars
<1>2. cstate[cur] = "listed" \/ Held(cur, TearDown)
  BY <1>1 DEF ClientInv, CallbackInv, Held, TearDown
<1>3. ASSUME NEW d \in Clients PROVE EventInv(d)'
  <2>1. CASE d = cur
    BY <1>1, <1>2, <2>1, SameLists DEF ClientInv, EventInv
  <2>2. CASE d # cur
    <3>1. listen'[d] = listen[d]
      BY <1>1, <2>2 DEF NodeInv, TypeOK
    <3> QED BY <1>1, <3>1, SameLists DEF ClientInv, EventInv
  <2> QED BY <2>1, <2>2
<1>4. CallbackInv'
  BY <1>1 DEF CallbackInv
<1> QED BY <1>1, <1>3, <1>4, SameLists DEF ClientInv

LEMMA RtcpTimeoutClients ==
  ASSUME NodeInv, ClientInv, NEW c \in Clients, RtcpTimeout(c)
  PROVE  ClientInv'
<1>1. /\ listen[c] /\ loop' = "rtcp" /\ cur' = c
      /\ UNCHANGED <<list, heap, nClients, call, cstate, spc, victim, timer,
                     listen>>
  BY DEF RtcpTimeout, EnterLoop, nodeVars, taskVars
<1>2. ASSUME NEW d \in Clients PROVE EventInv(d)'
  BY <1>1, SameLists DEF ClientInv, EventInv
<1>3. CallbackInv'
  BY <1>1, SameLists DEF ClientInv, EventInv, CallbackInv
<1> QED BY <1>1, <1>2, <1>3, SameLists DEF ClientInv

-----------------------------------------------------------------------------
(***************************************************************************)
(* The removal of a client.                                                *)
(***************************************************************************)

\* The task chooses the client it will remove.
LEMMA VisitClientClients ==
  ASSUME NodeInv, ClientInv, NEW n \in Nodes, VisitClient(n)
  PROVE  ClientInv'
<1>1. /\ spc[n] = "visit"
      /\ UNCHANGED <<list, heap, nClients, call, cstate, timer, listen, loop,
                     cur>>
      /\ \/ spc' = [spc EXCEPT ![n] = "packet"] /\ UNCHANGED victim
         \/ /\ spc' = [spc EXCEPT ![n] = "unlist"]
            /\ \E c : victim' = [victim EXCEPT ![n] = c]
         \/ UNCHANGED <<spc, victim>>
  BY DEF VisitClient, Goto, nodeVars, loopVars, taskVars
<1>2. spc \in [Nodes -> TaskPCs] /\ victim \in [Nodes -> Clients \cup {Nil}]
  BY DEF NodeInv, TypeOK
<1>3. /\ spc'[n] \notin TearDown /\ spc[n] \notin TearDown
      /\ victim'[n] # Nil => spc'[n] = "unlist"
  BY <1>1, <1>2 DEF TearDown, ClientInv, VictimInv
<1>4. \A m \in Nodes \ {n} : spc'[m] = spc[m] /\ victim'[m] = victim[m]
  BY <1>1, <1>2
<1>5. \A c : (Held(c, TearDown)' <=> Held(c, TearDown))
            /\ (Held(c, {"untimer"})' <=> Held(c, {"untimer"}))
  BY <1>3, <1>4 DEF Held, TearDown
<1>6. ASSUME NEW m \in Nodes PROVE MemberInv(m)'
  BY <1>1 DEF ClientInv, MemberInv, Members
<1>7. ASSUME NEW m \in Nodes PROVE VictimInv(m)'
  BY <1>1, <1>3, <1>4 DEF ClientInv, VictimInv
<1>8. ASSUME NEW c \in Clients PROVE EventInv(c)'
  BY <1>1, <1>5 DEF ClientInv, EventInv
<1>9. CallbackInv'
  BY <1>1, <1>5 DEF ClientInv, CallbackInv
<1> QED BY <1>6, <1>7, <1>8, <1>9 DEF ClientInv

\* A client taken off a list belongs to the task that took it.
LEMMA Detach ==
  ASSUME NodeInv, ClientInv, NEW n \in Nodes, NEW v \in Members(n),
         spc[n] \notin TearDown, spc' = [spc EXCEPT ![n] = "untimer"],
         victim'[n] = v,
         \A m \in Nodes \ {n} : victim'[m] = victim[m] /\ list'[m] = list[m],
         Members(n)' = Members(n) \ {v}, IsInjective(list'[n]),
         cstate' = [cstate EXCEPT ![v] = "detached"],
         UNCHANGED <<heap, loop, cur, nClients, call, timer, listen>>
  PROVE  ClientInv'
<1>1. /\ v \in Clients /\ cstate[v] = "listed" /\ ~(v > nClients)
      /\ ~Held(v, TearDown)
  BY ListedClient
<1>2. /\ cstate'[v] = "detached"
      /\ \A c \in Clients \ {v} : cstate'[c] = cstate[c]
      /\ spc'[n] = "untimer"
      /\ \A m \in Nodes \ {n} : spc'[m] = spc[m] /\ Members(m)' = Members(m)
  BY <1>1 DEF NodeInv, TypeOK, Members
<1>3. ASSUME NEW m \in Nodes \ {n} PROVE v \notin Members(m)
  BY DEF ClientInv, MemberInv
<1>4. n \in heap
  BY DEF ClientInv, MemberInv, Members, ToSet
<1>5. ASSUME NEW m \in Nodes PROVE MemberInv(m)'
  <2>1. IsInjective(list'[m])
    BY DEF ClientInv, MemberInv
  <2>2. Members(m)' \subseteq Members(m) /\ v \notin Members(m)'
    BY <1>2, <1>3
  <2>3. \A c \in Members(m)' : cstate'[c] = "listed"
    BY <1>2, <2>2, ListedClient
  <2>4. \A l \in Nodes : l # m => Members(l)' \cap Members(m)' = {}
    <3>1. \A l \in Nodes : Members(l)' \subseteq Members(l)
      BY <1>2
    <3> QED BY <2>2, <3>1 DEF ClientInv, MemberInv
  <2>5. \A c, d \in Members(m)' : call'[c] = call'[d] => c = d
    BY <2>2 DEF ClientInv, MemberInv
  <2>6. m \notin heap' => list'[m] = <<>>
    BY <1>4 DEF ClientInv, MemberInv
  <2> QED BY <2>1, <2>3, <2>4, <2>5, <2>6 DEF MemberInv
<1>6. \A m \in Nodes \ {n} : spc[m] \in TearDown =>
        victim[m] \in Clients \ {v} /\ cstate'[victim[m]] = "detached"
  <2> SUFFICES ASSUME NEW m \in Nodes \ {n}, spc[m] \in TearDown
               PROVE  victim[m] \in Clients \ {v}
                      /\ cstate'[victim[m]] = "detached"
    OBVIOUS
  <2>1. cstate[victim[m]] = "detached" /\ victim[m] \in Clients
    BY DEF ClientInv, VictimInv, NodeInv, WalkInv, Walking, TearDown
  <2> QED BY <2>1, <1>1, <1>2
<1>7. ASSUME NEW m \in Nodes PROVE VictimInv(m)'
  <2>1. CASE m = n
    BY <2>1, <1>2, <1>6 DEF VictimInv, TearDown
  <2>2. CASE m # n
    <3>1. victim'[m] # Nil => spc'[m] \in {"unlist"} \cup TearDown
      BY <2>2, <1>2 DEF ClientInv, VictimInv
    <3>2. spc'[m] \in TearDown => cstate'[victim'[m]] = "detached"
      BY <2>2, <1>2, <1>6
    <3>3. ASSUME NEW l \in Nodes, l # m, spc'[m] \in TearDown,
                 spc'[l] \in TearDown
          PROVE  victim'[l] # victim'[m]
      <4>1. CASE l = n
        BY <2>2, <3>3, <4>1, <1>2, <1>6
      <4>2. CASE l # n
        BY <2>2, <3>3, <4>2, <1>2 DEF ClientInv, VictimInv
      <4> QED BY <4>1, <4>2
    <3> QED BY <3>1, <3>2, <3>3 DEF VictimInv
  <2> QED BY <2>1, <2>2
<1>8. /\ \A c : Held(c, TearDown) => Held(c, TearDown)'
      /\ \A c : Held(c, {"untimer"}) => Held(c, {"untimer"})'
      /\ Held(v, TearDown)' /\ Held(v, {"untimer"})'
  <2>1. ASSUME NEW c, Held(c, TearDown) PROVE Held(c, TearDown)'
    BY <2>1, <1>2 DEF Held
  <2>2. ASSUME NEW c, Held(c, {"untimer"}) PROVE Held(c, {"untimer"})'
    BY <2>2, <1>2 DEF Held, TearDown
  <2>3. Held(v, TearDown)' /\ Held(v, {"untimer"})'
    BY <1>2 DEF Held, TearDown
  <2> QED BY <2>1, <2>2, <2>3
<1>9. ASSUME NEW c \in Clients PROVE EventInv(c)'
  <2>1. CASE c = v
    BY <2>1, <1>1, <1>8 DEF EventInv
  <2>2. CASE c # v
    BY <2>2, <1>2, <1>8 DEF ClientInv, EventInv
  <2> QED BY <2>1, <2>2
<1>10. CallbackInv'
  <2>1. loop \in {"timer", "rtcp"} => cur \in Clients
    BY DEF NodeInv, TypeOK
  <2>2. CASE cur = v
    BY <2>2, <1>8 DEF CallbackInv
  <2>3. CASE cur # v
    BY <2>1, <2>3, <1>2, <1>8 DEF ClientInv, CallbackInv
  <2> QED BY <2>2, <2>3
<1> QED BY <1>5, <1>7, <1>9, <1>10 DEF ClientInv

\* list_delete takes off the client the walk stands on, and only that one.
LEMMA UnlistElems ==
  ASSUME NodeInv, ClientInv, NEW n \in Nodes, UnlistClient(n)
  PROVE  \E v \in Members(n) :
           /\ v = victim[n]
           /\ Members(n)' = Members(n) \ {v} /\ IsInjective(list'[n])
           /\ \A m \in Nodes \ {n} : list'[m] = list[m]
<1>1. /\ spc[n] = "unlist" /\ lock # n /\ walk[n] \in Walks
      /\ list \in [Nodes -> Seq(Clients)] /\ list[n] \in Seq(Clients)
      /\ walk[n].size <= Len(list[n])
      /\ walk[n].i + walk[n].left = walk[n].size /\ walk[n].left > 0
      /\ list[n][walk[n].i + 1] = victim[n]
  BY DEF NodeInv, TypeOK, UnlistClient, WalkInv, Walking, Free, Nodes
<1>2. PICK p \in 1 .. Len(list[n]) : p = Locate(n, victim[n])
                                     /\ list[n][p] = victim[n]
  <2>1. walk[n].i + 1 \in 1 .. Len(list[n])
    BY <1>1 DEF Walks
  <2> QED BY <1>1, <2>1 DEF Locate
<1>3. PICK v \in Members(n) : v = victim[n]
  <2>1. DOMAIN list[n] = 1 .. Len(list[n])
    BY <1>1
  <2> QED BY <1>2, <2>1 DEF Members, ToSet
<1>4. list' = [list EXCEPT ![n] = RemoveAt(list[n], p)]
  BY <1>2 DEF UnlistClient
<1>5. Members(n)' = Members(n) \ {v} /\ IsInjective(list'[n])
  <2>1. IsInjective(list[n])
    BY DEF ClientInv, MemberInv
  <2>2. /\ ToSet(RemoveAt(list[n], p)) = ToSet(list[n]) \ {list[n][p]}
        /\ IsInjective(RemoveAt(list[n], p))
    BY <1>1, <2>1, RemoveElems
  <2>3. list'[n] = RemoveAt(list[n], p)
    BY <1>1, <1>4
  <2> QED BY <2>2, <2>3, <1>2, <1>3 DEF Members
<1>6. \A m \in Nodes \ {n} : list'[m] = list[m]
  BY <1>1, <1>4
<1> QED BY <1>3, <1>5, <1>6

LEMMA UnlistClientClients ==
  ASSUME NodeInv, ClientInv, NEW n \in Nodes, UnlistClient(n)
  PROVE  ClientInv'
<1>1. PICK v \in Members(n) :
        /\ v = victim[n]
        /\ Members(n)' = Members(n) \ {v} /\ IsInjective(list'[n])
        /\ \A m \in Nodes \ {n} : list'[m] = list[m]
  BY UnlistElems
<1>2. /\ spc[n] = "unlist" /\ spc' = [spc EXCEPT ![n] = "untimer"]
      /\ cstate' = [cstate EXCEPT ![v] = "detached"]
      /\ UNCHANGED <<heap, loop, cur, nClients, call, timer, listen, victim>>
  BY <1>1 DEF UnlistClient, Goto, loopVars, nodeVars, taskVars
<1> QED BY <1>1, <1>2, Detach DEF TearDown

\* destory_client_list takes off the first client.
LEMMA DrainClientClients ==
  ASSUME NodeInv, ClientInv, NEW n \in Nodes, DrainClient(n)
  PROVE  ClientInv'
<1>1. /\ spc[n] = "drain" /\ list[n] # <<>>
      /\ list \in [Nodes -> Seq(Clients)] /\ list[n] \in Seq(Clients)
      /\ victim \in [Nodes -> Clients \cup {Nil}]
  BY DEF DrainClient, NodeInv, TypeOK
<1>2. /\ Head(list[n]) \in ToSet(list[n])
      /\ ToSet(Tail(list[n])) = ToSet(list[n]) \ {Head(list[n])}
      /\ IsInjective(Tail(list[n]))
  BY <1>1, TailElems DEF ClientInv, MemberInv
<1>3. PICK v \in Members(n) : v = Head(list[n])
  BY <1>2 DEF Members
<1>4. /\ spc' = [spc EXCEPT ![n] = "untimer"]
      /\ victim' = [victim EXCEPT ![n] = v]
      /\ list' = [list EXCEPT ![n] = Tail(list[n])]
      /\ cstate' = [cstate EXCEPT ![v] = "detached"]
      /\ UNCHANGED <<heap, loop, cur, nClients, call, timer, listen>>
  BY <1>3 DEF DrainClient, Goto, loopVars, nodeVars
<1>5. list'[n] = Tail(list[n]) /\ victim'[n] = v
  BY <1>1, <1>4
<1>6. Members(n)' = Members(n) \ {v} /\ IsInjective(list'[n])
  BY <1>2, <1>3, <1>5 DEF Members
<1>7. \A m \in Nodes \ {n} : victim'[m] = victim[m] /\ list'[m] = list[m]
  BY <1>1, <1>4
<1> QED BY <1>1, <1>4, <1>5, <1>6, <1>7, Detach DEF TearDown

\* event_del of the timer: from here on nothing adds the listener again.
LEMMA StopTimerClients ==
  ASSUME NodeInv, ClientInv, NEW n \in Nodes, StopTimer(n)
  PROVE  ClientInv'
<1>1. PICK v \in Clients : v = victim[n]
  BY DEF StopTimer, NodeInv, WalkInv, Walking
<1>2. /\ spc[n] = "untimer" /\ ~(loop = "timer" /\ cur = v)
      /\ timer' = [timer EXCEPT ![v] = FALSE]
      /\ spc' = [spc EXCEPT ![n] = "unlisten"]
      /\ UNCHANGED <<list, heap, loop, cur, nClients, call, cstate, listen,
                     victim>>
  BY <1>1 DEF StopTimer, EventDel, Goto, loopVars, nodeVars, taskVars
<1>3. /\ spc'[n] = "unlisten" /\ timer'[v] = FALSE
      /\ \A m \in Nodes \ {n} : spc'[m] = spc[m]
      /\ \A c \in Clients \ {v} : timer'[c] = timer[c]
  BY <1>2 DEF NodeInv, TypeOK
<1>4. \A m \in Nodes : spc'[m] \in TearDown <=> spc[m] \in TearDown
  BY <1>2, <1>3 DEF TearDown
<1>5. /\ \A c : Held(c, TearDown) => Held(c, TearDown)'
      /\ \A c \in Clients \ {v} :
           Held(c, {"untimer"}) => Held(c, {"untimer"})'
  <2>1. ASSUME NEW c, Held(c, TearDown) PROVE Held(c, TearDown)'
    BY <2>1, <1>2, <1>4 DEF Held
  <2>2. ASSUME NEW c \in Clients \ {v}, Held(c, {"untimer"})
        PROVE  Held(c, {"untimer"})'
    BY <2>2, <1>1, <1>2, <1>3 DEF Held
  <2> QED BY <2>1, <2>2
<1>6. ASSUME NEW m \in Nodes PROVE MemberInv(m)'
  BY <1>2 DEF ClientInv, MemberInv, Members
<1>7. ASSUME NEW m \in Nodes PROVE VictimInv(m)'
  <2>1. victim'[m] # Nil => spc'[m] \in {"unlist"} \cup TearDown
    BY <1>2, <1>3, <1>4 DEF ClientInv, VictimInv
  <2> QED BY <2>1, <1>2, <1>4 DEF ClientInv, VictimInv
<1>8. ASSUME NEW c \in Clients PROVE EventInv(c)'
  BY <1>2, <1>3, <1>5 DEF ClientInv, EventInv
<1>9. CallbackInv'
  <2>1. loop \in {"timer", "rtcp"} => cur \in Clients
    BY DEF NodeInv, TypeOK
  <2> QED BY <2>1, <1>2, <1>5 DEF ClientInv, CallbackInv
<1> QED BY <1>6, <1>7, <1>8, <1>9 DEF ClientInv

\* event_del of the listener and the free: nothing is pending any more.
LEMMA FreeClientClients ==
  ASSUME NodeInv, ClientInv, NEW n \in Nodes, FreeClient(n)
  PROVE  ClientInv'
<1>1. PICK v \in Clients : v = victim[n]
  BY DEF FreeClient, NodeInv, WalkInv, Walking
<1>2. /\ spc[n] = "unlisten" /\ ~(loop = "rtcp" /\ cur = v)
      /\ listen' = [listen EXCEPT ![v] = FALSE]
      /\ cstate' = [cstate EXCEPT ![v] = "freed"]
      /\ victim' = [victim EXCEPT ![n] = Nil]
      /\ \/ spc' = [spc EXCEPT ![n] = "drain"]
         \/ spc' = [spc EXCEPT ![n] = "visit"]
      /\ UNCHANGED <<list, heap, loop, cur, nClients, call, timer>>
  BY <1>1 DEF FreeClient, EventDel, Goto, loopVars, nodeVars
<1>3. /\ spc'[n] \notin TearDown /\ victim'[n] = Nil
      /\ \A m \in Nodes \ {n} : spc'[m] = spc[m] /\ victim'[m] = victim[m]
      /\ listen'[v] = FALSE /\ cstate'[v] = "freed"
      /\ \A c \in Clients \ {v} :
           listen'[c] = listen[c] /\ cstate'[c] = cstate[c]
  BY <1>2 DEF NodeInv, TypeOK, TearDown
<1>4. cstate[v] = "detached" /\ ~Held(v, {"untimer"})
  BY <1>1, <1>2 DEF ClientInv, VictimInv, TearDown, Held
<1>5. \A m \in Nodes \ {n} : spc[m] \in TearDown =>
        victim[m] \in Clients \ {v}
  <2> SUFFICES ASSUME NEW m \in Nodes \ {n}, spc[m] \in TearDown
               PROVE  victim[m] \in Clients \ {v}
    OBVIOUS
  <2>1. victim[m] \in Clients
    BY DEF NodeInv, WalkInv, Walking, TearDown
  <2>2. victim[m] # victim[n]
    BY <1>2 DEF ClientInv, VictimInv, TearDown
  <2> QED BY <2>1, <2>2, <1>1
<1>6. ASSUME NEW c \in Clients \ {v}
      PROVE  /\ Held(c, TearDown) => Held(c, TearDown)'
             /\ Held(c, {"untimer"}) => Held(c, {"untimer"})'
  BY <1>1, <1>3 DEF Held
<1>7. ASSUME NEW m \in Nodes PROVE MemberInv(m)'
  <2>1. \A c \in Members(m) : cstate'[c] = "listed"
    <3> SUFFICES ASSUME NEW c \in Members(m) PROVE cstate'[c] = "listed"
      OBVIOUS
    <3>1. c \in Clients \ {v} /\ cstate[c] = "listed"
      BY <1>4, ListedClient
    <3> QED BY <3>1, <1>3
  <2> QED BY <2>1, <1>2 DEF ClientInv, MemberInv, Members
<1>8. ASSUME NEW m \in Nodes PROVE VictimInv(m)'
  <2>1. CASE m = n
    BY <2>1, <1>3 DEF VictimInv
  <2>2. CASE m # n
    BY <2>2, <1>3, <1>5 DEF ClientInv, VictimInv
  <2> QED BY <2>1, <2>2
<1>9. ASSUME NEW c \in Clients PROVE EventInv(c)'
  <2>1. CASE c = v
    BY <2>1, <1>2, <1>3, <1>4 DEF ClientInv, EventInv
  <2>2. CASE c # v
    BY <2>2, <1>2, <1>3, <1>6 DEF ClientInv, EventInv
  <2> QED BY <2>1, <2>2
<1>10. CallbackInv'
  <2>1. loop \in {"timer", "rtcp"} => cur \in Clients
    BY DEF NodeInv, TypeOK
  <2>2. CASE cur = v
    BY <2>2, <1>2, <1>4 DEF ClientInv, CallbackInv
  <2>3. CASE cur # v
    BY <2>1, <2>3, <1>2, <1>3, <1>6 DEF ClientInv, CallbackInv
  <2> QED BY <2>2, <2>3
<1> QED BY <1>7, <1>8, <1>9, <1>10 DEF ClientInv

-----------------------------------------------------------------------------
\* Everything else is quiet: the requests and the loop ...
LEMMA QuietRequest ==
  ASSUME NodeInv, ClientInv, SipHangup \/ \E k \in Calls : Stop(k)
  PROVE  ClientInv'
<1>1. /\ UNCHANGED <<list, nClients, call, cstate, timer, listen, victim>>
      /\ UNCHANGED <<loop, cur, spc, heap>>
  BY DEF SipHangup, Stop, loopVars, nodeVars, clientVars, taskVars
<1> QED BY <1>1, QuietStep

LEMMA QuietSource ==
  ASSUME NodeInv, ClientInv, NEW n \in Nodes,
         \/ SourceConnected(n) \/ SourceAccepted(n) \/ SourceError(n)
         \/ \E I, AV \in BOOLEAN : RecvFrame(n, I, AV)
  PROVE  ClientInv'
<1>1. /\ UNCHANGED <<list, nClients, call, cstate, timer, listen, victim>>
      /\ UNCHANGED <<spc, heap>>
  BY DEF SourceConnected, SourceAccepted, SourceError, RecvFrame, clientVars,
     taskVars
<1>2. loop' \notin {"timer", "rtcp"} \/ UNCHANGED <<loop, cur>>
  <2>1. CASE SourceConnected(n) \/ SourceAccepted(n)
    BY <2>1 DEF SourceConnected, SourceAccepted, loopVars
  <2>2. CASE SourceError(n)
    BY <2>2 DEF SourceError, EnterLoop
  <2>3. ASSUME NEW I \in BOOLEAN, NEW AV \in BOOLEAN, RecvFrame(n, I, AV)
        PROVE  loop' \notin {"timer", "rtcp"} \/ UNCHANGED <<loop, cur>>
    BY <2>3 DEF RecvFrame, EnterLoop, loopVars
  <2> QED BY <2>1, <2>2, <2>3
<1> QED BY <1>1, <1>2, QuietStep

LEMMA QuietLoop ==
  ASSUME NodeInv, ClientInv,
         \/ QueueTask \/ SetSendFlag \/ PushFrame \/ HandOverUnderLock
         \/ DisableClients \/ HandOver \/ RtcpTimeoutEnd
  PROVE  ClientInv'
<1>1. /\ UNCHANGED <<list, nClients, call, cstate, timer, listen, victim>>
      /\ heap' = heap
      /\ loop' \notin {"timer", "rtcp"}
      /\ \/ spc' = spc
         \/ loop = "task" /\ spc' = [spc EXCEPT ![cur] = "queued"]
  <2> USE DEF EnterLoop, LeaveLoop, nodeVars, clientVars, taskVars
  <2>1. CASE QueueTask
    BY <2>1 DEF QueueTask
  <2>2. CASE SetSendFlag \/ HandOverUnderLock \/ HandOver
    BY <2>2 DEF SetSendFlag, HandOverUnderLock, HandOver
  <2>3. CASE PushFrame
    BY <2>3 DEF PushFrame
  <2>4. CASE DisableClients \/ RtcpTimeoutEnd
    BY <2>4 DEF DisableClients, RtcpTimeoutEnd
  <2> QED BY <2>1, <2>2, <2>3, <2>4
<1>2. ASSUME NEW m \in Nodes
      PROVE  \/ spc'[m] = spc[m]
             \/ /\ spc[m] \notin {"unlist"} \cup TearDown
                /\ spc'[m] \notin TearDown
  BY <1>1 DEF NodeInv, TypeOK, LoopInv, TearDown
<1> QED BY <1>1, <1>2, QuietStep

\* ... and the task, outside the removal of a client.
LEMMA QuietTask ==
  ASSUME NodeInv, ClientInv, NEW n \in Nodes,
         \/ StartTask(n) \/ CheckSource(n) \/ CheckClients(n) \/ Quit(n)
         \/ TakeFrame(n) \/ FrameTaken(n) \/ PackFrame(n) \/ NextPacket(n)
         \/ LeaveTaskLoop(n) \/ SourceGone(n) \/ LockBucket(n) \/ FreeNode(n)
  PROVE  ClientInv'
<1>1. /\ UNCHANGED <<list, nClients, call, cstate, timer, listen, victim>>
      /\ UNCHANGED <<loop, cur>>
      /\ \/ heap' = heap
         \/ list[n] = <<>> /\ heap' = heap \ {n}
  <2> USE DEF loopVars, nodeVars, clientVars, taskVars
  <2>1. CASE StartTask(n) \/ CheckSource(n) \/ CheckClients(n) \/ Quit(n)
    BY <2>1 DEF StartTask, CheckSource, CheckClients, Quit
  <2>2. CASE TakeFrame(n) \/ FrameTaken(n)
    BY <2>2 DEF TakeFrame, FrameTaken
  <2>3. CASE PackFrame(n) \/ NextPacket(n)
    BY <2>3 DEF PackFrame, NextPacket
  <2>4. CASE LeaveTaskLoop(n) \/ SourceGone(n) \/ LockBucket(n)
    BY <2>4 DEF LeaveTaskLoop, SourceGone, LockBucket
  <2>5. CASE FreeNode(n)
    BY <2>5 DEF FreeNode
  <2> QED BY <2>1, <2>2, <2>3, <2>4, <2>5
<1>2. /\ spc[n] \notin {"unlist"} \cup TearDown
      /\ \E pc \in TaskPCs \ TearDown : spc' = [spc EXCEPT ![n] = pc]
  <2>1. CASE \/ StartTask(n) \/ CheckSource(n) \/ CheckClients(n) \/ Quit(n)
    BY <2>1 DEF StartTask, CheckSource, CheckClients, Quit, Goto, TaskPCs,
       TearDown
  <2>2. CASE \/ TakeFrame(n) \/ FrameTaken(n) \/ PackFrame(n) \/ NextPacket(n)
    BY <2>2 DEF TakeFrame, FrameTaken, PackFrame, NextPacket, Goto, TaskPCs,
       TearDown
  <2>3. CASE \/ LeaveTaskLoop(n) \/ SourceGone(n) \/ LockBucket(n)
             \/ FreeNode(n)
    BY <2>3 DEF LeaveTaskLoop, SourceGone, LockBucket, FreeNode, Goto, TaskPCs,
       TearDown
  <2> QED BY <2>1, <2>2, <2>3
<1>3. ASSUME NEW m \in Nodes
      PROVE  \/ spc'[m] = spc[m]
             \/ /\ spc[m] \notin {"unlist"} \cup TearDown
                /\ spc'[m] \notin TearDown
  BY <1>2 DEF NodeInv, TypeOK
<1>4. \A m \in Nodes : m \notin heap' => m \notin heap \/ list[m] = <<>>
  BY <1>1
<1> QED BY <1>1, <1>3, <1>4, QuietStep

-----------------------------------------------------------------------------
\* A second node of a stream is never made: PLAY looks the stream up and
\* inserts the node under one lock, and nothing else adds to the table.
LEMMA PlayKeys ==
  ASSUME NodeInv, KeyInv, NEW k \in Calls, Play(k)
  PROVE  KeyInv'
<1>1. PICK n \in Nodes : n = NodeFor(k) /\ InsertNode(n, k)
  BY DEF Play
<1>2. CASE n \in table
  BY <1>1, <1>2 DEF InsertNode, KeyInv
<1>3. CASE n \notin table
  <2>1. \A m \in table : key[m] # KeyOf[k]
    BY <1>1, <1>3 DEF NodeFor
  <2>2. /\ table' = table \cup {n} /\ key' = [key EXCEPT ![n] = KeyOf[k]]
        /\ table \subseteq Nodes /\ key \in [Nodes -> Keys \cup {None}]
    BY <1>1, <1>3 DEF InsertNode, NodeInv, TypeOK
  <2>3. key'[n] = KeyOf[k] /\ \A m \in table : key'[m] = key[m]
    BY <1>3, <2>2
  <2> QED BY <2>1, <2>2, <2>3 DEF KeyInv
<1> QED BY <1>2, <1>3

LEMMA OtherKeys ==
  ASSUME [Next]_vars, ~\E k \in Calls : Play(k)
  PROVE  table' \subseteq table /\ key' = key
<1> USE DEF nodeVars
<1>1. CASE Request \/ RtcpEvent \/ SipHangup \/ UNCHANGED vars
  BY <1>1 DEF Request, Stop, RtcpEvent, RtcpTimer, RtcpTimeout, SipHangup, vars
<1>2. CASE LoopStep
  BY <1>2 DEF LoopStep, QueueTask, SetSendFlag, PushFrame, FreeUnstarted,
     DestroyNode, HandOverUnderLock, DisableClients, HandOver, RtcpTimerEnd,
     RtcpTimeoutEnd
<1>3. ASSUME NEW n \in Nodes, SourceEvent(n)
      PROVE  table' \subseteq table /\ key' = key
  BY <1>3 DEF SourceEvent, SourceConnected, SourceAccepted, SourceRefused,
     DestroyNode, SourceError, RecvFrame
<1>4. ASSUME NEW n \in Nodes, Task(n)
      PROVE  table' \subseteq table /\ key' = key
  BY <1>4 DEF Task, StartTask, CheckSource, CheckClients, Quit, TakeFrame,
     FrameTaken, PackFrame, NextPacket, VisitClient, UnlistClient, StopTimer,
     FreeClient, LeaveTaskLoop, SourceGone, LockBucket, DrainClient, FreeNode
<1> QED BY <1>1, <1>2, <1>3, <1>4 DEF Next

-----------------------------------------------------------------------------
\* iDeleteFlag, once set, stays set, and a client is removed only with it.
LEMMA AskedNext ==
  ASSUME NodeInv, AskedInv, [Next]_vars
  PROVE  AskedInv'
<1>1. /\ del \in [Clients -> BOOLEAN] /\ spc \in [Nodes -> TaskPCs]
      /\ victim \in [Nodes -> Clients \cup {Nil}]
      /\ \A n \in Nodes : spc[n] = "unlist" => victim[n] \in Clients
  BY DEF NodeInv, TypeOK, WalkInv, Walking
<1>2. CASE UNCHANGED <<del, spc, victim>>
  BY <1>2 DEF AskedInv
<1>3. CASE Request \/ RtcpEvent \/ SipHangup \/ UNCHANGED vars
  <2>1. /\ UNCHANGED <<spc, victim>>
        /\ \A c \in Clients : del[c] => del'[c]
    <3> USE DEF clientVars, taskVars
    <3>1. CASE SipHangup \/ UNCHANGED vars
      BY <3>1 DEF SipHangup, vars
    <3>2. ASSUME NEW k \in Calls, Play(k) \/ Stop(k)
          PROVE  /\ UNCHANGED <<spc, victim>>
                 /\ \A c \in Clients : del[c] => del'[c]
      BY <3>2 DEF Play, Stop
    <3>3. ASSUME NEW d \in Clients, RtcpTimer(d) \/ RtcpTimeout(d)
          PROVE  /\ UNCHANGED <<spc, victim>>
                 /\ \A c \in Clients : del[c] => del'[c]
      BY <3>3, <1>1 DEF RtcpTimer, RtcpTimeout
    <3> QED BY <1>3, <3>1, <3>2, <3>3 DEF Request, RtcpEvent
  <2> QED BY <2>1, <1>1 DEF AskedInv
<1>4. ASSUME NEW n \in Nodes, SourceEvent(n) PROVE AskedInv'
  <2>1. UNCHANGED <<del, spc, victim>>
    BY <1>4 DEF SourceEvent, SourceConnected, SourceAccepted, SourceRefused,
       DestroyNode, SourceError, RecvFrame, clientVars, taskVars
  <2> QED BY <2>1, <1>2
<1>5. CASE LoopStep
  <2>1. UNCHANGED <<del, victim>>
    BY <1>5 DEF LoopStep, QueueTask, SetSendFlag, PushFrame, FreeUnstarted,
       DestroyNode, HandOverUnderLock, DisableClients, HandOver, RtcpTimerEnd,
       RtcpTimeoutEnd, clientVars, taskVars
  <2>2. spc' = spc \/ spc' = [spc EXCEPT ![cur] = "queued"]
    BY <1>5 DEF LoopStep, QueueTask, SetSendFlag, PushFrame, FreeUnstarted,
       DestroyNode, HandOverUnderLock, DisableClients, HandOver, RtcpTimerEnd,
       RtcpTimeoutEnd
  <2> QED BY <2>1, <2>2, <1>1 DEF AskedInv
<1>6. ASSUME NEW n \in Nodes, Task(n) PROVE AskedInv'
  <2>1. del' = del
    BY <1>6 DEF Task, StartTask, CheckSource, CheckClients, Quit, TakeFrame,
       FrameTaken, PackFrame, NextPacket, VisitClient, UnlistClient, StopTimer,
       FreeClient, LeaveTaskLoop, SourceGone, LockBucket, DrainClient,
       FreeNode, clientVars
  <2>2. ASSUME NEW m \in Nodes \ {n}
        PROVE  spc'[m] = spc[m] /\ victim'[m] = victim[m]
    BY <1>6, <1>1 DEF Task, StartTask, CheckSource, CheckClients, Quit,
       TakeFrame, FrameTaken, PackFrame, NextPacket, VisitClient, UnlistClient,
       StopTimer, FreeClient, LeaveTaskLoop, SourceGone, LockBucket,
       DrainClient, FreeNode, Goto, taskVars
  <2>3. spc'[n] = "unlist" => VisitClient(n)
    BY <1>6, <1>1 DEF Task, StartTask, CheckSource, CheckClients, Quit,
       TakeFrame, FrameTaken, PackFrame, NextPacket, UnlistClient,
       StopTimer, FreeClient, LeaveTaskLoop, SourceGone, LockBucket,
       DrainClient, FreeNode, Goto, taskVars
  <2>4. spc'[n] = "unlist" => del'[victim'[n]]
    BY <2>1, <2>3, <1>1 DEF VisitClient, Goto, taskVars
  <2> QED BY <2>1, <2>2, <2>4, <1>1 DEF AskedInv
<1> QED BY <1>3, <1>4, <1>5, <1>6 DEF Next

\* Who leaves a list: a flagged client, or all when the source has gone.
LEMMA LeavesList ==
  ASSUME NodeInv, ClientInv, AskedInv, [Next]_vars, NEW n \in Nodes,
         NEW c \in Members(n), c \notin Members(n)'
  PROVE  del[c] \/ src'[n] = "closed"
<1>1. list'[n] # list[n]
  BY DEF Members
<1>2. list \in [Nodes -> Seq(Clients)] /\ src \in [Nodes -> Sources]
  BY DEF NodeInv, TypeOK
<1> USE DEF clientVars
<1>3. ASSUME NEW k \in Calls, Play(k) PROVE FALSE
  <2>1. PICK m \in Nodes : AddClient(m, k)
    BY <1>3 DEF Play
  <2>2. PICK d \in Clients : list' = [list EXCEPT ![m] = Append(@, d)]
    BY <2>1, <1>1 DEF AddClient
  <2>3. list[n] \in Seq(Clients) /\ list'[n] = Append(list[n], d)
    BY <2>2, <1>1, <1>2
  <2>4. ToSet(Append(list[n], d)) = ToSet(list[n]) \cup {d}
    BY <2>3, AppendElems
  <2> QED BY <2>3, <2>4 DEF Members
<1>4. ASSUME NEW m \in Nodes, DestroyNode(m) PROVE src'[n] = "closed"
  <2>1. m = n
    BY <1>4, <1>1, <1>2 DEF DestroyNode
  <2> QED BY <1>4, <2>1, <1>2 DEF DestroyNode
<1>5. CASE Request \/ RtcpEvent \/ SipHangup \/ UNCHANGED vars
  BY <1>1, <1>3, <1>5 DEF Request, Stop, RtcpEvent, RtcpTimer, RtcpTimeout,
     SipHangup, vars
<1>6. CASE LoopStep
  <2>1. CASE FreeUnstarted
    <3>1. cur \in Nodes /\ DestroyNode(cur)
      BY <2>1 DEF NodeInv, TypeOK, NodeLoopPCs, LoopPCs, FreeUnstarted
    <3> QED BY <3>1, <1>4
  <2>2. CASE ~FreeUnstarted
    BY <2>2, <1>6, <1>1 DEF LoopStep, QueueTask, SetSendFlag, PushFrame,
       HandOverUnderLock, DisableClients, HandOver, RtcpTimerEnd,
       RtcpTimeoutEnd
  <2> QED BY <2>1, <2>2
<1>7. ASSUME NEW m \in Nodes, SourceEvent(m) PROVE src'[n] = "closed"
  BY <1>7, <1>1, <1>4 DEF SourceEvent, SourceConnected, SourceAccepted,
     SourceRefused, SourceError, RecvFrame
<1>8. ASSUME NEW m \in Nodes, UnlistClient(m) PROVE del[c]
  <2>1. PICK v \in Members(m) :
          /\ v = victim[m] /\ Members(m)' = Members(m) \ {v}
          /\ \A l \in Nodes \ {m} : list'[l] = list[l]
    BY <1>8, UnlistElems
  <2>2. m = n /\ c = victim[m]
    BY <2>1, <1>1
  <2> QED BY <1>8, <2>2 DEF UnlistClient, AskedInv
<1>9. ASSUME NEW m \in Nodes, DrainClient(m) PROVE src'[n] = "closed"
  <2>1. m = n
    BY <1>9, <1>1, <1>2 DEF DrainClient
  <2>2. src[n] = "closed"
    BY <1>9, <2>1 DEF DrainClient, NodeInv, FlagInv
  <2> QED BY <1>9, <2>2 DEF DrainClient, nodeVars
<1>10. ASSUME NEW m \in Nodes, Task(m), ~UnlistClient(m), ~DrainClient(m)
       PROVE  FALSE
  BY <1>10, <1>1 DEF Task, StartTask, CheckSource, CheckClients, Quit,
     TakeFrame, FrameTaken, PackFrame, NextPacket, VisitClient, StopTimer,
     FreeClient, LeaveTaskLoop, SourceGone, LockBucket, FreeNode
<1> QED BY <1>5, <1>6, <1>7, <1>8, <1>9, <1>10 DEF Next

-----------------------------------------------------------------------------
(***************************************************************************)
(* The theorems.                                                           *)
(***************************************************************************)

\* Every step of the loop and of every task preserves the invariant.
LEMMA ClientInvNext == NodeInv /\ ClientInv /\ [Next]_vars => ClientInv'
<1> SUFFICES ASSUME NodeInv, ClientInv, [Next]_vars PROVE ClientInv'
  OBVIOUS
<1>1. CASE Request \/ SipHangup
  BY <1>1, PlayClients, QuietRequest DEF Request
<1>2. CASE RtcpEvent
  BY <1>2, RtcpTimerClients, RtcpTimeoutClients DEF RtcpEvent
<1>3. CASE LoopStep
  BY <1>3, QuietLoop, FreeUnstartedClients, RtcpTimerEndClients DEF LoopStep
<1>4. ASSUME NEW n \in Nodes, SourceEvent(n) PROVE ClientInv'
  BY <1>4, QuietSource, SourceRefusedClients DEF SourceEvent
<1>5. ASSUME NEW n \in Nodes, Task(n) PROVE ClientInv'
  BY <1>5, QuietTask, VisitClientClients, UnlistClientClients,
     StopTimerClients, FreeClientClients, DrainClientClients
  DEF Task
<1>6. CASE UNCHANGED vars
  <2>1. /\ UNCHANGED <<list, nClients, call, cstate, timer, listen, victim>>
        /\ UNCHANGED <<loop, cur, spc, heap>>
    BY <1>6 DEF vars, loopVars, nodeVars, clientVars, taskVars
  <2> QED BY <2>1, QuietStep
<1> QED BY <1>1, <1>2, <1>3, <1>4, <1>5, <1>6 DEF Next

\* StreamInv holds in every reachable state, whatever the constants.
THEOREM StreamInductive == Spec => []StreamInv
<1>1. Init => StreamInv
  BY NodeInvInit, ClientInvInit DEF StreamInv, AskedInv, Init
<1>2. StreamInv /\ [Next]_vars => StreamInv'
  <2> SUFFICES ASSUME NodeInv, ClientInv, KeyInv, AskedInv, [Next]_vars
               PROVE  NodeInv' /\ ClientInv' /\ KeyInv' /\ AskedInv'
    BY DEF StreamInv
  <2>1. KeyInv'
    <3>1. CASE \E k \in Calls : Play(k)
      BY <3>1, PlayKeys
    <3>2. CASE ~\E k \in Calls : Play(k)
      BY <3>2, OtherKeys DEF KeyInv
    <3> QED BY <3>1, <3>2
  <2> QED BY <2>1, NodeInvNext, ClientInvNext, AskedNext
<1> QED BY <1>1, <1>2, PTL DEF Spec

\* client_opt.c:33-122, send_av_data.c:475-494: whoever frees a client, by the
\* walk, with its node in the task or with its node in the loop, frees it
\* once, after its two events are gone, and no callback runs on it.
THEOREM MemorySafety == Spec => []MemorySafe
<1>1. StreamInv => ClientSafe
  <2> SUFFICES ASSUME NodeInv, ClientInv PROVE ClientSafe
    BY DEF StreamInv
  <2>1. ASSUME NEW n \in Nodes
        PROVE  /\ \A c \in Members(n) : cstate[c] = "listed"
               /\ victim[n] # Nil /\ spc[n] # "unlist" =>
                    cstate[victim[n]] = "detached"
    BY DEF ClientInv, MemberInv, VictimInv
  <2>2. ASSUME NEW c, Held(c, TearDown) \/ Held(c, {"untimer"})
        PROVE  cstate[c] = "detached"
    BY <2>2 DEF Held, ClientInv, VictimInv, TearDown
  <2>3. ASSUME NEW c \in Clients, timer[c] \/ listen[c]
        PROVE  cstate[c] \in {"listed", "detached"}
    BY <2>2, <2>3 DEF ClientInv, EventInv
  <2>4. loop \in {"timer", "rtcp"} => cstate[cur] \in {"listed", "detached"}
    BY <2>2 DEF ClientInv, CallbackInv
  <2> QED BY <2>1, <2>3, <2>4 DEF ClientSafe
<1> QED BY <1>1, StreamInductive, NodeSafety, PTL DEF MemorySafe

\* stream_moudle.c and stream_hash.c: a stream has one node and a call one
\* client in it, so that STOP flags the client that PLAY made.
THEOREM OneClientPerCall == Spec => []NoDuplicates
<1>1. StreamInv => NoDuplicates
  <2> SUFFICES ASSUME NodeInv, ClientInv, KeyInv PROVE NoDuplicates
    BY DEF StreamInv
  <2>1. heap \subseteq Nodes
    BY DEF NodeInv, TypeOK
  <2> QED BY <2>1 DEF NoDuplicates, KeyInv, ClientInv, MemberInv
<1> QED BY <1>1, StreamInductive, PTL

\* rtp_pack.c:497-522 and send_av_data.c: while its source is connected a
\* client loses the stream only when STOP or an RTCP timeout asked for it.
THEOREM ClientsAreKept == Spec => KeptWhileServed
<1>1. StreamInv /\ [Next]_vars =>
        [\A n \in Nodes : \A c \in Members(n) :
           c \notin Members(n)' => del[c] \/ src'[n] = "closed"]_vars
  BY LeavesList DEF StreamInv
<1> QED BY <1>1, StreamInductive, PTL DEF Spec, KeptWhileServed
=============================================================================
