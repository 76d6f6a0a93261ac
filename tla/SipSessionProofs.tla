-------------------------- MODULE SipSessionProofs --------------------------
(***************************************************************************)
(* Theorems about SipSession, for any number of calls, sockets and clients *)
(* and in all circumstances: no request stays unread; in the circumstances *)
(* that the server can bear a client sends through its own socket; while   *)
(* datagrams come in order no socket is forgotten; and the SIP side        *)
(* forgets a call whose media was closed, where that is true at all.       *)
(***************************************************************************)
EXTENDS SipSession, SequenceFacts, FiniteSetTheorems

UdpCb    == <<"udp", 0>>
StreamCb == <<"stream", 0>>
SipCb    == <<"sip", 0>>
Timers   == {Rtcp(c) : c \in Clients}
Queued(cb) == cb \in ToSet(active)

\* The queue of callbacks: each one once, the SIP socket first and before any
\* callback was triggered; a request waits for its callback, alone.
QueueInv ==
  /\ IsInjective(active)
  /\ Queued(UdpCb) => Head(active) = UdpCb /\ ~Queued(StreamCb) /\ ~Queued(SipCb)
  /\ mail # <<>> => Len(mail) = 1 /\ Queued(StreamCb)
  /\ ~world.rtcp => arg = None /\ ~Queued(SipCb) /\ \A x \in Timers : ~Queued(x)

\* One timeout in a turn: none is left when the SIP side is to be told.
TimerInv ==
  ~world.together =>
    /\ \A x, y \in Timers : Queued(x) /\ Queued(y) => x = y
    /\ Queued(SipCb) => \A x \in Timers : ~Queued(x)

\* A timer that has expired is that of a client.
ArmedInv == \A c \in Clients : Queued(Rtcp(c)) => Alive(c)

\* The kernel's table, and who has been allocated.
KernelInv ==
  /\ \A f \in Fds : open[f] <= nSockets
  /\ \A f, g \in Fds : open[f] = open[g] /\ open[f] # 0 => f = g
  /\ \A c \in Clients :
       /\ client[c].at = "unused" <=> c > nClients
       /\ client[c].at = "unused" <=> client[c].k = None
       /\ client[c].at = "unused" <=> client[c].fd = 0
       /\ client[c].at = "unused" <=> client[c].sock = 0
       /\ client[c].at = "dying" => world.breaks

\* Who knows a socket, knows it for one call.
Knows(k, s) ==
  \/ sip[k].sock = s
  \/ mail # <<>> /\ mail[1].k = k /\ mail[1].sock = s
  \/ \E c \in Clients : client[c].k = k /\ client[c].sock = s
OwnerInv ==
  /\ \A k \in Calls, s \in Sockets : Knows(k, s) => s <= nSockets
  /\ \A k, l \in Calls, s \in Sockets : Knows(k, s) /\ Knows(l, s) => k = l

\* A request between the two sides: the SIP node is gone when a STOP is under
\* way, and has the socket that a PLAY hands over.
Asked(cmd, k) == mail # <<>> /\ mail[1].cmd = cmd /\ mail[1].k = k
MailInv ==
  \A k \in Calls :
    /\ Asked("STOP", k) => sip[k] = NoSip
    /\ Bearable /\ Asked("PLAY", k) => sip[k] = [fd |-> mail[1].fd, sock |-> mail[1].sock]

\* What a client holds is open, and a call has one client at a time.
HasClient(k) == \E c \in Clients : client[c].k = k
HoldsOpen(k) == open[sip[k].fd] = sip[k].sock
AliveInv ==
  Bearable =>
    /\ \A c \in Clients : Alive(c) => open[client[c].fd] = client[c].sock
    /\ \A c, d \in Clients : Alive(c) /\ Alive(d) /\ client[c].k = client[d].k => c = d

\* Datagrams in order: how far the dialogue of a call has come tells what
\* there is of it.
There(m, k) == [m |-> m, k |-> k] \in net
PhaseInv(k) ==
  /\ There("INVITE", k) => peer[k] = "invited"
  /\ There("ACK", k) => peer[k] = "acked"
  /\ There("BYE", k) => peer[k] = "done"
  /\ peer[k] \in {"new", "invited"} => sip[k] = NoSip
  /\ peer[k] \in {"new", "invited", "answered"} \/ There("ACK", k) =>
       ~HasClient(k) /\ ~Asked("PLAY", k) /\ ~Asked("STOP", k)
  /\ peer[k] = "answered" \/ There("ACK", k) => sip[k] # NoSip
  /\ peer[k] \in {"acked", "done"} /\ ~There("ACK", k) => HasClient(k) \/ Asked("PLAY", k)
  /\ Asked("PLAY", k) => ~HasClient(k)
  /\ arg = k => HasClient(k)
ClosedInv(k) ==
  \A c \in Clients : client[c].k = k =>
    /\ \A d \in Clients : client[d].k = k => c = d
    /\ sip[k] # NoSip => client[c].sock = sip[k].sock
    /\ client[c].at = "gone" => \A f \in Fds : open[f] # client[c].sock
SipOpenInv(k) ==
  sip[k] # NoSip => HoldsOpen(k) \/ \E c \in Clients : client[c].k = k /\ client[c].at = "gone"
OrderInv ==
  ~world.late => \A k \in Calls : PhaseInv(k) /\ ClosedInv(k) /\ SipOpenInv(k)

\* Datagrams in any order, nothing failing: the SIP node of a call names an
\* open socket, and not the one of a client that was stopped.
LateInv ==
  world.late /\ Bearable =>
    /\ \A k \in Calls : sip[k] # NoSip => HoldsOpen(k)
    /\ \A c \in Clients :
         client[c].at \in {"flagged", "gone"} => sip[client[c].k].sock # client[c].sock

\* A client that timed out, and whose SIP node is still there: the SIP side is
\* about to be told.
LinkInv ==
  ~world.late /\ ~world.breaks /\ ~world.together =>
    \A c \in Clients :
      client[c].at \in {"flagged", "gone"} /\ sip[client[c].k] # NoSip =>
        Queued(SipCb) /\ arg = client[c].k

SafeInv == TypeOK /\ QueueInv /\ TimerInv /\ ArmedInv /\ KernelInv /\ OwnerInv /\ MailInv
SipInv  == SafeInv /\ AliveInv /\ OrderInv /\ NothingLeaks /\ LateInv /\ LinkInv
-----------------------------------------------------------------------------
\* The callbacks are different from each other.
LEMMA CallbackFacts ==
  /\ UdpCb # StreamCb /\ UdpCb # SipCb /\ StreamCb # SipCb
  /\ {UdpCb, StreamCb, SipCb} \subseteq Callbacks /\ Timers \subseteq Callbacks
  /\ \A x \in Timers : x # UdpCb /\ x # StreamCb /\ x # SipCb
  /\ \A c, d \in Clients : Rtcp(c) = Rtcp(d) => c = d
BY DEF UdpCb, StreamCb, SipCb, Timers, Rtcp, Callbacks

\* The callback that runs leaves the queue; the SIP socket is then not in it.
LEMMA RunFacts ==
  ASSUME TypeOK, QueueInv, NEW cb, Run(cb)
  PROVE  /\ Tail(active) \in Seq(Callbacks) /\ IsInjective(Tail(active))
         /\ ToSet(Tail(active)) = ToSet(active) \ {cb}
         /\ Queued(cb) /\ active # <<>>
         /\ UdpCb \notin ToSet(Tail(active))
<1>1. active \in Seq(Callbacks) /\ active # <<>> /\ Head(active) = cb
  BY DEF TypeOK, Run
<1>2. IsInjective(active)
  BY DEF QueueInv
<1>3. Tail(active) \in Seq(Callbacks)
  BY <1>1, HeadTailProperties
<1>4. /\ Head(active) \in ToSet(active)
      /\ ToSet(Tail(active)) = ToSet(active) \ {Head(active)}
      /\ IsInjective(Tail(active))
  BY <1>1, <1>2, TailElems
<1> QED BY <1>1, <1>3, <1>4 DEF QueueInv, Queued

\* A callback that is triggered goes to the end, unless it is there.
LEMMA ActivateFacts ==
  ASSUME NEW q \in Seq(Callbacks), IsInjective(q), NEW cb \in Callbacks
  PROVE  /\ Activate(q, cb) \in Seq(Callbacks) /\ IsInjective(Activate(q, cb))
         /\ ToSet(Activate(q, cb)) = ToSet(q) \cup {cb}
<1>1. CASE cb \in ToSet(q)
  BY <1>1 DEF Activate
<1>2. CASE cb \notin ToSet(q)
  <2>1. Append(q, cb) \in Seq(Callbacks)
    BY AppendProperties
  <2>2. ToSet(Append(q, cb)) = ToSet(q) \cup {cb} /\ IsInjective(Append(q, cb))
    BY <1>2, AppendElems
  <2> QED BY <1>2, <2>1, <2>2 DEF Activate
<1> QED BY <1>1, <1>2

\* event_del takes one callback away and leaves the first one where it is.
LEMMA DeactivateFacts ==
  ASSUME NEW q \in Seq(Callbacks), IsInjective(q), NEW cb
  PROVE  /\ Deactivate(q, cb) \in Seq(Callbacks) /\ IsInjective(Deactivate(q, cb))
         /\ ToSet(Deactivate(q, cb)) = ToSet(q) \ {cb}
         /\ q # <<>> /\ Head(q) # cb => Head(Deactivate(q, cb)) = Head(q)
<1>1. CASE cb \notin ToSet(q)
  BY <1>1 DEF Deactivate
<1>2. CASE cb \in ToSet(q)
  <2> DEFINE p == CHOOSE i \in DOMAIN q : q[i] = cb
  <2>1. p \in DOMAIN q /\ q[p] = cb
    BY <1>2 DEF ToSet
  <2>2. p \in 1 .. Len(q)
    BY <2>1
  <2>3. Deactivate(q, cb) = RemoveAt(q, p)
    BY <1>2 DEF Deactivate
  <2> HIDE DEF p
  <2>4. /\ ToSet(RemoveAt(q, p)) = ToSet(q) \ {q[p]}
        /\ IsInjective(RemoveAt(q, p)) /\ RemoveAt(q, p) \in Seq(Callbacks)
        /\ p # 1 => Head(RemoveAt(q, p)) = Head(q)
    BY <2>2, RemoveElems
  <2>5. q # <<>> => Head(q) = q[1]
    BY HeadTailProperties
  <2> QED BY <2>1, <2>3, <2>4, <2>5
<1> QED BY <1>1, <1>2

\* Steps that put no timer and not the SIP side's callback into the queue.
LEMMA QueueKept ==
  ASSUME QueueInv, TimerInv, world' = world, IsInjective(active'),
         Queued(UdpCb)' => /\ Queued(UdpCb) /\ Head(active') = Head(active)
                           /\ (Queued(StreamCb)' => Queued(StreamCb)),
         \A x \in Timers \cup {SipCb} : Queued(x)' => Queued(x),
         mail' # <<>> => Len(mail') = 1 /\ Queued(StreamCb)',
         ~world.rtcp => arg' = None
  PROVE  QueueInv' /\ TimerInv'
<1>1. Queued(SipCb)' => Queued(SipCb)
  OBVIOUS
<1>2. \A x \in Timers : Queued(x)' => Queued(x)
  OBVIOUS
<1>3. QueueInv'
  BY <1>1, <1>2 DEF QueueInv
<1>4. TimerInv'
  BY <1>1, <1>2 DEF TimerInv
<1> QED BY <1>3, <1>4

\* udp_recv_cb, with or without a request to the stream side.
LEMMA RecvQueue ==
  ASSUME TypeOK, QueueInv, TimerInv, Run(UdpCb), world' = world, arg' = arg,
         \/ active' = Tail(active) /\ mail' = mail
         \/ \E x \in Messages : /\ mail' = Append(mail, x)
                                /\ active' = Activate(Tail(active), StreamCb)
  PROVE  /\ mail = <<>> /\ active' \in Seq(Callbacks) /\ QueueInv' /\ TimerInv'
         /\ \A x \in Timers : Queued(x)' => Queued(x)
<1> DEFINE q == Tail(active)
<1>1. /\ q \in Seq(Callbacks) /\ IsInjective(q)
      /\ ToSet(q) = ToSet(active) \ {UdpCb} /\ Queued(UdpCb) /\ UdpCb \notin ToSet(q)
  BY RunFacts
<1>2. mail = <<>>
  BY <1>1 DEF QueueInv
<1>3. ~world.rtcp => arg' = None
  BY DEF QueueInv
<1> HIDE DEF q
<1>4. CASE active' = q /\ mail' = mail
  <2>1. \A cb : Queued(cb)' => cb # UdpCb /\ Queued(cb)
    BY <1>1, <1>4 DEF Queued
  <2>2. IsInjective(active') /\ active' \in Seq(Callbacks) /\ mail' = <<>>
    BY <1>1, <1>2, <1>4
  <2> QED BY <1>2, <1>3, <2>1, <2>2, QueueKept
<1>5. CASE \E x \in Messages : mail' = Append(mail, x) /\ active' = Activate(q, StreamCb)
  <2>1. PICK x \in Messages : mail' = Append(mail, x) /\ active' = Activate(q, StreamCb)
    BY <1>5
  <2>2. /\ active' \in Seq(Callbacks) /\ IsInjective(active')
        /\ ToSet(active') = ToSet(q) \cup {StreamCb}
    BY <1>1, <2>1, CallbackFacts, ActivateFacts
  <2>3. mail' = <<x>>
    BY <1>2, <2>1
  <2>4. Len(mail') = 1
    BY <2>3
  <2>5. /\ ~Queued(UdpCb)' /\ Queued(StreamCb)'
        /\ \A y \in Timers \cup {SipCb} : Queued(y)' => Queued(y)
    BY <1>1, <2>2, CallbackFacts DEF Queued
  <2> QED BY <1>2, <1>3, <2>2, <2>4, <2>5, QueueKept
<1> QED BY <1>4, <1>5 DEF q

\* stream_read_cb takes the one request there is.
LEMMA ReadQueue ==
  ASSUME TypeOK, QueueInv, TimerInv, Run(StreamCb), mail # <<>>, mail' = Tail(mail),
         active' = Tail(active), world' = world, arg' = arg
  PROVE  /\ mail' = <<>> /\ active' \in Seq(Callbacks) /\ QueueInv' /\ TimerInv'
         /\ \A x \in Timers : Queued(x)' => Queued(x)
         /\ Queued(SipCb)' <=> Queued(SipCb)
<1>1. /\ active' \in Seq(Callbacks) /\ IsInjective(active')
      /\ ToSet(active') = ToSet(active) \ {StreamCb} /\ UdpCb \notin ToSet(active')
  BY RunFacts
<1>2. mail' = <<>>
  <2>1. mail \in Seq(Messages) /\ Len(mail) = 1
    BY DEF TypeOK, QueueInv
  <2> QED BY <2>1
<1>3. ~world.rtcp => arg' = None
  BY DEF QueueInv
<1>4. /\ ~Queued(UdpCb)'
      /\ \A y \in Timers \cup {SipCb} : Queued(y)' => Queued(y)
      /\ Queued(SipCb)' <=> Queued(SipCb)
  BY <1>1, CallbackFacts DEF Queued
<1> QED BY <1>1, <1>2, <1>3, <1>4, QueueKept

\* sip_pair_read_cb.
LEMMA PairQueue ==
  ASSUME TypeOK, QueueInv, TimerInv, Run(SipCb), mail' = mail,
         active' = Tail(active), world' = world, arg' = arg
  PROVE  /\ world.rtcp /\ active' \in Seq(Callbacks) /\ QueueInv' /\ TimerInv'
         /\ \A x \in Timers : Queued(x)' => Queued(x)
<1>1. /\ active' \in Seq(Callbacks) /\ IsInjective(active') /\ Queued(SipCb)
      /\ ToSet(active') = ToSet(active) \ {SipCb} /\ UdpCb \notin ToSet(active')
  BY RunFacts
<1>2. world.rtcp \in BOOLEAN
  BY WorldsAssumption DEF TypeOK
<1>3. /\ ~world.rtcp => arg' = None
      /\ world.rtcp
  BY <1>1, <1>2 DEF QueueInv
<1>4. /\ ~Queued(UdpCb)'
      /\ \A y \in Timers \cup {SipCb} : Queued(y)' => Queued(y)
  BY <1>1 DEF Queued
<1>5. mail' # <<>> => Len(mail') = 1 /\ Queued(StreamCb)'
  BY <1>1, CallbackFacts DEF QueueInv, Queued
<1> QED BY <1>1, <1>3, <1>4, <1>5, QueueKept

\* A client's timer is taken out of the queue.
LEMMA RemoveQueue ==
  ASSUME TypeOK, QueueInv, TimerInv, NEW c \in Clients, mail' = mail,
         active' = Deactivate(active, Rtcp(c)), world' = world, arg' = arg
  PROVE  /\ active' \in Seq(Callbacks) /\ QueueInv' /\ TimerInv'
         /\ Queued(SipCb)' <=> Queued(SipCb)
         /\ \A x \in Timers : Queued(x)' => Queued(x) /\ x # Rtcp(c)
<1>1. active \in Seq(Callbacks) /\ IsInjective(active)
  BY DEF TypeOK, QueueInv
<1>2. /\ active' \in Seq(Callbacks) /\ IsInjective(active')
      /\ ToSet(active') = ToSet(active) \ {Rtcp(c)}
      /\ active # <<>> /\ Head(active) # Rtcp(c) => Head(active') = Head(active)
  BY <1>1, DeactivateFacts
<1>3. Rtcp(c) \in Timers
  BY DEF Timers
<1>4. /\ Queued(SipCb)' <=> Queued(SipCb)
      /\ Queued(StreamCb)' <=> Queued(StreamCb)
      /\ Queued(UdpCb)' <=> Queued(UdpCb)
      /\ \A y \in Timers \cup {SipCb} : Queued(y)' => Queued(y)
  BY <1>2, <1>3, CallbackFacts DEF Queued
<1>5. Queued(UdpCb)' => Head(active') = Head(active)
  <2>1. Queued(UdpCb) => active # <<>> /\ Head(active) = UdpCb
    BY DEF QueueInv, Queued, ToSet
  <2> QED BY <1>2, <1>3, <1>4, <2>1, CallbackFacts
<1>6. mail' # <<>> => Len(mail') = 1 /\ Queued(StreamCb)'
  BY <1>4 DEF QueueInv
<1>7. ~world.rtcp => arg' = None
  BY DEF QueueInv
<1>8. \A x \in Timers : Queued(x)' => Queued(x) /\ x # Rtcp(c)
  BY <1>2 DEF Queued
<1> QED BY <1>2, <1>4, <1>5, <1>6, <1>7, <1>8, QueueKept

\* A timer has expired: only now the SIP side's callback comes into the queue.
LEMMA TimeoutQueue ==
  ASSUME TypeOK, QueueInv, TimerInv, NEW c \in Clients, Run(Rtcp(c)), mail' = mail,
         active' = Activate(Tail(active), SipCb), world' = world
  PROVE  /\ world.rtcp /\ active' \in Seq(Callbacks) /\ QueueInv' /\ TimerInv'
         /\ Queued(SipCb)' /\ (~world.together => ~Queued(SipCb))
         /\ Queued(Rtcp(c)) /\ \A x \in Timers : Queued(x)' => Queued(x)
<1> DEFINE q == Tail(active)
<1>1. /\ q \in Seq(Callbacks) /\ IsInjective(q) /\ Queued(Rtcp(c))
      /\ ToSet(q) = ToSet(active) \ {Rtcp(c)} /\ UdpCb \notin ToSet(q)
  BY RunFacts
<1>2. Rtcp(c) \in Timers /\ SipCb \in Callbacks
  BY CallbackFacts DEF Timers
<1>3. /\ active' \in Seq(Callbacks) /\ IsInjective(active')
      /\ ToSet(active') = ToSet(q) \cup {SipCb}
  BY <1>1, <1>2, ActivateFacts
<1>4. world.rtcp /\ (~world.together => ~Queued(SipCb))
  BY <1>1, <1>2 DEF QueueInv, TimerInv
<1> HIDE DEF q
<1>5. /\ ~Queued(UdpCb)' /\ Queued(SipCb)'
      /\ Queued(StreamCb)' <=> Queued(StreamCb)
      /\ \A y \in Timers : Queued(y)' => Queued(y) /\ y # Rtcp(c)
  BY <1>1, <1>2, <1>3, CallbackFacts DEF Queued
<1>6. QueueInv'
  BY <1>3, <1>4, <1>5 DEF QueueInv
<1>7. TimerInv'
  BY <1>1, <1>2, <1>5 DEF TimerInv
<1> QED BY <1>1, <1>3, <1>4, <1>5, <1>6, <1>7

\* The callbacks of a turn: the SIP socket, then one or two timers.
LEMMA OneCallback ==
  ASSUME NEW x \in Callbacks
  PROVE  /\ <<x>> \in Seq(Callbacks) /\ IsInjective(<<x>>) /\ ToSet(<<x>>) = {x}
         /\ Head(<<x>>) = x /\ <<x>> \o <<>> = <<x>> /\ <<>> \o <<x>> = <<x>>
BY DEF IsInjective, ToSet

LEMMA TwoCallbacks ==
  ASSUME NEW x \in Callbacks, NEW y \in Callbacks, x # y
  PROVE  /\ <<x, y>> \in Seq(Callbacks) /\ IsInjective(<<x, y>>)
         /\ ToSet(<<x, y>>) = {x, y} /\ Head(<<x, y>>) = x
         /\ <<x>> \o <<y>> = <<x, y>> /\ <<>> \o <<x, y>> = <<x, y>>
<1>1. DOMAIN <<x, y>> = {1, 2} /\ <<x, y>>[1] = x /\ <<x, y>>[2] = y
  OBVIOUS
<1>2. ToSet(<<x, y>>) = {x, y}
  BY <1>1 DEF ToSet
<1>3. IsInjective(<<x, y>>)
  BY <1>1 DEF IsInjective
<1>4. <<x, y>> \in Seq(Callbacks) /\ Head(<<x, y>>) = x
  OBVIOUS
<1>5. <<x>> \o <<y>> = <<x, y>>
  <2>1. /\ <<x>> \in Seq(Callbacks) /\ Len(<<x>>) = 1 /\ <<x>>[1] = x
        /\ <<y>> \in Seq(Callbacks) /\ Len(<<y>>) = 1 /\ <<y>>[1] = y
    OBVIOUS
  <2> DEFINE r == <<x>> \o <<y>>
  <2>2. Len(r) = 2 /\ r \in Seq(Callbacks) /\ r[1] = x /\ r[2] = y
    BY <2>1, ConcatProperties
  <2> HIDE DEF r
  <2>3. r = <<x, y>>
    BY <1>4, <2>2, SeqEqual
  <2> QED BY <2>3 DEF r
<1>6. <<>> \o <<x, y>> = <<x, y>>
  OBVIOUS
<1> QED BY <1>2, <1>3, <1>4, <1>5, <1>6

LEMMA ThreeCallbacks ==
  ASSUME NEW x \in Callbacks, NEW y \in Callbacks, NEW z \in Callbacks,
         x # y, x # z, y # z
  PROVE  /\ <<x, y, z>> \in Seq(Callbacks) /\ IsInjective(<<x, y, z>>)
         /\ ToSet(<<x, y, z>>) = {x, y, z} /\ Head(<<x, y, z>>) = x
         /\ <<x>> \o <<y, z>> = <<x, y, z>>
<1>1. /\ DOMAIN <<x, y, z>> = {1, 2, 3}
      /\ <<x, y, z>>[1] = x /\ <<x, y, z>>[2] = y /\ <<x, y, z>>[3] = z
  OBVIOUS
<1>2. ToSet(<<x, y, z>>) = {x, y, z}
  BY <1>1 DEF ToSet
<1>3. IsInjective(<<x, y, z>>)
  BY <1>1 DEF IsInjective
<1>4. <<x, y, z>> \in Seq(Callbacks) /\ Head(<<x, y, z>>) = x
  OBVIOUS
<1>5. <<x>> \o <<y, z>> = <<x, y, z>>
  <2> DEFINE r == <<x>> \o <<y, z>>
  <2>1. /\ <<x>> \in Seq(Callbacks) /\ Len(<<x>>) = 1 /\ <<x>>[1] = x
        /\ <<y, z>> \in Seq(Callbacks) /\ Len(<<y, z>>) = 2
        /\ <<y, z>>[1] = y /\ <<y, z>>[2] = z
    OBVIOUS
  <2>2. /\ Len(r) = 3 /\ r \in Seq(Callbacks) /\ r[1] = x /\ r[2] = y /\ r[3] = z
    BY <2>1, ConcatProperties
  <2> HIDE DEF r
  <2>3. r = <<x, y, z>>
    BY <1>4, <2>2, SeqEqual
  <2> QED BY <2>3 DEF r
<1> QED BY <1>2, <1>3, <1>4, <1>5

LEMMA DispatchQueue ==
  ASSUME TypeOK, QueueInv, TimerInv, Dispatch
  PROVE  active = <<>> /\ active' \in Seq(Callbacks) /\ QueueInv' /\ TimerInv' /\ ~Queued(SipCb)'
<1>1. active = <<>> /\ UNCHANGED <<world, mail, arg>>
  BY DEF Dispatch, Turn, peerVars, pairVars
<1>2. ToSet(active) = {}
  BY <1>1 DEF ToSet
<1>3. mail = <<>>
  BY <1>2 DEF QueueInv, Queued
<1>4. PICK ready \in {<<>>, <<UdpCb>>}, timers \in Expired :
        ready \o timers # <<>> /\ active' = ready \o timers
  BY DEF Dispatch, UdpCb
<1>5. \/ timers = <<>>
      \/ world.rtcp /\ \E x \in Timers : timers = <<x>>
      \/ world.rtcp /\ world.together /\ \E x, y \in Timers : x # y /\ timers = <<x, y>>
  <2>1. CASE ~world.rtcp
    BY <2>1 DEF Expired
  <2>2. CASE world.rtcp
    <3>1. CASE \E c \in Clients : timers = <<Rtcp(c)>>
      BY <2>2, <3>1 DEF Timers
    <3>2. CASE \E p \in {q \in Clients \X Clients :
                  world.together /\ q[1] # q[2] /\ Alive(q[1]) /\ Alive(q[2])} :
                 timers = <<Rtcp(p[1]), Rtcp(p[2])>>
      BY <2>2, <3>2, CallbackFacts DEF Timers
    <3> QED BY <2>2, <3>1, <3>2 DEF Expired
  <2> QED BY <2>1, <2>2
<1> DEFINE Shape(q) ==
             /\ q \in Seq(Callbacks) /\ IsInjective(q)
             /\ ToSet(q) \subseteq {UdpCb} \cup Timers
             /\ UdpCb \in ToSet(q) => Head(q) = UdpCb
             /\ ~world.rtcp => ToSet(q) \subseteq {UdpCb}
             /\ ~world.together => \A x, y \in Timers :
                  x \in ToSet(q) /\ y \in ToSet(q) => x = y
<1>6. Shape(active')
  <2>1. UdpCb \in Callbacks /\ Timers \subseteq Callbacks /\ \A x \in Timers : x # UdpCb
    BY CallbackFacts
  <2>2. CASE timers = <<>>
    <3>1. active' = <<UdpCb>>
      BY <1>4, <2>1, <2>2, OneCallback
    <3>2. Shape(<<UdpCb>>)
      BY <2>1, OneCallback
    <3> QED BY <3>1, <3>2
  <2>3. CASE world.rtcp /\ \E x \in Timers : timers = <<x>>
    <3>1. PICK x \in Timers : timers = <<x>>
      BY <2>3
    <3>2. Shape(<<x>>) /\ <<>> \o <<x>> = <<x>>
      BY <2>1, <2>3, OneCallback
    <3>3. Shape(<<UdpCb, x>>) /\ <<UdpCb>> \o <<x>> = <<UdpCb, x>>
      BY <2>1, <2>3, TwoCallbacks
    <3>4. active' = <<x>> \/ active' = <<UdpCb, x>>
      BY <1>4, <3>1, <3>2, <3>3
    <3> HIDE DEF Shape
    <3> QED BY <3>2, <3>3, <3>4
  <2>4. CASE world.rtcp /\ world.together /\ \E x, y \in Timers : x # y /\ timers = <<x, y>>
    <3>1. PICK x \in Timers, y \in Timers : x # y /\ timers = <<x, y>>
      BY <2>4
    <3>2. Shape(<<x, y>>) /\ <<>> \o <<x, y>> = <<x, y>>
      <4>1. /\ <<x, y>> \in Seq(Callbacks) /\ IsInjective(<<x, y>>)
            /\ ToSet(<<x, y>>) = {x, y} /\ <<>> \o <<x, y>> = <<x, y>>
        BY <2>1, <3>1, TwoCallbacks
      <4> QED BY <4>1, <2>1, <2>4
    <3>3. Shape(<<UdpCb, x, y>>) /\ <<UdpCb>> \o <<x, y>> = <<UdpCb, x, y>>
      BY <2>1, <2>4, <3>1, ThreeCallbacks
    <3>4. active' = <<x, y>> \/ active' = <<UdpCb, x, y>>
      BY <1>4, <3>1, <3>2, <3>3
    <3> HIDE DEF Shape
    <3> QED BY <3>2, <3>3, <3>4
  <2> QED BY <1>5, <2>2, <2>3, <2>4
<1>7. \A x \in Timers \cup {UdpCb} : x # StreamCb /\ x # SipCb
  BY CallbackFacts
<1>8. ~Queued(StreamCb)' /\ ~Queued(SipCb)'
  BY <1>6, <1>7 DEF Queued
<1>9. QueueInv'
  <2>1. ~world.rtcp => \A x \in Timers : x \notin ToSet(active')
    BY <1>6, CallbackFacts
  <2> QED BY <1>1, <1>3, <1>6, <1>8, <2>1 DEF QueueInv, Queued
<1>10. TimerInv'
  BY <1>1, <1>6, <1>8 DEF TimerInv, Queued
<1> QED BY <1>1, <1>6, <1>8, <1>9, <1>10

\* Only the timer of a client can expire.
LEMMA DispatchArmed ==
  ASSUME Dispatch, NEW c \in Clients, Queued(Rtcp(c))' PROVE Alive(c)
<1>1. PICK ready \in {<<>>, <<UdpCb>>}, timers \in Expired : active' = ready \o timers
  BY DEF Dispatch, UdpCb
<1>2. \/ timers = <<>>
      \/ (\E d \in Clients : Alive(d) /\ timers = <<Rtcp(d)>>)
      \/ \E d, e \in Clients : Alive(d) /\ Alive(e) /\ timers = <<Rtcp(d), Rtcp(e)>>
  BY DEF Expired
<1>3. Rtcp(c) # UdpCb /\ \A d \in Clients : Rtcp(c) = Rtcp(d) => c = d
  BY DEF Rtcp, UdpCb
<1> DEFINE S == Callbacks
<1>4. /\ ready \in Seq(S) /\ Len(ready) \in Nat
      /\ \A i \in 1 .. Len(ready) : ready[i] = UdpCb
  <2>1. UdpCb \in S
    BY CallbackFacts
  <2> HIDE DEF S
  <2>2. CASE ready = <<>>
    BY <2>2
  <2>3. CASE ready = <<UdpCb>>
    BY <2>1, <2>3
  <2> QED BY <2>2, <2>3
<1>5. /\ timers \in Seq(S) /\ Len(timers) \in Nat
      /\ \A i \in 1 .. Len(timers) : \E d \in Clients : Alive(d) /\ timers[i] = Rtcp(d)
  <2>1. \A d \in Clients : Rtcp(d) \in S
    BY CallbackFacts DEF Timers
  <2>2. CASE timers = <<>>
    BY <2>2
  <2>3. CASE \E d \in Clients : Alive(d) /\ timers = <<Rtcp(d)>>
    BY <2>1, <2>3
  <2>4. CASE \E d, e \in Clients : Alive(d) /\ Alive(e) /\ timers = <<Rtcp(d), Rtcp(e)>>
    BY <2>1, <2>4
  <2> QED BY <1>2, <2>2, <2>3, <2>4
<1> HIDE DEF S
<1>6. PICK i \in 1 .. Len(ready) + Len(timers) : active'[i] = Rtcp(c)
  <2>1. Len(ready \o timers) = Len(ready) + Len(timers) /\ ready \o timers \in Seq(S)
    BY <1>4, <1>5, ConcatProperties
  <2> QED BY <1>1, <2>1 DEF Queued, ToSet
<1>7. active'[i] = IF i <= Len(ready) THEN ready[i] ELSE timers[i - Len(ready)]
  BY <1>1, <1>4, <1>5, ConcatProperties
<1> QED BY <1>3, <1>4, <1>5, <1>6, <1>7

-----------------------------------------------------------------------------
\* The kernel has a descriptor for a socket, since it has given out fewer
\* sockets than there are, and an open one each its own descriptor.
LEMMA FreeFdFacts ==
  ASSUME TypeOK, KernelInv, nSockets < MaxSockets
  PROVE  FreeFd \in Fds /\ open[FreeFd] = 0
<1>1. /\ open \in [Fds -> Sockets \cup {0}] /\ nSockets \in Nat /\ MaxSockets \in Nat
      /\ Sockets = 1 .. MaxSockets /\ Fds = 1 .. MaxSockets
  BY BoundAssumption DEF TypeOK, Sockets, Fds
<1> DEFINE F == {f \in Fds : open[f] = 0}
<1>2. F # {}
  <2> SUFFICES ASSUME \A f \in Fds : open[f] # 0 PROVE FALSE
    OBVIOUS
  <2>1. open \in [Fds -> 1 .. nSockets]
    BY <1>1 DEF KernelInv
  <2>2. /\ IsFiniteSet(Fds) /\ IsFiniteSet(1 .. nSockets)
        /\ Cardinality(1 .. nSockets) = nSockets /\ Cardinality(Fds) = MaxSockets
    <3>1. \A n \in Nat : IsFiniteSet(1 .. n) /\ Cardinality(1 .. n) = n
      <4>1. ASSUME NEW n \in Nat
            PROVE  /\ IsFiniteSet(1 .. n)
                   /\ Cardinality(1 .. n) = IF 1 > n THEN 0 ELSE n - 1 + 1
        BY FS_Interval
      <4> QED BY <4>1
    <3> QED BY <1>1, <3>1
  <2>3. \E x, y \in Fds : x # y /\ open[x] = open[y]
    BY <2>1, <2>2, FS_PigeonHole
  <2> QED BY <2>3 DEF KernelInv
<1>3. F \in SUBSET Nat
  BY <1>1
<1> HIDE DEF F
<1>4. PICK f \in F : \A g \in F : f <= g
  BY <1>2, <1>3, LeastNatural
<1>5. f \in Fds /\ open[f] = 0 /\ \A g \in Fds : g < f => open[g] # 0
  <2>1. \A g \in Fds : g < f => ~ (f <= g)
    BY <1>1, <1>3, <1>4
  <2> QED BY <1>4, <2>1 DEF F
<1> QED BY <1>5, Zenon DEF FreeFd

\* A SIP node that is there names a descriptor and a socket.
LEMMA SipFacts ==
  ASSUME TypeOK, NEW k \in Calls
  PROVE  /\ sip[k] # NoSip => sip[k].fd \in Fds /\ sip[k].sock \in Sockets
         /\ sip[k] # NoSip => sip[k] = [fd |-> sip[k].fd, sock |-> sip[k].sock]
         /\ sip[k] = NoSip <=> sip[k].sock = 0
         /\ 0 \notin Fds /\ 0 \notin Sockets
<1>1. sip[k] \in [fd : Fds, sock : Sockets] \cup {NoSip} /\ 0 \notin Sockets /\ 0 \notin Fds
  BY DEF TypeOK, SipNodes, Fds, Sockets
<1>2. NoSip.sock = 0
  BY DEF NoSip
<1> QED BY <1>1, <1>2

\* Steps after which nobody knows a socket he did not know.
LEMMA OwnerKept ==
  ASSUME OwnerInv, nSockets' = nSockets,
         \A k \in Calls, s \in Sockets : Knows(k, s)' => Knows(k, s)
  PROVE  OwnerInv'
BY DEF OwnerInv

\* Steps that put no timer into the queue, and free no client with a timer in it.
LEMMA ArmedKept ==
  ASSUME ArmedInv, \A x \in Timers : Queued(x)' => Queued(x),
         \A c \in Clients : Alive(c) => Alive(c)'
  PROVE  ArmedInv'
BY DEF ArmedInv, Timers

\* The SIP server sends a datagram.
LEMMA SendSafe ==
  ASSUME SafeInv, NEW k \in Calls, SendInvite(k) \/ SendAck(k) \/ SendBye(k)
  PROVE  SafeInv'
<1>1. PICK m \in {"INVITE", "ACK", "BYE"}, b \in {"new", "answered", "acked"},
           a \in {"invited", "acked", "done"} : Send(k, m, b, a)
  BY DEF SendInvite, SendAck, SendBye
<1>2. UNCHANGED <<world, open, nSockets, active, mail, arg, sip, nClients, client>>
  BY <1>1 DEF Send, kernelVars, pairVars, streamVars
<1>3. TypeOK'
  <2>1. net' = net \cup {[m |-> m, k |-> k]} /\ peer' = [peer EXCEPT ![k] = a]
    BY <1>1 DEF Send
  <2>2. [m |-> m, k |-> k] \in Datagrams
    BY DEF Datagrams
  <2> QED BY <1>2, <2>1, <2>2 DEF SafeInv, TypeOK
<1>4. QueueInv' /\ TimerInv'
  BY <1>2 DEF SafeInv, QueueInv, TimerInv, Queued
<1>5. KernelInv'
  BY <1>2 DEF SafeInv, KernelInv
<1>6. OwnerInv'
  BY <1>2, OwnerKept DEF SafeInv, Knows
<1>7. MailInv'
  BY <1>2 DEF SafeInv, MailInv, Asked, Bearable
<1>8. ArmedInv'
  BY <1>2 DEF SafeInv, ArmedInv, Queued, Alive
<1> QED BY <1>3, <1>4, <1>5, <1>6, <1>7, <1>8 DEF SafeInv

\* A turn of the loop begins.
LEMMA DispatchSafe ==
  ASSUME SafeInv, Dispatch
  PROVE  /\ SafeInv' /\ active = <<>> /\ ~Queued(SipCb)'
         /\ UNCHANGED <<world, peer, net, open, nSockets, mail, arg, sip, nClients, client>>
<1>1. UNCHANGED <<world, peer, net, open, nSockets, mail, arg, sip, nClients, client>>
  BY DEF Dispatch, peerVars, kernelVars, pairVars, streamVars
<1>2. active' \in Seq(Callbacks) /\ QueueInv' /\ TimerInv' /\ active = <<>> /\ ~Queued(SipCb)'
  BY DispatchQueue DEF SafeInv
<1>3. TypeOK'
  BY <1>1, <1>2 DEF SafeInv, TypeOK
<1>4. KernelInv'
  BY <1>1 DEF SafeInv, KernelInv
<1>5. OwnerInv'
  BY <1>1, OwnerKept DEF SafeInv, Knows
<1>6. MailInv'
  BY <1>1 DEF SafeInv, MailInv, Asked, Bearable
<1>7. ArmedInv'
  BY <1>1, DispatchArmed DEF ArmedInv, Alive
<1> QED BY <1>1, <1>2, <1>3, <1>4, <1>5, <1>6, <1>7 DEF SafeInv

\* udp_recv_cb takes a datagram, which may stay on its way.
LEMMA ReceiveFacts ==
  ASSUME NEW d, Receive(d)
  PROVE  /\ Run(UdpCb) /\ d \in net /\ net' \subseteq net
         /\ ~world.late => net' = net \ {d}
BY DEF Receive, UdpCb

\* A copy of a SIP node that is there is a message.
LEMMA PostFacts ==
  ASSUME TypeOK, NEW k \in Calls, sip[k] # NoSip, NEW cmd \in {"PLAY", "STOP"}, Post(cmd, k)
  PROVE  LET x == [cmd |-> cmd, k |-> k, fd |-> sip[k].fd, sock |-> sip[k].sock]
         IN  /\ x \in Messages /\ mail' = Append(mail, x)
             /\ active' = Activate(Tail(active), StreamCb)
<1>1. sip[k].fd \in Fds /\ sip[k].sock \in Sockets
  BY SipFacts
<1> QED BY <1>1 DEF Post, Triggered, StreamCb, Messages

\* An INVITE: a new call gets a new socket.
LEMMA InviteSafe ==
  ASSUME SafeInv, NEW k \in Calls, RecvInvite(k)
  PROVE  SafeInv' /\ mail = <<>> /\ mail' = <<>>
<1> USE DEF SafeInv
<1>1. /\ UNCHANGED <<world, mail, arg, nClients, client>> /\ active' = Tail(active)
      /\ Receive([m |-> "INVITE", k |-> k])
      /\ peer' = [peer EXCEPT ![k] = IF @ = "invited" THEN "answered" ELSE @]
  BY DEF RecvInvite, pairVars, streamVars
<1>2. Run(UdpCb) /\ net' \subseteq net
  BY <1>1, ReceiveFacts
<1>3. /\ mail = <<>> /\ active' \in Seq(Callbacks) /\ QueueInv' /\ TimerInv'
      /\ ArmedInv'
  BY <1>1, <1>2, RecvQueue, ArmedKept DEF Alive
<1>4. MailInv'
  BY <1>1, <1>3 DEF MailInv, Asked
<1>5. CASE KnowsCall(k)
  <2>1. UNCHANGED <<open, nSockets, sip>>
    BY <1>5 DEF RecvInvite, kernelVars
  <2>2. TypeOK'
    BY <1>1, <1>2, <1>3, <2>1 DEF TypeOK
  <2>3. KernelInv'
    BY <1>1, <2>1 DEF KernelInv
  <2>4. OwnerInv'
    BY <1>1, <2>1, OwnerKept DEF Knows
  <2> QED BY <1>1, <1>3, <1>4, <2>2, <2>3, <2>4
<1>6. CASE ~KnowsCall(k)
  <2>1. /\ nSockets < MaxSockets /\ nSockets' = nSockets + 1
        /\ open' = [open EXCEPT ![FreeFd] = nSockets + 1]
        /\ sip' = [sip EXCEPT ![k] = [fd |-> FreeFd, sock |-> nSockets + 1]]
    BY <1>6 DEF RecvInvite, NewSession
  <2>2. FreeFd \in Fds /\ open[FreeFd] = 0
    BY <2>1, FreeFdFacts
  <2>3. /\ nSockets + 1 \in Sockets /\ nSockets \in Nat /\ nSockets' \in 0 .. MaxSockets
        /\ open \in [Fds -> Sockets \cup {0}] /\ Sockets \subseteq Nat
    BY <2>1, BoundAssumption DEF TypeOK, Sockets
  <2>4. TypeOK'
    <3>1. [fd |-> FreeFd, sock |-> nSockets + 1] \in SipNodes
      BY <2>2, <2>3 DEF SipNodes
    <3>2. sip' \in [Calls -> SipNodes]
      BY <2>1, <3>1 DEF TypeOK
    <3>3. open' \in [Fds -> Sockets \cup {0}]
      BY <2>1, <2>2, <2>3
    <3> QED BY <1>1, <1>2, <1>3, <2>3, <3>2, <3>3 DEF TypeOK
  <2>5. KernelInv'
    <3>1. \A f \in Fds : open[f] <= nSockets /\ open[f] \in Nat
      <4>1. Sockets \cup {0} \subseteq Nat
        BY <2>3
      <4>2. \A f \in Fds : open[f] \in Nat
        BY <2>3, <4>1
      <4> QED BY <4>2 DEF KernelInv
    <3>2. \A f \in Fds : open'[f] = IF f = FreeFd THEN nSockets + 1 ELSE open[f]
      BY <2>1, <2>2, <2>3
    <3>3. \A f \in Fds : open'[f] <= nSockets'
      BY <2>1, <2>3, <3>1, <3>2
    <3>4. \A f, g \in Fds : open'[f] = open'[g] /\ open'[f] # 0 => f = g
      BY <2>2, <2>3, <3>1, <3>2 DEF KernelInv
    <3> QED BY <1>1, <3>3, <3>4 DEF KernelInv
  <2>6. OwnerInv'
    <3>1. sip \in [Calls -> SipNodes]
      BY DEF TypeOK
    <3>2. \A l \in Calls, s \in Sockets :
            Knows(l, s)' => Knows(l, s) \/ (l = k /\ s = nSockets + 1)
      BY <1>1, <2>1, <3>1 DEF Knows
    <3>3. \A l \in Calls, s \in Sockets : Knows(l, s) => s <= nSockets
      BY DEF OwnerInv
    <3>4. ~ (nSockets + 1 <= nSockets)
      BY <2>3
    <3>5. \A l \in Calls, s \in Sockets : Knows(l, s)' => s <= nSockets'
      BY <2>1, <2>3, <3>2, <3>3
    <3>6. \A l, j \in Calls, s \in Sockets : Knows(l, s)' /\ Knows(j, s)' => l = j
      BY <3>2, <3>3, <3>4 DEF OwnerInv
    <3> QED BY <3>5, <3>6 DEF OwnerInv
  <2> QED BY <1>1, <1>3, <1>4, <2>4, <2>5, <2>6
<1> QED BY <1>5, <1>6

\* An ACK: a copy of the SIP node goes to the stream side.
LEMMA AckSafe ==
  ASSUME SafeInv, NEW k \in Calls, RecvAck(k)
  PROVE  SafeInv' /\ mail = <<>>
         /\ (sip[k] = NoSip => mail' = <<>>)
         /\ (sip[k] # NoSip =>
               mail' = <<[cmd |-> "PLAY", k |-> k, fd |-> sip[k].fd, sock |-> sip[k].sock]>>)
<1> USE DEF SafeInv
<1>1. /\ UNCHANGED <<world, peer, open, nSockets, arg, sip, nClients, client>>
      /\ Receive([m |-> "ACK", k |-> k])
  BY DEF RecvAck, kernelVars, streamVars
<1>2. Run(UdpCb) /\ net' \subseteq net
  BY <1>1, ReceiveFacts
<1> DEFINE x == [cmd |-> "PLAY", k |-> k, fd |-> sip[k].fd, sock |-> sip[k].sock]
<1>3. \/ sip[k] = NoSip /\ active' = Tail(active) /\ mail' = mail
      \/ /\ sip[k] # NoSip /\ x \in Messages /\ mail' = Append(mail, x)
         /\ active' = Activate(Tail(active), StreamCb)
  <2>1. CASE sip[k] = NoSip
    BY <2>1 DEF RecvAck
  <2>2. CASE sip[k] # NoSip
    BY <2>2, PostFacts DEF RecvAck
  <2> QED BY <2>1, <2>2
<1> HIDE DEF x
<1>4. /\ mail = <<>> /\ active' \in Seq(Callbacks) /\ QueueInv' /\ TimerInv'
      /\ ArmedInv'
  BY <1>1, <1>2, <1>3, RecvQueue, ArmedKept DEF Alive
<1>5. \/ sip[k] = NoSip /\ mail' = <<>>
      \/ sip[k] # NoSip /\ x \in Messages /\ mail' = <<x>>
  BY <1>3, <1>4
<1>6. TypeOK'
  <2>1. mail' \in Seq(Messages)
    <3>1. <<>> \in Seq(Messages) /\ (x \in Messages => <<x>> \in Seq(Messages))
      OBVIOUS
    <3> QED BY <1>5, <3>1
  <2> QED BY <1>1, <1>2, <1>4, <2>1 DEF TypeOK
<1>7. KernelInv'
  BY <1>1 DEF KernelInv
<1>8. x.cmd = "PLAY" /\ x.k = k /\ x.fd = sip[k].fd /\ x.sock = sip[k].sock
  BY DEF x
<1>9. mail' # <<>> => mail'[1] = x
  BY <1>5
<1>10. OwnerInv'
  BY <1>1, <1>8, <1>9, OwnerKept DEF Knows
<1>11. MailInv'
  <2>1. ASSUME NEW l \in Calls
        PROVE  ~Asked("STOP", l)' /\ (Asked("PLAY", l)' => l = k /\ sip[k] # NoSip)
    BY <1>5, <1>8, <1>9 DEF Asked
  <2>2. sip[k] # NoSip => sip[k] = [fd |-> sip[k].fd, sock |-> sip[k].sock]
    BY SipFacts
  <2> QED BY <1>1, <1>8, <1>9, <2>1, <2>2 DEF MailInv, Asked
<1> QED BY <1>4, <1>5, <1>6, <1>7, <1>10, <1>11 DEF x

\* A BYE: the stream side is to stop the call, the SIP node goes.
LEMMA ByeSafe ==
  ASSUME SafeInv, NEW k \in Calls, RecvBye(k)
  PROVE  SafeInv' /\ mail = <<>> /\ sip' = [sip EXCEPT ![k] = NoSip] /\ open' = open
         /\ (mail' = <<>> \/ (mail'[1].cmd = "STOP" /\ mail'[1].k = k))
<1> USE DEF SafeInv
<1>1. /\ UNCHANGED <<world, peer, nSockets, arg, nClients, client>>
      /\ Receive([m |-> "BYE", k |-> k])
  BY DEF RecvBye, streamVars
<1>2. Run(UdpCb) /\ net' \subseteq net
  BY <1>1, ReceiveFacts
<1> DEFINE x == [cmd |-> "STOP", k |-> k, fd |-> sip[k].fd, sock |-> sip[k].sock]
<1>3. /\ \/ sip[k] = NoSip /\ active' = Tail(active) /\ mail' = mail
         \/ /\ sip[k] # NoSip /\ x \in Messages /\ mail' = Append(mail, x)
            /\ active' = Activate(Tail(active), StreamCb)
      /\ sip' = [sip EXCEPT ![k] = NoSip] /\ open' = open
  <2>1. CASE sip[k] = NoSip
    BY <2>1 DEF RecvBye, TypeOK
  <2>2. CASE sip[k] # NoSip
    BY <2>2, PostFacts DEF RecvBye, AfterBye, OpenAfterBye
  <2> QED BY <2>1, <2>2
<1> HIDE DEF x
<1>4. /\ mail = <<>> /\ active' \in Seq(Callbacks) /\ QueueInv' /\ TimerInv'
      /\ ArmedInv'
  BY <1>1, <1>2, <1>3, RecvQueue, ArmedKept DEF Alive
<1>5. \/ mail' = <<>>
      \/ sip[k] # NoSip /\ x \in Messages /\ mail' = <<x>>
  BY <1>3, <1>4
<1>6. TypeOK'
  <2>1. sip' \in [Calls -> SipNodes]
    BY <1>3 DEF TypeOK, SipNodes
  <2>2. mail' \in Seq(Messages)
    <3>1. <<>> \in Seq(Messages) /\ (x \in Messages => <<x>> \in Seq(Messages))
      OBVIOUS
    <3> QED BY <1>5, <3>1
  <2> QED BY <1>1, <1>2, <1>3, <1>4, <2>1, <2>2 DEF TypeOK
<1>7. KernelInv'
  BY <1>1, <1>3 DEF KernelInv
<1>8. x.cmd = "STOP" /\ x.k = k /\ x.fd = sip[k].fd /\ x.sock = sip[k].sock
  BY DEF x
<1>9. mail' # <<>> => mail'[1] = x
  BY <1>5
<1>10. \A l \in Calls : sip'[l] = IF l = k THEN NoSip ELSE sip[l]
  BY <1>3 DEF TypeOK
<1>11. OwnerInv'
  <2>1. \A s \in Sockets : NoSip.sock # s
    BY DEF NoSip, Sockets
  <2> QED BY <1>1, <1>8, <1>9, <1>10, <2>1, OwnerKept DEF Knows
<1>12. MailInv'
  BY <1>8, <1>9, <1>10 DEF MailInv, Asked
<1>13. mail' = <<>> \/ (mail'[1].cmd = "STOP" /\ mail'[1].k = k)
  BY <1>8, <1>9
<1> QED BY <1>3, <1>4, <1>6, <1>7, <1>11, <1>12, <1>13

\* The one request there is, and what it names.
LEMMA MailFacts ==
  ASSUME TypeOK, mail # <<>>
  PROVE  /\ Head(mail) = mail[1] /\ mail[1] \in Messages
         /\ mail[1].k \in Calls /\ mail[1].cmd \in {"PLAY", "STOP"}
         /\ mail[1].fd \in Fds /\ mail[1].sock \in Sockets
<1>1. mail \in Seq(Messages)
  BY DEF TypeOK
<1>2. Head(mail) = mail[1] /\ mail[1] \in Messages
  BY <1>1
<1> QED BY <1>2 DEF Messages

\* What type correctness says of a client.
LEMMA ClientFacts ==
  ASSUME TypeOK, KernelInv, NEW c \in Clients
  PROVE  /\ client[c].at \in {"unused", "list", "flagged", "dying", "gone"}
         /\ client[c].at # "unused" =>
              client[c].k \in Calls /\ client[c].fd \in Fds /\ client[c].sock \in Sockets
         /\ client[c].at = "unused" => client[c].k \notin Calls
<1>1. client[c] \in ClientObjs
  BY DEF TypeOK
<1>2. /\ client[c].at \in {"unused", "list", "flagged", "dying", "gone"}
      /\ client[c].k \in Calls \cup {None} /\ client[c].fd \in Fds \cup {0}
      /\ client[c].sock \in Sockets \cup {0}
  BY <1>1 DEF ClientObjs
<1> QED BY <1>2, NoneAssumption DEF KernelInv

\* Clients whose state changes, while nobody is allocated: what this disturbs.
LEMMA MovedClients ==
  ASSUME TypeOK, KernelInv, UNCHANGED nClients,
         client' \in [Clients -> ClientObjs],
         \A c \in Clients :
           /\ client'[c].k = client[c].k /\ client'[c].fd = client[c].fd
           /\ client'[c].sock = client[c].sock
           /\ client'[c].at = "unused" <=> client[c].at = "unused"
           /\ client'[c].at = "dying" => client[c].at = "dying" \/ world.breaks,
         world' = world,
         \/ open' = open /\ nSockets' = nSockets
         \/ nSockets' = nSockets /\ \E f \in Fds : open' = [open EXCEPT ![f] = 0]
  PROVE  KernelInv'
<1>1. /\ \A f \in Fds : open'[f] <= nSockets'
      /\ \A f, g \in Fds : open'[f] = open'[g] /\ open'[f] # 0 => f = g
  <2>1. CASE open' = open /\ nSockets' = nSockets
    BY <2>1 DEF KernelInv
  <2>2. CASE nSockets' = nSockets /\ \E f \in Fds : open' = [open EXCEPT ![f] = 0]
    <3>1. PICK f \in Fds : open' = [open EXCEPT ![f] = 0]
      BY <2>2
    <3>2. \A g \in Fds : open'[g] = IF g = f THEN 0 ELSE open[g]
      BY <3>1 DEF TypeOK
    <3>3. 0 <= nSockets
      BY BoundAssumption DEF TypeOK
    <3> QED BY <2>2, <3>2, <3>3 DEF KernelInv
  <2> QED BY <2>1, <2>2
<1>2. ASSUME NEW c \in Clients
      PROVE  /\ client'[c].at = "unused" <=> c > nClients
             /\ client'[c].at = "unused" <=> client'[c].k = None
             /\ client'[c].at = "unused" <=> client'[c].fd = 0
             /\ client'[c].at = "unused" <=> client'[c].sock = 0
             /\ client'[c].at = "dying" => world.breaks
  BY DEF KernelInv
<1> QED BY <1>1, <1>2 DEF KernelInv

\* A PLAY request: a new client gets the descriptor and the socket it names.
LEMMA PlaySafe ==
  ASSUME SafeInv, ReadPlay
  PROVE  /\ SafeInv' /\ mail # <<>> /\ mail' = <<>> /\ mail[1].cmd = "PLAY"
         /\ Queued(SipCb)' <=> Queued(SipCb)
         /\ UNCHANGED <<world, peer, net, open, nSockets, arg, sip>>
         /\ \/ ClientOf(mail[1].k) # {} /\ client' = client
            \/ /\ ClientOf(mail[1].k) = {} /\ nClients + 1 \in Clients
               /\ client[nClients + 1].at = "unused"
               /\ client' = [client EXCEPT ![nClients + 1] =
                    [at |-> "list", k |-> mail[1].k, fd |-> mail[1].fd, sock |-> mail[1].sock]]
<1> USE DEF SafeInv
<1>1. /\ UNCHANGED <<world, peer, net, open, nSockets, arg, sip>>
      /\ active' = Tail(active) /\ mail' = Tail(mail) /\ Run(StreamCb)
      /\ mail # <<>> /\ Head(mail).cmd = "PLAY"
  BY DEF ReadPlay, peerVars, kernelVars, StreamCb
<1>2. /\ mail' = <<>> /\ active' \in Seq(Callbacks) /\ QueueInv' /\ TimerInv'
      /\ \A y \in Timers : Queued(y)' => Queued(y)
      /\ Queued(SipCb)' <=> Queued(SipCb)
  BY <1>1, ReadQueue
<1>3. /\ Head(mail) = mail[1] /\ mail[1].k \in Calls
      /\ mail[1].fd \in Fds /\ mail[1].sock \in Sockets
  BY <1>1, MailFacts
<1>4. MailInv'
  BY <1>2 DEF MailInv, Asked
<1> DEFINE x == [at |-> "list", k |-> mail[1].k, fd |-> mail[1].fd, sock |-> mail[1].sock]
<1>5. CASE ClientOf(mail[1].k) # {}
  <2>1. UNCHANGED <<nClients, client>>
    BY <1>3, <1>5 DEF ReadPlay, streamVars
  <2>2. TypeOK'
    BY <1>1, <1>2, <2>1 DEF TypeOK
  <2>3. KernelInv'
    BY <1>1, <2>1 DEF KernelInv
  <2>4. OwnerInv'
    BY <1>1, <1>2, <2>1, OwnerKept DEF Knows
  <2>5. ArmedInv'
    BY <1>2, <2>1, ArmedKept DEF Alive
  <2> QED BY <1>1, <1>2, <1>3, <1>4, <1>5, <2>1, <2>2, <2>3, <2>4, <2>5
<1>6. CASE ClientOf(mail[1].k) = {}
  <2>1. /\ nClients < MaxClients /\ nClients' = nClients + 1
        /\ client' = [client EXCEPT ![nClients + 1] = x]
    BY <1>3, <1>6 DEF ReadPlay
  <2>2. /\ nClients + 1 \in Clients /\ nClients' \in 0 .. MaxClients /\ nClients \in Nat
        /\ client \in [Clients -> ClientObjs] /\ Clients \subseteq Nat
    BY <2>1, BoundAssumption DEF TypeOK, Clients
  <2>3. client[nClients + 1].at = "unused"
    <3>1. nClients + 1 > nClients
      BY <2>2
    <3> QED BY <2>2, <3>1 DEF KernelInv
  <2>4. x \in ClientObjs
    BY <1>3 DEF ClientObjs
  <2>5. x.at = "list" /\ x.k = mail[1].k /\ x.fd = mail[1].fd /\ x.sock = mail[1].sock
    OBVIOUS
  <2> HIDE DEF x
  <2>6. \A c \in Clients : client'[c] = IF c = nClients + 1 THEN x ELSE client[c]
    BY <2>1, <2>2
  <2>7. TypeOK'
    <3>1. client' \in [Clients -> ClientObjs]
      BY <2>1, <2>2, <2>4
    <3> QED BY <1>1, <1>2, <2>2, <3>1 DEF TypeOK
  <2>8. KernelInv'
    <3>1. ASSUME NEW c \in Clients
          PROVE  /\ client'[c].at = "unused" <=> c > nClients'
                 /\ client'[c].at = "unused" <=> client'[c].k = None
                 /\ client'[c].at = "unused" <=> client'[c].fd = 0
                 /\ client'[c].at = "unused" <=> client'[c].sock = 0
                 /\ client'[c].at = "dying" => world.breaks
      <4>1. CASE c = nClients + 1
        <5>1. client'[c] = x /\ ~ (c > nClients')
          BY <2>1, <2>2, <2>6, <4>1
        <5>2. x.k # None /\ x.fd # 0 /\ x.sock # 0
          BY <1>3, <2>5, NoneAssumption DEF Fds, Sockets
        <5> QED BY <2>5, <5>1, <5>2
      <4>2. CASE c # nClients + 1
        <5>1. client'[c] = client[c] /\ (c > nClients' <=> c > nClients)
          BY <2>1, <2>2, <2>6, <4>2
        <5> QED BY <5>1 DEF KernelInv
      <4> QED BY <4>1, <4>2
    <3> QED BY <1>1, <3>1 DEF KernelInv
  <2>9. OwnerInv'
    <3>1. ASSUME NEW k \in Calls, NEW s \in Sockets, Knows(k, s)' PROVE Knows(k, s)
      BY <1>1, <1>2, <2>5, <2>6, <3>1 DEF Knows
    <3> QED BY <1>1, <3>1, OwnerKept
  <2>10. ArmedInv'
    BY <1>2, <2>5, <2>6, ArmedKept DEF Alive
  <2> QED BY <1>1, <1>2, <1>3, <1>4, <1>6, <2>1, <2>2, <2>3, <2>7, <2>8, <2>9, <2>10 DEF x
<1> QED BY <1>5, <1>6

\* Steps that change how far clients have come, and nothing else of them.
Moved(c, a) ==
  /\ client'[c].at = a /\ client'[c].k = client[c].k
  /\ client'[c].fd = client[c].fd /\ client'[c].sock = client[c].sock

LEMMA MovedFacts ==
  ASSUME NEW x \in ClientObjs, NEW a \in {"list", "flagged", "dying", "gone"}
  PROVE  LET y == [x EXCEPT !.at = a]
         IN y \in ClientObjs /\ y.at = a /\ y.k = x.k /\ y.fd = x.fd /\ y.sock = x.sock
BY DEF ClientObjs

\* A STOP request flags the clients of the call.
LEMMA StopSafe ==
  ASSUME SafeInv, ReadStop
  PROVE  /\ SafeInv' /\ mail # <<>> /\ mail' = <<>> /\ mail[1].cmd = "STOP"
         /\ Queued(SipCb)' <=> Queued(SipCb)
         /\ UNCHANGED <<world, peer, net, open, nSockets, arg, sip, nClients>>
         /\ \A c \in Clients :
              Moved(c, IF c \in ClientOf(mail[1].k) THEN "flagged" ELSE client[c].at)
<1> USE DEF SafeInv
<1>1. /\ UNCHANGED <<world, peer, net, open, nSockets, arg, sip, nClients>>
      /\ active' = Tail(active) /\ mail' = Tail(mail) /\ Run(StreamCb)
      /\ mail # <<>> /\ Head(mail).cmd = "STOP"
  BY DEF ReadStop, peerVars, kernelVars, StreamCb
<1>2. /\ mail' = <<>> /\ active' \in Seq(Callbacks) /\ QueueInv' /\ TimerInv'
      /\ \A y \in Timers : Queued(y)' => Queued(y)
      /\ Queued(SipCb)' <=> Queued(SipCb)
  BY <1>1, ReadQueue
<1>3. Head(mail) = mail[1]
  BY <1>1, MailFacts
<1>4. MailInv'
  BY <1>2 DEF MailInv, Asked
<1>5. client' = [c \in Clients |-> IF c \in ClientOf(mail[1].k)
                                    THEN [client[c] EXCEPT !.at = "flagged"] ELSE client[c]]
  BY <1>3 DEF ReadStop
<1>6. \A c \in Clients : client[c] \in ClientObjs
  BY DEF TypeOK
<1>7. \A c \in Clients :
        /\ client'[c] \in ClientObjs
        /\ Moved(c, IF c \in ClientOf(mail[1].k) THEN "flagged" ELSE client[c].at)
  <2>1. \A c \in Clients :
          LET y == [client[c] EXCEPT !.at = "flagged"]
          IN  /\ y \in ClientObjs /\ y.at = "flagged"
              /\ y.k = client[c].k /\ y.fd = client[c].fd /\ y.sock = client[c].sock
    BY <1>6, MovedFacts
  <2> QED BY <1>5, <1>6, <2>1 DEF Moved
<1>8. client' \in [Clients -> ClientObjs]
  BY <1>5, <1>7
<1>9. TypeOK'
  BY <1>1, <1>2, <1>8 DEF TypeOK
<1>10. KernelInv'
  <2>1. \A c \in ClientOf(mail[1].k) : client[c].at # "unused"
    BY DEF ClientOf, Listed
  <2> QED BY <1>1, <1>7, <1>8, <2>1, MovedClients DEF Moved
<1>11. OwnerInv'
  <2>1. ASSUME NEW k \in Calls, NEW s \in Sockets, Knows(k, s)' PROVE Knows(k, s)
    BY <1>1, <1>2, <1>7, <2>1 DEF Knows, Moved
  <2> QED BY <1>1, <2>1, OwnerKept
<1>12. ArmedInv'
  BY <1>2, <1>7, ArmedKept DEF Alive, Moved
<1> QED BY <1>1, <1>2, <1>3, <1>4, <1>7, <1>9, <1>10, <1>11, <1>12

\* A timeout flags its client and tells the SIP side.
LEMMA TimeoutSafe ==
  ASSUME SafeInv, NEW c \in Clients, RtcpTimeout(c)
  PROVE  /\ SafeInv' /\ world.rtcp /\ Alive(c) /\ Queued(SipCb)'
         /\ ~world.together => ~Queued(SipCb)
         /\ UNCHANGED <<world, peer, net, open, nSockets, mail, sip, nClients>>
         /\ arg' = client[c].k
         /\ \A d \in Clients :
              Moved(d, IF d = c /\ client[c].at = "list" THEN "flagged" ELSE client[d].at)
<1> USE DEF SafeInv
<1>1. /\ UNCHANGED <<world, peer, net, open, nSockets, mail, sip, nClients>>
      /\ active' = Activate(Tail(active), SipCb) /\ Run(Rtcp(c)) /\ arg' = client[c].k
      /\ client' = [client EXCEPT ![c].at = Flagged(@)]
  BY DEF RtcpTimeout, peerVars, kernelVars, SipCb, Triggered
<1>2. /\ world.rtcp /\ active' \in Seq(Callbacks) /\ QueueInv' /\ TimerInv'
      /\ Queued(SipCb)' /\ (~world.together => ~Queued(SipCb))
      /\ Queued(Rtcp(c)) /\ \A x \in Timers : Queued(x)' => Queued(x)
  BY <1>1, TimeoutQueue
<1>12. Alive(c) /\ client[c].at # "unused"
  BY <1>2 DEF ArmedInv, Alive
<1>3. \A d \in Clients : client[d] \in ClientObjs
  BY DEF TypeOK
<1>4. \A d \in Clients :
        client'[d] = IF d = c THEN [client[c] EXCEPT !.at = Flagged(client[c].at)] ELSE client[d]
  BY <1>1 DEF TypeOK
<1>5. Flagged(client[c].at) \in {"list", "flagged", "dying", "gone"}
  BY <1>12, ClientFacts DEF Flagged
<1>6. \A d \in Clients :
        /\ client'[d] \in ClientObjs
        /\ Moved(d, IF d = c /\ client[c].at = "list" THEN "flagged" ELSE client[d].at)
  <2>1. LET y == [client[c] EXCEPT !.at = Flagged(client[c].at)]
        IN  /\ y \in ClientObjs /\ y.at = Flagged(client[c].at)
            /\ y.k = client[c].k /\ y.fd = client[c].fd /\ y.sock = client[c].sock
    BY <1>3, <1>5, MovedFacts
  <2> QED BY <1>3, <1>4, <2>1 DEF Moved, Flagged
<1>7. client' \in [Clients -> ClientObjs]
  <2>1. client' = [d \in Clients |-> client'[d]]
    BY <1>1 DEF TypeOK
  <2> QED BY <1>6, <2>1
<1>8. TypeOK'
  <2>1. arg' \in Calls \cup {None}
    BY <1>1, <1>12, ClientFacts
  <2> QED BY <1>1, <1>2, <1>7, <2>1 DEF TypeOK
<1>9. KernelInv'
  BY <1>1, <1>6, <1>7, MovedClients DEF Moved
<1>10. OwnerInv'
  <2>1. ASSUME NEW k \in Calls, NEW s \in Sockets, Knows(k, s)' PROVE Knows(k, s)
    BY <1>1, <1>6, <2>1 DEF Knows, Moved
  <2> QED BY <1>1, <2>1, OwnerKept
<1>11. MailInv'
  BY <1>1 DEF MailInv, Asked, Bearable
<1>13. ArmedInv'
  BY <1>2, <1>6, ArmedKept DEF Alive, Moved
<1> QED BY <1>1, <1>2, <1>6, <1>8, <1>9, <1>10, <1>11, <1>12, <1>13

\* The SIP side forgets the call that it is told of.
LEMMA PairSafe ==
  ASSUME SafeInv, OrderInv, SipPairRead
  PROVE  /\ SafeInv' /\ world.rtcp /\ Queued(SipCb)
         /\ UNCHANGED <<world, peer, net, open, nSockets, mail, arg, nClients, client>>
         /\ \A k \in Calls : sip'[k] = IF k = arg THEN NoSip ELSE sip[k]
<1> USE DEF SafeInv
<1>1. /\ UNCHANGED <<world, peer, net, open, nSockets, mail, arg, nClients, client>>
      /\ active' = Tail(active) /\ Run(SipCb)
      /\ sip' = [k \in Calls |-> IF k = arg THEN NoSip ELSE sip[k]]
  BY DEF SipPairRead, peerVars, kernelVars, pairVars, streamVars, SipCb, Stopped
<1>2. /\ world.rtcp /\ active' \in Seq(Callbacks) /\ QueueInv' /\ TimerInv' /\ Queued(SipCb)
      /\ \A x \in Timers : Queued(x)' => Queued(x)
  BY <1>1, PairQueue, RunFacts
<1>8. ArmedInv'
  BY <1>1, <1>2, ArmedKept DEF Alive
<1>3. \A k \in Calls : sip'[k] = IF k = arg THEN NoSip ELSE sip[k]
  BY <1>1
<1>4. TypeOK'
  <2>1. sip' \in [Calls -> SipNodes]
    BY <1>1 DEF TypeOK, SipNodes
  <2> QED BY <1>1, <1>2, <2>1 DEF TypeOK
<1>5. KernelInv'
  BY <1>1 DEF KernelInv
<1>6. OwnerInv'
  <2>1. \A s \in Sockets : NoSip.sock # s
    BY DEF NoSip, Sockets
  <2>2. ASSUME NEW k \in Calls, NEW s \in Sockets, Knows(k, s)' PROVE Knows(k, s)
    BY <1>1, <1>3, <2>1, <2>2 DEF Knows
  <2> QED BY <1>1, <2>2, OwnerKept
<1>7. MailInv'
  <2>1. ASSUME NEW k \in Calls, Bearable, Asked("PLAY", k) PROVE sip'[k] = sip[k]
    <3>1. ~world.late
      BY <1>2, <2>1, WorldsAssumption DEF Bearable, TypeOK
    <3>2. arg # k
      BY <2>1, <3>1 DEF OrderInv, PhaseInv
    <3> QED BY <1>3, <3>2
  <2> QED BY <1>1, <1>3, <2>1 DEF MailInv, Asked, Bearable
<1> QED BY <1>1, <1>2, <1>3, <1>4, <1>5, <1>6, <1>7, <1>8

\* A source breaks off, and clients of it are to be freed.
LEMMA FailureSafe ==
  ASSUME SafeInv, SourceFailure
  PROVE  /\ SafeInv' /\ world.breaks
         /\ UNCHANGED <<world, peer, net, open, nSockets, active, mail, arg, sip, nClients>>
         /\ \A c \in Clients :
              \/ Moved(c, client[c].at)
              \/ Listed(c) /\ Moved(c, "dying")
<1> USE DEF SafeInv
<1>1. /\ UNCHANGED <<world, peer, net, open, nSockets, active, mail, arg, sip, nClients>>
      /\ world.breaks
  BY DEF SourceFailure, peerVars, kernelVars, pairVars
<1>2. PICK s \in SUBSET {c \in Clients : Listed(c)} :
        client' = [c \in Clients |->
                     IF c \in s THEN [client[c] EXCEPT !.at = "dying"] ELSE client[c]]
  BY DEF SourceFailure
<1>3. \A c \in Clients : client[c] \in ClientObjs
  BY DEF TypeOK
<1>4. \A c \in Clients : /\ client'[c] \in ClientObjs
                         /\ Moved(c, client[c].at) \/ (Listed(c) /\ Moved(c, "dying"))
  BY <1>2, <1>3, MovedFacts DEF Moved
<1>5. client' \in [Clients -> ClientObjs]
  BY <1>2, <1>4
<1>6. TypeOK'
  BY <1>1, <1>5 DEF TypeOK
<1>7. QueueInv' /\ TimerInv'
  BY <1>1 DEF QueueInv, TimerInv, Queued
<1>8. KernelInv'
  BY <1>1, <1>4, <1>5, MovedClients DEF Moved, Listed
<1>9. OwnerInv'
  <2>1. ASSUME NEW k \in Calls, NEW t \in Sockets, Knows(k, t)' PROVE Knows(k, t)
    BY <1>1, <1>4, <2>1 DEF Knows, Moved
  <2> QED BY <1>1, <2>1, OwnerKept
<1>10. MailInv'
  BY <1>1 DEF MailInv, Asked, Bearable
<1>11. ArmedInv'
  BY <1>1, <1>4 DEF ArmedInv, Alive, Moved, Queued
<1> QED BY <1>1, <1>4, <1>6, <1>7, <1>8, <1>9, <1>10, <1>11

\* A client is freed, and its descriptor closed.
LEMMA RemoveSafe ==
  ASSUME SafeInv, NEW c \in Clients, RemoveClient(c)
  PROVE  /\ SafeInv' /\ (Queued(SipCb)' <=> Queued(SipCb))
         /\ client[c].at \in {"flagged", "dying"} /\ client[c].fd \in Fds
         /\ UNCHANGED <<world, peer, net, nSockets, mail, arg, sip, nClients>>
         /\ \A f \in Fds : open'[f] = IF f = client[c].fd THEN 0 ELSE open[f]
         /\ \A d \in Clients : Moved(d, IF d = c THEN "gone" ELSE client[d].at)
<1> USE DEF SafeInv
<1>1. /\ UNCHANGED <<world, peer, net, nSockets, mail, arg, sip, nClients>>
      /\ active' = Deactivate(active, Rtcp(c)) /\ client[c].at \in {"flagged", "dying"}
      /\ open' = [open EXCEPT ![client[c].fd] = 0]
      /\ client' = [client EXCEPT ![c].at = "gone"]
  BY DEF RemoveClient, peerVars, pairVars, Close
<1>2. /\ active' \in Seq(Callbacks) /\ QueueInv' /\ TimerInv' /\ (Queued(SipCb)' <=> Queued(SipCb))
      /\ \A x \in Timers : Queued(x)' => Queued(x) /\ x # Rtcp(c)
  BY <1>1, RemoveQueue
<1>3. client[c].fd \in Fds
  BY <1>1, ClientFacts
<1>4. \A f \in Fds : open'[f] = IF f = client[c].fd THEN 0 ELSE open[f]
  BY <1>1, <1>3 DEF TypeOK
<1>5. \A d \in Clients : client[d] \in ClientObjs
  BY DEF TypeOK
<1>6. \A d \in Clients :
        client'[d] = IF d = c THEN [client[c] EXCEPT !.at = "gone"] ELSE client[d]
  BY <1>1 DEF TypeOK
<1>7. \A d \in Clients : /\ client'[d] \in ClientObjs
                         /\ Moved(d, IF d = c THEN "gone" ELSE client[d].at)
  <2>1. LET y == [client[c] EXCEPT !.at = "gone"]
        IN  /\ y \in ClientObjs /\ y.at = "gone"
            /\ y.k = client[c].k /\ y.fd = client[c].fd /\ y.sock = client[c].sock
    BY <1>5, MovedFacts
  <2> QED BY <1>5, <1>6, <2>1 DEF Moved
<1>8. client' \in [Clients -> ClientObjs]
  <2>1. client' = [d \in Clients |-> client'[d]]
    BY <1>1 DEF TypeOK
  <2> QED BY <1>7, <2>1
<1>9. TypeOK'
  <2>1. open' \in [Fds -> Sockets \cup {0}]
    BY <1>1, <1>3 DEF TypeOK
  <2> QED BY <1>1, <1>2, <1>8, <2>1 DEF TypeOK
<1>10. KernelInv'
  <2>1. \A d \in Clients :
          /\ client'[d].k = client[d].k /\ client'[d].fd = client[d].fd
          /\ client'[d].sock = client[d].sock
          /\ client'[d].at = "unused" <=> client[d].at = "unused"
          /\ client'[d].at = "dying" => client[d].at = "dying"
    BY <1>1, <1>7 DEF Moved
  <2>2. \E f \in Fds : open' = [open EXCEPT ![f] = 0]
    BY <1>1, <1>3
  <2> QED BY <1>1, <1>8, <2>1, <2>2, MovedClients
<1>11. OwnerInv'
  <2>1. ASSUME NEW k \in Calls, NEW t \in Sockets, Knows(k, t)' PROVE Knows(k, t)
    BY <1>1, <1>7, <2>1 DEF Knows, Moved
  <2> QED BY <1>1, <2>1, OwnerKept
<1>12. MailInv'
  BY <1>1 DEF MailInv, Asked, Bearable
<1>13. ArmedInv'
  BY <1>2, <1>7 DEF ArmedInv, Timers, Alive, Moved
<1> QED BY <1>1, <1>2, <1>3, <1>4, <1>7, <1>9, <1>10, <1>11, <1>12, <1>13

-----------------------------------------------------------------------------
\* The circumstances are true or false; bearable ones, when datagrams come late.
LEMMA WorldFacts ==
  ASSUME TypeOK
  PROVE  /\ world.late \in BOOLEAN /\ world.breaks \in BOOLEAN
         /\ world.rtcp \in BOOLEAN /\ world.together \in BOOLEAN
         /\ ~world.late => Bearable
         /\ Bearable /\ world.late => ~world.breaks /\ ~world.rtcp
BY WorldsAssumption DEF TypeOK, Bearable

\* Who knows the same socket is of the same call.
LEMMA SameSocket ==
  ASSUME TypeOK, KernelInv, OwnerInv
  PROVE  /\ \A c, d \in Clients :
              client[c].at # "unused" /\ client[c].sock = client[d].sock
                => client[c].k = client[d].k
         /\ \A c \in Clients, k \in Calls :
              sip[k] # NoSip /\ client[c].sock = sip[k].sock => client[c].k = k
         /\ \A c \in Clients : client[c].at # "unused" => client[c].sock <= nSockets
<1>1. ASSUME NEW c \in Clients, client[c].at # "unused"
      PROVE  /\ client[c].k \in Calls /\ client[c].sock \in Sockets
             /\ Knows(client[c].k, client[c].sock)
  BY <1>1, ClientFacts DEF Knows
<1>2. \A k \in Calls : sip[k] # NoSip => sip[k].sock \in Sockets /\ Knows(k, sip[k].sock)
  BY SipFacts DEF Knows
<1>3. \A c \in Clients : client[c].at = "unused" => client[c].sock = 0
  BY DEF KernelInv
<1>4. 0 \notin Sockets
  BY DEF Sockets
<1>5. \A c, d \in Clients :
        client[c].at # "unused" /\ client[c].sock = client[d].sock
          => client[d].at # "unused" /\ client[c].k = client[d].k
  BY <1>1, <1>3, <1>4 DEF OwnerInv
<1>6. \A c \in Clients, k \in Calls :
        sip[k] # NoSip /\ client[c].sock = sip[k].sock => client[c].k = k
  BY <1>1, <1>2, <1>3, <1>4 DEF OwnerInv
<1>7. \A c \in Clients : client[c].at # "unused" => client[c].sock <= nSockets
  BY <1>1 DEF OwnerInv
<1> QED BY <1>5, <1>6, <1>7

\* A datagram that was taken is the only one that is gone.
LEMMA ThereFacts ==
  ASSUME NEW m, NEW k, net' = net \ {[m |-> m, k |-> k]}
  PROVE  \A n, l : There(n, l)' <=> There(n, l) /\ ~(n = m /\ l = k)
BY DEF There

\* The SIP server sends a datagram.
LEMMA SendKeeps ==
  ASSUME SipInv, NEW k \in Calls, SendInvite(k) \/ SendAck(k) \/ SendBye(k)
  PROVE  SipInv'
<1> USE DEF SipInv
<1>1. SafeInv'
  BY SendSafe
<1>2. UNCHANGED <<world, open, nSockets, active, mail, arg, sip, nClients, client>>
  BY DEF Send, SendInvite, SendAck, SendBye, kernelVars, pairVars, streamVars
<1>3. AliveInv' /\ NothingLeaks' /\ LateInv' /\ LinkInv'
  BY <1>2 DEF AliveInv, NothingLeaks, SocketsKnown, LateInv, LinkInv, Alive, HoldsOpen, Queued,
              Bearable
<1>4. OrderInv'
  <2> SUFFICES ASSUME ~world.late, NEW l \in Calls
               PROVE  PhaseInv(l)' /\ ClosedInv(l)' /\ SipOpenInv(l)'
    BY <1>2 DEF OrderInv
  <2>1. PhaseInv(l) /\ ClosedInv(l) /\ SipOpenInv(l)
    BY DEF OrderInv
  <2>2. ClosedInv(l)' /\ SipOpenInv(l)'
    BY <1>2, <2>1 DEF ClosedInv, SipOpenInv, HoldsOpen
  <2>3. PICK m \in {"INVITE", "ACK", "BYE"}, b \in {"new", "answered", "acked"},
             a \in {"invited", "acked", "done"} :
               /\ Send(k, m, b, a)
               /\ <<m, b, a>> \in {<<"INVITE", "new", "invited">>, <<"ACK", "answered", "acked">>,
                                   <<"BYE", "acked", "done">>}
    BY DEF SendInvite, SendAck, SendBye
  <2>4. /\ peer[k] = b /\ \A d \in net : d.k # k
        /\ peer' = [peer EXCEPT ![k] = a] /\ net' = net \cup {[m |-> m, k |-> k]}
    BY <2>3 DEF Send
  <2>5. \A n, j : There(n, j)' <=> There(n, j) \/ (n = m /\ j = k)
    BY <2>4 DEF There
  <2>6. \A n : ~There(n, k)
    <3>1. ASSUME NEW n, There(n, k) PROVE FALSE
      <4>1. [m |-> n, k |-> k].k = k
        OBVIOUS
      <4> QED BY <2>4, <3>1, <4>1 DEF There
    <3> QED BY <3>1
  <2>7. peer'[l] = IF l = k THEN a ELSE peer[l]
    BY <2>4 DEF SafeInv, TypeOK
  <2>8. CASE l # k
    <3>1. peer'[l] = peer[l] /\ \A n : There(n, l)' <=> There(n, l)
      BY <2>5, <2>7, <2>8
    <3> QED BY <1>2, <2>1, <2>2, <3>1 DEF PhaseInv, HasClient, Asked
  <2>9. CASE l = k
    <3>1. peer[l] = b /\ peer'[l] = a /\ \A n : ~There(n, l) /\ (There(n, l)' <=> n = m)
      BY <2>4, <2>5, <2>6, <2>7, <2>9
    <3>2. PhaseInv(l)'
      BY <1>2, <2>1, <2>3, <3>1 DEF PhaseInv, HasClient, Asked
    <3> QED BY <2>2, <3>2
  <2> QED BY <2>8, <2>9
<1> QED BY <1>1, <1>3, <1>4

\* A turn of the loop begins: no callback is left over from the last.
LEMMA DispatchKeeps ==
  ASSUME SipInv, Dispatch
  PROVE  SipInv'
<1> USE DEF SipInv
<1>1. /\ SafeInv' /\ active = <<>>
      /\ UNCHANGED <<world, peer, net, open, nSockets, mail, arg, sip, nClients, client>>
  BY DispatchSafe
<1>2. ~Queued(SipCb)
  BY <1>1 DEF Queued, ToSet
<1>3. AliveInv' /\ NothingLeaks' /\ LateInv'
  BY <1>1 DEF AliveInv, NothingLeaks, SocketsKnown, LateInv, Alive, HoldsOpen, Bearable
<1>4. OrderInv'
  <2>1. ASSUME NEW k \in Calls, PhaseInv(k) PROVE PhaseInv(k)'
    BY <1>1, <2>1 DEF PhaseInv, There, HasClient, Asked
  <2>2. ASSUME NEW k \in Calls, ClosedInv(k), SipOpenInv(k) PROVE ClosedInv(k)' /\ SipOpenInv(k)'
    BY <1>1, <2>2 DEF ClosedInv, SipOpenInv, HoldsOpen
  <2> QED BY <1>1, <2>1, <2>2 DEF OrderInv
<1>5. LinkInv'
  BY <1>1, <1>2 DEF LinkInv
<1> QED BY <1>1, <1>3, <1>4, <1>5

\* An INVITE: the new socket is nobody else's.
LEMMA InviteKeeps ==
  ASSUME SipInv, NEW k \in Calls, RecvInvite(k)
  PROVE  SipInv'
<1> USE DEF SipInv
<1>1. SafeInv' /\ mail = <<>> /\ mail' = <<>> /\ TypeOK /\ KernelInv /\ OwnerInv
  BY InviteSafe DEF SafeInv
<1>2. /\ UNCHANGED <<world, arg, nClients, client>> /\ active' = Tail(active)
      /\ Receive([m |-> "INVITE", k |-> k])
      /\ peer' = [peer EXCEPT ![k] = IF @ = "invited" THEN "answered" ELSE @]
  BY DEF RecvInvite, pairVars, streamVars
<1>3. /\ Run(UdpCb) /\ There("INVITE", k)
      /\ ~world.late => net' = net \ {[m |-> "INVITE", k |-> k]}
  BY <1>2, ReceiveFacts DEF There
<1>4. ~Queued(SipCb)
  BY <1>3, RunFacts DEF SafeInv, QueueInv
<1>5. ~world.late => peer[k] = "invited" /\ sip[k] = NoSip /\ ~HasClient(k)
  BY <1>3 DEF OrderInv, PhaseInv
<1>6. CASE KnowsCall(k)
  <2>1. UNCHANGED <<open, nSockets, sip>> /\ world.late
    BY <1>1, <1>5, <1>6, WorldFacts DEF RecvInvite, kernelVars, KnowsCall
  <2>2. AliveInv' /\ NothingLeaks' /\ LateInv' /\ OrderInv' /\ LinkInv'
    BY <1>2, <2>1 DEF AliveInv, NothingLeaks, LateInv, LinkInv, OrderInv, Alive, HoldsOpen, Bearable
  <2> QED BY <1>1, <2>2
<1>7. CASE ~KnowsCall(k)
  <2>1. /\ nSockets < MaxSockets
        /\ open' = [open EXCEPT ![FreeFd] = nSockets + 1]
        /\ sip' = [sip EXCEPT ![k] = [fd |-> FreeFd, sock |-> nSockets + 1]]
        /\ sip[k] = NoSip
    BY <1>7 DEF RecvInvite, NewSession, KnowsCall
  <2> DEFINE s == nSockets + 1
             g == FreeFd
  <2>2. g \in Fds /\ open[g] = 0
    BY <1>1, <2>1, FreeFdFacts
  <2>3. s \in Sockets /\ s # 0 /\ (\A t : t <= nSockets => t # s)
    BY <1>1, <2>1, BoundAssumption DEF TypeOK, Sockets
  <2>4. /\ \A f \in Fds : open'[f] = IF f = g THEN s ELSE open[f]
        /\ \A l \in Calls : sip'[l] = IF l = k THEN [fd |-> g, sock |-> s] ELSE sip[l]
        /\ [fd |-> g, sock |-> s].fd = g /\ [fd |-> g, sock |-> s].sock = s
        /\ [fd |-> g, sock |-> s] # NoSip
    BY <1>1, <2>1, <2>3 DEF TypeOK, NoSip
  <2> HIDE DEF s, g
  <2>5. /\ \A c \in Clients : client[c].at # "unused" =>
             /\ client[c].k \in Calls /\ client[c].fd \in Fds
             /\ client[c].sock \in Sockets /\ client[c].sock # 0 /\ client[c].sock # s
        /\ \A l \in Calls : sip[l] # NoSip => sip[l].fd \in Fds /\ sip[l].sock # 0
        /\ 0 \notin Sockets
    BY <1>1, <2>3, ClientFacts, SipFacts, SameSocket DEF Sockets
  <2>6. AliveInv'
    BY <1>2, <2>2, <2>4, <2>5 DEF AliveInv, Alive, Bearable
  <2>7. \A l \in Calls : HoldsOpen(l) /\ sip[l] # NoSip => HoldsOpen(l)'
    BY <2>1, <2>2, <2>4, <2>5 DEF HoldsOpen
  <2>8. HoldsOpen(k)'
    BY <2>2, <2>4 DEF HoldsOpen
  <2>9. LateInv'
    BY <1>2, <2>4, <2>5, <2>7, <2>8 DEF LateInv, Bearable
  <2>10. NothingLeaks'
    <3> SUFFICES ASSUME ~world.late, NEW f \in Fds, open'[f] # 0, f # g
                 PROVE  \/ \E l \in Calls : sip'[l].sock = open'[f]
                        \/ \E c \in Clients : Alive(c)' /\ client'[c].sock = open'[f]
      BY <1>1, <1>2, <2>4 DEF NothingLeaks, SocketsKnown
    <3>1. \/ \E l \in Calls : sip[l].sock = open[f]
          \/ \E c \in Clients : Alive(c) /\ client[c].sock = open[f]
      BY <1>1, <2>4 DEF NothingLeaks, SocketsKnown
    <3>2. sip[k].sock # open[f]
      BY <2>1, <2>4 DEF NoSip
    <3> QED BY <1>2, <2>4, <3>1, <3>2 DEF Alive
  <2>11. OrderInv'
    <3> SUFFICES ASSUME ~world.late, NEW l \in Calls
                 PROVE  PhaseInv(l)' /\ ClosedInv(l)' /\ SipOpenInv(l)'
      BY <1>2 DEF OrderInv
    <3>1. PhaseInv(l) /\ ClosedInv(l) /\ SipOpenInv(l)
      BY DEF OrderInv
    <3>2. \A n, j : There(n, j)' <=> There(n, j) /\ ~(n = "INVITE" /\ j = k)
      BY <1>3, ThereFacts
    <3>3. /\ peer'[l] = IF l = k THEN "answered" ELSE peer[l]
          /\ \A j : HasClient(j)' <=> HasClient(j)
          /\ \A j, m : ~Asked(m, j) /\ ~Asked(m, j)'
      BY <1>1, <1>2, <1>5 DEF TypeOK, HasClient, Asked
    <3>4. PhaseInv(l)'
      BY <1>2, <1>5, <2>4, <3>1, <3>2, <3>3 DEF PhaseInv
    <3>5. ClosedInv(l)'
      BY <1>2, <1>5, <2>4, <2>5, <3>1 DEF ClosedInv, HasClient
    <3>6. SipOpenInv(l)'
      BY <1>2, <2>4, <2>7, <2>8, <3>1 DEF SipOpenInv
    <3> QED BY <3>4, <3>5, <3>6
  <2>12. LinkInv'
    BY <1>2, <1>4, <1>5, <2>4, <2>5 DEF LinkInv, HasClient
  <2> QED BY <1>1, <2>6, <2>9, <2>10, <2>11, <2>12
<1> QED BY <1>6, <1>7

\* An ACK: the socket of the SIP node is the one that the request hands over.
LEMMA AckKeeps ==
  ASSUME SipInv, NEW k \in Calls, RecvAck(k)
  PROVE  SipInv'
<1> USE DEF SipInv
<1>1. /\ SafeInv' /\ mail = <<>> /\ TypeOK
      /\ sip[k] = NoSip => mail' = <<>>
      /\ sip[k] # NoSip =>
           mail' = <<[cmd |-> "PLAY", k |-> k, fd |-> sip[k].fd, sock |-> sip[k].sock]>>
  BY AckSafe DEF SafeInv
<1>2. /\ UNCHANGED <<world, peer, open, nSockets, arg, sip, nClients, client>>
      /\ Receive([m |-> "ACK", k |-> k])
  BY DEF RecvAck, kernelVars, streamVars
<1>3. /\ Run(UdpCb) /\ There("ACK", k)
      /\ ~world.late => net' = net \ {[m |-> "ACK", k |-> k]}
  BY <1>2, ReceiveFacts DEF There
<1>4. ~Queued(SipCb)
  BY <1>3, RunFacts DEF SafeInv, QueueInv
<1>5. AliveInv' /\ LateInv' /\ LinkInv'
  BY <1>2, <1>4 DEF AliveInv, LateInv, LinkInv, Alive, HoldsOpen, Bearable
<1>6. NothingLeaks'
  BY <1>1, <1>2 DEF NothingLeaks, SocketsKnown, Alive
<1>7. OrderInv'
  <2> SUFFICES ASSUME ~world.late, NEW l \in Calls
               PROVE  PhaseInv(l)' /\ ClosedInv(l)' /\ SipOpenInv(l)'
    BY <1>2 DEF OrderInv
  <2>1. PhaseInv(l) /\ ClosedInv(l) /\ SipOpenInv(l)
    BY DEF OrderInv
  <2>2. ClosedInv(l)' /\ SipOpenInv(l)'
    BY <1>2, <2>1 DEF ClosedInv, SipOpenInv, HoldsOpen
  <2>3. peer[k] = "acked" /\ sip[k] # NoSip /\ ~HasClient(k)
    BY <1>3 DEF OrderInv, PhaseInv
  <2>4. \A n, j : There(n, j)' <=> There(n, j) /\ ~(n = "ACK" /\ j = k)
    BY <1>3, ThereFacts
  <2>5. /\ HasClient(l)' <=> HasClient(l)
        /\ ~Asked("PLAY", l) /\ ~Asked("STOP", l) /\ ~Asked("STOP", l)'
        /\ Asked("PLAY", l)' <=> l = k
    BY <1>1, <1>2, <2>3 DEF HasClient, Asked
  <2>6. PhaseInv(l)'
    BY <1>2, <2>1, <2>3, <2>4, <2>5 DEF PhaseInv
  <2> QED BY <2>2, <2>6
<1> QED BY <1>1, <1>5, <1>6, <1>7

\* A call that has a client may be forgotten: its socket is not.
LEMMA ForgetSip ==
  ASSUME TypeOK, KernelInv, NEW k \in Calls, ClosedInv(k), HasClient(k), sip[k] # NoSip,
         NEW f \in Fds, open[f] = sip[k].sock
  PROVE  \E c \in Clients : Alive(c) /\ client[c].sock = open[f]
<1>1. PICK c \in Clients : client[c].k = k
  BY DEF HasClient
<1>2. client[c].sock = open[f] /\ client[c].at # "gone"
  BY <1>1 DEF ClosedInv
<1>3. client[c].at # "unused"
  BY <1>1, ClientFacts
<1>4. Alive(c)
  BY <1>2, <1>3, ClientFacts DEF Alive
<1> QED BY <1>2, <1>4

\* A BYE: the call has been played by now.
LEMMA ByeKeeps ==
  ASSUME SipInv, NEW k \in Calls, RecvBye(k)
  PROVE  SipInv'
<1> USE DEF SipInv
<1>1. /\ SafeInv' /\ mail = <<>> /\ TypeOK /\ KernelInv /\ open' = open
      /\ sip' = [sip EXCEPT ![k] = NoSip]
      /\ mail' = <<>> \/ (mail'[1].cmd = "STOP" /\ mail'[1].k = k)
  BY ByeSafe DEF SafeInv
<1>2. /\ UNCHANGED <<world, peer, nSockets, arg, nClients, client>>
      /\ Receive([m |-> "BYE", k |-> k])
  BY DEF RecvBye, streamVars
<1>3. /\ Run(UdpCb) /\ There("BYE", k)
      /\ ~world.late => net' = net \ {[m |-> "BYE", k |-> k]}
  BY <1>2, ReceiveFacts DEF There
<1>4. ~Queued(SipCb)
  BY <1>3, RunFacts DEF SafeInv, QueueInv
<1>5. \A l \in Calls : sip'[l] = IF l = k THEN NoSip ELSE sip[l]
  BY <1>1 DEF TypeOK
<1>6. \A c \in Clients : client[c].at # "unused" => client[c].k \in Calls /\ client[c].sock # 0
  BY <1>1, ClientFacts DEF Sockets
<1>7. ~world.late => peer[k] = "done" /\ ~There("ACK", k) /\ HasClient(k)
  BY <1>1, <1>3 DEF OrderInv, PhaseInv, Asked
<1>8. AliveInv'
  BY <1>1, <1>2 DEF AliveInv, Alive, Bearable
<1>9. LateInv'
  BY <1>1, <1>2, <1>5, <1>6 DEF LateInv, HoldsOpen, Bearable, NoSip
<1>10. LinkInv'
  BY <1>2, <1>4, <1>5, <1>6 DEF LinkInv
<1>11. NothingLeaks'
  <2> SUFFICES ASSUME ~world.late, NEW f \in Fds, open[f] # 0
               PROVE  \/ \E l \in Calls : sip'[l].sock = open[f]
                      \/ \E c \in Clients : Alive(c) /\ client[c].sock = open[f]
    BY <1>1, <1>2 DEF NothingLeaks, SocketsKnown, Alive
  <2>1. \/ \E l \in Calls : sip[l].sock = open[f]
        \/ \E c \in Clients : Alive(c) /\ client[c].sock = open[f]
    BY <1>1 DEF NothingLeaks, SocketsKnown
  <2>2. CASE sip[k].sock = open[f]
    <3>1. sip[k] # NoSip
      BY <2>2 DEF NoSip
    <3> QED BY <1>1, <1>7, <2>2, <3>1, ForgetSip DEF OrderInv
  <2>3. CASE sip[k].sock # open[f]
    BY <1>5, <2>1, <2>3
  <2> QED BY <2>2, <2>3
<1>12. OrderInv'
  <2> SUFFICES ASSUME ~world.late, NEW l \in Calls
               PROVE  PhaseInv(l)' /\ ClosedInv(l)' /\ SipOpenInv(l)'
    BY <1>2 DEF OrderInv
  <2>1. PhaseInv(l) /\ ClosedInv(l) /\ SipOpenInv(l)
    BY DEF OrderInv
  <2>2. ClosedInv(l)' /\ SipOpenInv(l)'
    BY <1>1, <1>2, <1>5, <2>1 DEF ClosedInv, SipOpenInv, HoldsOpen
  <2>3. \A n, j : There(n, j)' <=> There(n, j) /\ ~(n = "BYE" /\ j = k)
    BY <1>3, ThereFacts
  <2>4. /\ HasClient(l)' <=> HasClient(l)
        /\ ~Asked("PLAY", l) /\ ~Asked("PLAY", l)'
        /\ Asked("STOP", l)' => l = k
    BY <1>1, <1>2 DEF HasClient, Asked
  <2>5. PhaseInv(l)'
    BY <1>2, <1>5, <1>7, <2>1, <2>3, <2>4 DEF PhaseInv
  <2> QED BY <2>2, <2>5
<1> QED BY <1>1, <1>8, <1>9, <1>10, <1>11, <1>12

\* A PLAY request: what its new client gets is open, and not yet a client's.
LEMMA PlayKeeps ==
  ASSUME SipInv, ReadPlay
  PROVE  SipInv'
<1> USE DEF SipInv
<1> DEFINE k == mail[1].k
           e == nClients + 1
           x == [at |-> "list", k |-> k, fd |-> mail[1].fd, sock |-> mail[1].sock]
<1>1. /\ SafeInv' /\ mail # <<>> /\ mail' = <<>> /\ mail[1].cmd = "PLAY"
      /\ Queued(SipCb)' <=> Queued(SipCb)
      /\ UNCHANGED <<world, peer, net, open, nSockets, arg, sip>>
      /\ \/ ClientOf(k) # {} /\ client' = client
         \/ /\ ClientOf(k) = {} /\ e \in Clients /\ client[e].at = "unused"
            /\ client' = [client EXCEPT ![e] = x]
  BY PlaySafe
<1>2. /\ k \in Calls /\ mail[1].fd \in Fds /\ mail[1].sock \in Sockets /\ 0 \notin Sockets
      /\ TypeOK /\ KernelInv /\ OwnerInv /\ MailInv
  BY <1>1, MailFacts DEF SafeInv, Sockets
<1>3. Asked("PLAY", k) /\ \A l : Asked("PLAY", l) => l = k
  BY <1>1 DEF Asked
<1>4. \A n, l : ~Asked(n, l)'
  BY <1>1 DEF Asked
<1>5. ~world.late => ~HasClient(k)
  BY <1>2, <1>3 DEF OrderInv, PhaseInv
<1>6. ~world.late => ClientOf(k) = {}
  BY <1>5 DEF HasClient, ClientOf
<1> HIDE DEF e, x
<1>7. CASE ClientOf(k) # {} /\ client' = client
  <2>1. world.late
    BY <1>2, <1>6, <1>7, WorldFacts
  <2>2. AliveInv' /\ LateInv' /\ NothingLeaks' /\ OrderInv' /\ LinkInv'
    BY <1>1, <1>7, <2>1 DEF AliveInv, LateInv, NothingLeaks, OrderInv, LinkInv, Alive, HoldsOpen,
                            Bearable
  <2> QED BY <1>1, <2>2
<1>8. CASE /\ ClientOf(k) = {} /\ e \in Clients /\ client[e].at = "unused"
           /\ client' = [client EXCEPT ![e] = x]
  <2>1. x.at = "list" /\ x.k = k /\ x.fd = mail[1].fd /\ x.sock = mail[1].sock
    BY DEF x
  <2>2. \A c \in Clients : client'[c] = IF c = e THEN x ELSE client[c]
    BY <1>2, <1>8 DEF TypeOK
  <2>3. client[e].k \notin Calls
    BY <1>2, <1>8, ClientFacts
  <2>4. Bearable => /\ sip[k] # NoSip /\ sip[k].fd = x.fd /\ sip[k].sock = x.sock
    BY <1>2, <1>3, <2>1 DEF MailInv, NoSip
  <2>5. Bearable => HoldsOpen(k)
    BY <1>2, <1>5, <2>4, WorldFacts DEF OrderInv, SipOpenInv, HasClient, LateInv
  <2>6. Bearable => \A c \in Clients : Alive(c) => client[c].k # k
    <3> SUFFICES ASSUME Bearable, NEW c \in Clients, Alive(c), client[c].k = k
                 PROVE  FALSE
      OBVIOUS
    <3>1. client[c].at = "dying"
      BY <1>8 DEF ClientOf, Listed, Alive
    <3>2. world.breaks /\ ~world.late
      BY <1>2, <3>1, WorldFacts DEF KernelInv
    <3> QED BY <1>5, <3>2 DEF HasClient
  <2>7. \A c \in Clients : Alive(c)' <=> Alive(c) \/ c = e
    BY <2>1, <2>2 DEF Alive
  <2>8. ~Alive(e)
    BY <1>8 DEF Alive
  <2>9. AliveInv'
    BY <1>1, <2>1, <2>2, <2>4, <2>5, <2>6, <2>7 DEF AliveInv, Bearable, HoldsOpen
  <2>10. NothingLeaks'
    <3> SUFFICES ASSUME ~world.late, NEW f \in Fds, open[f] # 0
                 PROVE  \/ \E l \in Calls : sip[l].sock = open[f]
                        \/ \E c \in Clients : Alive(c)' /\ client'[c].sock = open[f]
      BY <1>1 DEF NothingLeaks, SocketsKnown
    <3>1. \/ \E l \in Calls : sip[l].sock = open[f]
          \/ mail[1].sock = open[f]
          \/ \E c \in Clients : Alive(c) /\ client[c].sock = open[f]
      <4>1. DOMAIN mail = {1}
        BY <1>1, <1>2 DEF SafeInv, QueueInv, TypeOK
      <4> QED BY <4>1 DEF NothingLeaks, SocketsKnown
    <3> QED BY <1>8, <2>1, <2>2, <2>7, <2>8, <3>1
  <2>11. LateInv'
    BY <1>1, <2>1, <2>2 DEF LateInv, HoldsOpen, Bearable
  <2>12. LinkInv'
    BY <1>1, <2>1, <2>2 DEF LinkInv
  <2>13. OrderInv'
    <3> SUFFICES ASSUME ~world.late, NEW l \in Calls
                 PROVE  PhaseInv(l)' /\ ClosedInv(l)' /\ SipOpenInv(l)'
      BY <1>1 DEF OrderInv
    <3>1. PhaseInv(l) /\ ClosedInv(l) /\ SipOpenInv(l) /\ Bearable
      BY <1>2, WorldFacts DEF OrderInv
    <3>2. \A j \in Calls : HasClient(j)' <=> HasClient(j) \/ j = k
      BY <1>8, <2>1, <2>2, <2>3 DEF HasClient
    <3>3. \A n : There(n, l)' <=> There(n, l)
      BY <1>1 DEF There
    <3>4. PhaseInv(l)'
      BY <1>1, <1>3, <1>4, <3>1, <3>2, <3>3 DEF PhaseInv
    <3>5. \A c \in Clients : client'[c].k = k => c = e
      BY <1>5, <2>2 DEF HasClient
    <3>6. ClosedInv(l)'
      <4>1. CASE l = k
        BY <1>1, <2>1, <2>2, <2>4, <3>1, <3>5, <4>1 DEF ClosedInv
      <4>2. CASE l # k
        BY <1>1, <2>1, <2>2, <3>1, <4>2 DEF ClosedInv
      <4> QED BY <4>1, <4>2
    <3>7. SipOpenInv(l)'
      <4>1. CASE l = k
        BY <1>1, <2>5, <3>1, <4>1 DEF SipOpenInv, HoldsOpen
      <4>2. CASE l # k
        BY <1>1, <1>8, <2>1, <2>2, <3>1, <4>2 DEF SipOpenInv, HoldsOpen
      <4> QED BY <4>1, <4>2
    <3> QED BY <3>4, <3>6, <3>7
  <2> QED BY <1>1, <2>9, <2>10, <2>11, <2>12, <2>13
<1> QED BY <1>1, <1>7, <1>8

\* Clients that move and stay what they are to their calls.
LEMMA MovedKeeps ==
  ASSUME UNCHANGED <<world, peer, net, open, nSockets, arg>>, ~world.late,
         \A c \in Clients : \E a : Moved(c, a) /\ (a = "gone" <=> client[c].at = "gone"),
         \A k \in Calls : sip'[k] = sip[k] /\ (Asked("PLAY", k)' <=> Asked("PLAY", k)),
         \A k \in Calls : Asked("STOP", k)' => Asked("STOP", k),
         OrderInv
  PROVE  OrderInv'
<1> SUFFICES ASSUME NEW k \in Calls
             PROVE  PhaseInv(k)' /\ ClosedInv(k)' /\ SipOpenInv(k)'
  BY DEF OrderInv
<1>1. PhaseInv(k) /\ ClosedInv(k) /\ SipOpenInv(k)
  BY DEF OrderInv
<1>2. \A c \in Clients :
        /\ client'[c].k = client[c].k /\ client'[c].sock = client[c].sock
        /\ client'[c].at = "gone" <=> client[c].at = "gone"
  BY DEF Moved
<1>3. HasClient(k)' <=> HasClient(k)
  BY <1>2 DEF HasClient
<1>4. PhaseInv(k)'
  BY <1>1, <1>3 DEF PhaseInv, There
<1>5. ClosedInv(k)'
  BY <1>1, <1>2 DEF ClosedInv
<1>6. SipOpenInv(k)'
  BY <1>1, <1>2 DEF SipOpenInv, HoldsOpen
<1> QED BY <1>4, <1>5, <1>6

\* A STOP request: the SIP node of the call is gone already.
LEMMA StopKeeps ==
  ASSUME SipInv, ReadStop
  PROVE  SipInv'
<1> USE DEF SipInv
<1>1. /\ SafeInv' /\ mail # <<>> /\ mail' = <<>> /\ mail[1].cmd = "STOP"
      /\ Queued(SipCb)' <=> Queued(SipCb)
      /\ UNCHANGED <<world, peer, net, open, nSockets, arg, sip, nClients>>
      /\ \A c \in Clients :
           Moved(c, IF c \in ClientOf(mail[1].k) THEN "flagged" ELSE client[c].at)
  BY StopSafe
<1>2. /\ mail[1].k \in Calls /\ TypeOK /\ KernelInv
  BY <1>1, MailFacts DEF SafeInv
<1>3. sip[mail[1].k] = NoSip
  BY <1>1, <1>2 DEF SafeInv, MailInv, Asked
<1>4. \A c \in ClientOf(mail[1].k) : c \in Clients /\ client[c].k = mail[1].k /\ Listed(c)
  BY DEF ClientOf
<1>5. \A c \in Clients :
        /\ client'[c].k = client[c].k /\ client'[c].sock = client[c].sock
        /\ client'[c].fd = client[c].fd
        /\ (Alive(c)' <=> Alive(c)) /\ (client'[c].at = "gone" <=> client[c].at = "gone")
        /\ client'[c].at = "flagged" =>
             client[c].at = "flagged" \/ (client[c].k = mail[1].k /\ Listed(c))
  BY <1>1, <1>4 DEF Moved, Alive, Listed
<1>6. AliveInv'
  BY <1>1, <1>5 DEF AliveInv, Bearable
<1>7. \A c \in Clients : Listed(c) => client[c].sock # 0
  BY <1>2, ClientFacts DEF Listed, Sockets
<1>8. LateInv'
  BY <1>1, <1>3, <1>5, <1>7 DEF LateInv, HoldsOpen, Bearable, NoSip
<1>9. LinkInv'
  BY <1>1, <1>3, <1>5 DEF LinkInv
<1>10. NothingLeaks'
  <2>1. \A i \in DOMAIN mail : mail[i].cmd # "PLAY"
    BY <1>1, <1>2 DEF SafeInv, QueueInv, TypeOK
  <2> QED BY <1>1, <1>5, <2>1 DEF NothingLeaks, SocketsKnown
<1>11. OrderInv'
  <2>1. \A c \in Clients : \E a : Moved(c, a) /\ (a = "gone" <=> client[c].at = "gone")
    BY <1>1, <1>4 DEF Listed
  <2>2. \A k, m : ~Asked(m, k)' /\ ~Asked("PLAY", k)
    BY <1>1 DEF Asked
  <2> QED BY <1>1, <2>1, <2>2, MovedKeeps DEF OrderInv
<1> QED BY <1>1, <1>6, <1>8, <1>9, <1>10, <1>11

\* A timeout: the SIP side is told of the client's call.
LEMMA TimeoutKeeps ==
  ASSUME SipInv, NEW c \in Clients, RtcpTimeout(c)
  PROVE  SipInv'
<1> USE DEF SipInv
<1>1. /\ SafeInv' /\ world.rtcp /\ Alive(c) /\ Queued(SipCb)'
      /\ ~world.together => ~Queued(SipCb)
      /\ UNCHANGED <<world, peer, net, open, nSockets, mail, sip, nClients>>
      /\ arg' = client[c].k
      /\ \A d \in Clients :
           Moved(d, IF d = c /\ client[c].at = "list" THEN "flagged" ELSE client[d].at)
  BY TimeoutSafe
<1>2. TypeOK
  BY DEF SafeInv
<1>3. \A d \in Clients :
        /\ client'[d].k = client[d].k /\ client'[d].sock = client[d].sock
        /\ client'[d].fd = client[d].fd
        /\ (Alive(d)' <=> Alive(d)) /\ (client'[d].at = "gone" <=> client[d].at = "gone")
        /\ client'[d].at = "flagged" => client[d].at = "flagged" \/ d = c
  BY <1>1 DEF Moved, Alive
<1>4. AliveInv'
  BY <1>1, <1>3 DEF AliveInv, Bearable
<1>5. LateInv'
  BY <1>1, <1>2, WorldFacts DEF LateInv, Bearable
<1>6. LinkInv'
  BY <1>1, <1>3 DEF LinkInv
<1>7. NothingLeaks'
  BY <1>1, <1>3 DEF NothingLeaks, SocketsKnown
<1>8. OrderInv'
  <2> SUFFICES ASSUME ~world.late, NEW k \in Calls
               PROVE  PhaseInv(k)' /\ ClosedInv(k)' /\ SipOpenInv(k)'
    BY <1>1 DEF OrderInv
  <2>1. PhaseInv(k) /\ ClosedInv(k) /\ SipOpenInv(k)
    BY DEF OrderInv
  <2>2. /\ HasClient(k)' <=> HasClient(k)
        /\ arg' = k => HasClient(k)
    BY <1>1, <1>3 DEF HasClient
  <2>3. PhaseInv(k)'
    BY <1>1, <2>1, <2>2 DEF PhaseInv, There, Asked
  <2>4. ClosedInv(k)'
    BY <1>1, <1>3, <2>1 DEF ClosedInv
  <2>5. SipOpenInv(k)'
    BY <1>1, <1>3, <2>1 DEF SipOpenInv, HoldsOpen
  <2> QED BY <2>3, <2>4, <2>5
<1> QED BY <1>1, <1>4, <1>5, <1>6, <1>7, <1>8

\* The SIP side is told: the call that it forgets has its client still.
LEMMA PairKeeps ==
  ASSUME SipInv, SipPairRead
  PROVE  SipInv'
<1> USE DEF SipInv
<1>1. /\ SafeInv' /\ world.rtcp /\ Queued(SipCb)
      /\ UNCHANGED <<world, peer, net, open, nSockets, mail, arg, nClients, client>>
      /\ \A k \in Calls : sip'[k] = IF k = arg THEN NoSip ELSE sip[k]
  BY PairSafe
<1>2. TypeOK /\ KernelInv
  BY DEF SafeInv
<1>3. AliveInv'
  BY <1>1 DEF AliveInv, Alive, Bearable
<1>4. LateInv'
  BY <1>1, <1>2, WorldFacts DEF LateInv, Bearable
<1>5. LinkInv'
  <2>1. \A c \in Clients : client[c].at \in {"flagged", "gone"} => client[c].k \in Calls
    BY <1>2, ClientFacts
  <2> QED BY <1>1, <2>1 DEF LinkInv
<1>6. NothingLeaks'
  <2> SUFFICES ASSUME ~world.late, NEW f \in Fds, open[f] # 0,
                      NEW k \in Calls, sip[k].sock = open[f], k = arg
               PROVE  \E c \in Clients : Alive(c) /\ client[c].sock = open[f]
    BY <1>1 DEF NothingLeaks, SocketsKnown, Alive
  <2>1. sip[k] # NoSip
    BY DEF NoSip
  <2>2. HasClient(k) /\ ClosedInv(k)
    BY DEF OrderInv, PhaseInv
  <2> QED BY <1>2, <2>1, <2>2, ForgetSip
<1>7. OrderInv'
  <2> SUFFICES ASSUME ~world.late, NEW k \in Calls
               PROVE  PhaseInv(k)' /\ ClosedInv(k)' /\ SipOpenInv(k)'
    BY <1>1 DEF OrderInv
  <2>1. PhaseInv(k) /\ ClosedInv(k) /\ SipOpenInv(k)
    BY DEF OrderInv
  <2>2. PhaseInv(k)'
    BY <1>1, <2>1 DEF PhaseInv, There, Asked, HasClient
  <2>3. ClosedInv(k)' /\ SipOpenInv(k)'
    BY <1>1, <2>1 DEF ClosedInv, SipOpenInv, HoldsOpen
  <2> QED BY <2>2, <2>3
<1> QED BY <1>1, <1>3, <1>4, <1>5, <1>6, <1>7

\* A source breaks off: its clients still have their sockets.
LEMMA FailureKeeps ==
  ASSUME SipInv, SourceFailure
  PROVE  SipInv'
<1> USE DEF SipInv
<1>1. /\ SafeInv' /\ world.breaks
      /\ UNCHANGED <<world, peer, net, open, nSockets, active, mail, arg, sip, nClients>>
      /\ \A c \in Clients :
           \/ Moved(c, client[c].at)
           \/ Listed(c) /\ Moved(c, "dying")
  BY FailureSafe
<1>2. TypeOK
  BY DEF SafeInv
<1>3. \A c \in Clients :
        /\ client'[c].k = client[c].k /\ client'[c].sock = client[c].sock
        /\ client'[c].fd = client[c].fd /\ (Alive(c)' <=> Alive(c))
  BY <1>1 DEF Moved, Alive, Listed
<1>4. AliveInv'
  BY <1>1, <1>3 DEF AliveInv, Bearable
<1>5. LateInv' /\ LinkInv'
  BY <1>1, <1>2, WorldFacts DEF LateInv, LinkInv, Bearable
<1>6. NothingLeaks'
  BY <1>1, <1>3 DEF NothingLeaks, SocketsKnown
<1>7. OrderInv'
  <2>1. \A c \in Clients : \E a : Moved(c, a) /\ (a = "gone" <=> client[c].at = "gone")
    BY <1>1 DEF Listed
  <2>2. \A k, m : Asked(m, k)' <=> Asked(m, k)
    BY <1>1 DEF Asked
  <2> QED BY <1>1, <2>1, <2>2, MovedKeeps DEF OrderInv
<1> QED BY <1>1, <1>4, <1>5, <1>6, <1>7

\* A client is freed: the socket that it closes is its own, and the last that
\* is known of it is gone with it.
LEMMA RemoveKeeps ==
  ASSUME SipInv, NEW c \in Clients, RemoveClient(c)
  PROVE  SipInv'
<1> USE DEF SipInv
<1>1. /\ SafeInv' /\ (Queued(SipCb)' <=> Queued(SipCb))
      /\ client[c].at \in {"flagged", "dying"} /\ client[c].fd \in Fds
      /\ UNCHANGED <<world, peer, net, nSockets, mail, arg, sip, nClients>>
      /\ \A f \in Fds : open'[f] = IF f = client[c].fd THEN 0 ELSE open[f]
      /\ \A d \in Clients : Moved(d, IF d = c THEN "gone" ELSE client[d].at)
  BY RemoveSafe
<1>2. TypeOK /\ KernelInv /\ OwnerInv
  BY DEF SafeInv
<1> DEFINE k == client[c].k
           fd == client[c].fd
<1>3. /\ k \in Calls /\ client[c].sock \in Sockets /\ client[c].sock # 0 /\ Alive(c)
      /\ client[c].at # "unused"
  BY <1>1, <1>2, ClientFacts DEF Sockets, Alive
<1>4. \A d \in Clients :
        /\ client'[d].k = client[d].k /\ client'[d].sock = client[d].sock
        /\ client'[d].fd = client[d].fd
        /\ client'[d].at = IF d = c THEN "gone" ELSE client[d].at
        /\ Alive(d)' <=> Alive(d) /\ d # c
  BY <1>1 DEF Moved, Alive
<1>5. Bearable => open[fd] = client[c].sock
  BY <1>3 DEF AliveInv
<1>6. Bearable => \A f \in Fds : open[f] = client[c].sock => f = fd
  BY <1>1, <1>2, <1>3, <1>5 DEF KernelInv
<1>7. \A d \in Clients :
        Alive(d) => client[d].fd \in Fds /\ client[d].sock # 0 /\ client[d].at # "unused"
  BY <1>2, ClientFacts DEF Alive, Sockets
<1> HIDE DEF k, fd
<1>8. AliveInv'
  <2> SUFFICES ASSUME Bearable, NEW d \in Clients, Alive(d), d # c
               PROVE  client[d].fd # fd
    BY <1>1, <1>4, <1>7 DEF AliveInv, Bearable, fd
  <2> SUFFICES ASSUME client[d].fd = fd PROVE FALSE
    OBVIOUS
  <2>1. client[d].sock = client[c].sock
    BY <1>5 DEF AliveInv
  <2>2. client[d].k = client[c].k
    BY <1>2, <1>7, <2>1, SameSocket
  <2> QED BY <1>3, <2>2 DEF AliveInv
<1>9. \A l \in Calls : Bearable /\ sip[l] # NoSip /\ HoldsOpen(l) /\ sip[l].fd = fd
                         => client[c].k = l /\ client[c].sock = sip[l].sock
  BY <1>2, <1>5, SameSocket DEF HoldsOpen
<1>10. \A l \in Calls : sip[l] # NoSip => sip[l].fd \in Fds
  BY <1>2, SipFacts
<1>11. \A l \in Calls : sip[l] # NoSip /\ HoldsOpen(l) /\ sip[l].fd # fd => HoldsOpen(l)'
  BY <1>1, <1>10 DEF HoldsOpen, fd
<1>12. LateInv'
  <2> SUFFICES ASSUME world.late, Bearable PROVE LateInv'
    BY <1>1 DEF LateInv, Bearable
  <2>1. client[c].at = "flagged"
    BY <1>1, <1>2, WorldFacts DEF KernelInv
  <2>2. \A l \in Calls : sip[l] # NoSip => sip[l].fd # fd
    BY <1>9, <2>1 DEF LateInv
  <2> QED BY <1>1, <1>4, <1>11, <2>1, <2>2 DEF LateInv
<1>13. LinkInv'
  <2>1. world.breaks \/ client[c].at = "flagged"
    BY <1>1, <1>2 DEF KernelInv
  <2> QED BY <1>1, <1>4, <2>1 DEF LinkInv
<1>14. NothingLeaks'
  <2> SUFFICES ASSUME ~world.late, NEW f \in Fds, open'[f] # 0
               PROVE  \/ \E l \in Calls : sip[l].sock = open'[f]
                      \/ \E i \in DOMAIN mail : mail[i].cmd = "PLAY" /\ mail[i].sock = open'[f]
                      \/ \E d \in Clients : Alive(d)' /\ client'[d].sock = open'[f]
    BY <1>1 DEF NothingLeaks, SocketsKnown
  <2>1. f # fd /\ open'[f] = open[f]
    BY <1>1 DEF fd
  <2>2. client[c].sock # open[f]
    BY <1>2, <1>6, <2>1, WorldFacts
  <2> QED BY <1>4, <2>1, <2>2 DEF NothingLeaks, SocketsKnown
<1>15. OrderInv'
  <2> SUFFICES ASSUME ~world.late, NEW l \in Calls
               PROVE  PhaseInv(l)' /\ ClosedInv(l)' /\ SipOpenInv(l)'
    BY <1>1 DEF OrderInv
  <2>1. PhaseInv(l) /\ ClosedInv(l) /\ SipOpenInv(l) /\ Bearable
    BY <1>2, WorldFacts DEF OrderInv
  <2>2. HasClient(l)' <=> HasClient(l)
    BY <1>4 DEF HasClient
  <2>3. PhaseInv(l)'
    BY <1>1, <2>1, <2>2 DEF PhaseInv, There, Asked
  <2>4. ASSUME NEW d \in Clients, client'[d].at = "gone", client[d].k = l, NEW f \in Fds
        PROVE  open'[f] # client[d].sock
    <3>1. client[d].sock # 0
      BY <1>2, <1>3, <1>4, <2>4, ClientFacts DEF Sockets
    <3>2. CASE d = c
      BY <1>1, <1>6, <2>1, <3>1, <3>2 DEF fd
    <3>3. CASE d # c
      BY <1>1, <1>4, <2>1, <2>4, <3>1, <3>3 DEF ClosedInv
    <3> QED BY <3>2, <3>3
  <2>5. ClosedInv(l)'
    BY <1>1, <1>4, <2>1, <2>4 DEF ClosedInv
  <2>6. SipOpenInv(l)'
    BY <1>1, <1>4, <1>9, <1>11, <2>1 DEF SipOpenInv
  <2> QED BY <2>3, <2>5, <2>6
<1> QED BY <1>1, <1>8, <1>12, <1>13, <1>14, <1>15

-----------------------------------------------------------------------------
\* Nothing has been sent, opened, stored or allocated yet.
LEMMA SipStart ==
  ASSUME Init
  PROVE  SipInv
<1> USE DEF Init
<1>1. active = <<>> /\ mail = <<>> /\ ToSet(active) = {} /\ world \in Worlds
  BY DEF ToSet
<1>2. \A x : ~Queued(x)
  BY <1>1 DEF Queued
<1>3. /\ \A k \in Calls : sip[k] = NoSip /\ peer[k] = "new"
      /\ \A f \in Fds : open[f] = 0
      /\ \A c \in Clients : client[c] = [at |-> "unused", k |-> None, fd |-> 0, sock |-> 0]
      /\ NoSip.sock = 0 /\ 0 \notin Sockets
  BY DEF NoSip, Sockets
<1>4. \A c \in Clients :
        client[c].at = "unused" /\ client[c].k = None /\ client[c].fd = 0 /\ client[c].sock = 0
  BY <1>3
<1>5. \A m, k : ~Asked(m, k) /\ ~There(m, k)
  BY <1>1 DEF Asked, There
<1>6. \A k \in Calls : ~HasClient(k)
  BY <1>4, NoneAssumption DEF HasClient
<1>7. TypeOK
  <2>1. client \in [Clients -> ClientObjs]
    BY DEF ClientObjs
  <2>2. sip \in [Calls -> SipNodes]
    BY DEF SipNodes
  <2>3. nSockets \in 0 .. MaxSockets /\ nClients \in 0 .. MaxClients
    BY BoundAssumption
  <2> QED BY <2>1, <2>2, <2>3 DEF TypeOK
<1>8. QueueInv /\ TimerInv /\ ArmedInv
  BY <1>1, <1>2 DEF QueueInv, TimerInv, ArmedInv, IsInjective
<1>9. KernelInv
  <2>1. \A c \in Clients : c > nClients
    BY DEF Clients
  <2> QED BY <1>3, <1>4, <2>1 DEF KernelInv
<1>10. OwnerInv
  <2>1. \A k \in Calls, s \in Sockets : ~Knows(k, s)
    BY <1>1, <1>3, <1>4 DEF Knows
  <2> QED BY <2>1 DEF OwnerInv
<1>11. MailInv
  BY <1>5 DEF MailInv
<1>12. AliveInv /\ NothingLeaks /\ LateInv /\ LinkInv
  BY <1>3, <1>4 DEF AliveInv, NothingLeaks, SocketsKnown, LateInv, LinkInv, Alive
<1>13. OrderInv
  <2> SUFFICES ASSUME NEW k \in Calls
               PROVE  PhaseInv(k) /\ ClosedInv(k) /\ SipOpenInv(k)
    BY DEF OrderInv
  <2>1. arg # k
    BY NoneAssumption
  <2>2. PhaseInv(k)
    BY <1>3, <1>5, <1>6, <2>1 DEF PhaseInv
  <2>3. ClosedInv(k) /\ SipOpenInv(k)
    BY <1>3, <1>6 DEF ClosedInv, SipOpenInv, HasClient
  <2> QED BY <2>2, <2>3
<1> QED BY <1>7, <1>8, <1>9, <1>10, <1>11, <1>12, <1>13 DEF SipInv, SafeInv

\* The invariant is inductive: every handler of the loop, every datagram, a
\* source that breaks off and the send task's removals keep it.
THEOREM SipInductive == Spec => []SipInv
<1>1. SipInv /\ [Next]_vars => SipInv'
  <2> SUFFICES ASSUME SipInv, [Next]_vars PROVE SipInv'
    OBVIOUS
  <2>1. CASE Peer
    BY <2>1, SendKeeps DEF Peer
  <2>2. CASE Loop
    <3>1. CASE Dispatch
      BY <3>1, DispatchKeeps
    <3>2. CASE \E k \in Calls : RecvInvite(k) \/ RecvAck(k) \/ RecvBye(k)
      BY <3>2, InviteKeeps, AckKeeps, ByeKeeps
    <3>3. CASE ReadPlay \/ ReadStop \/ SipPairRead
      BY <3>3, PlayKeeps, StopKeeps, PairKeeps
    <3>4. CASE \E c \in Clients : RtcpTimeout(c)
      BY <3>4, TimeoutKeeps
    <3> QED BY <2>2, <3>1, <3>2, <3>3, <3>4 DEF Loop
  <2>3. CASE SourceFailure
    BY <2>3, FailureKeeps
  <2>4. CASE \E c \in Clients : RemoveClient(c)
    BY <2>4, RemoveKeeps
  <2>5. CASE UNCHANGED vars
    <3>1. UNCHANGED <<world, peer, net, open, nSockets, active, mail, arg, sip, nClients, client>>
      BY <2>5 DEF vars, peerVars, kernelVars, pairVars, streamVars
    <3>2. SafeInv'
      <4>1. TypeOK' /\ KernelInv' /\ OwnerInv' /\ MailInv'
        BY <3>1 DEF SipInv, SafeInv, TypeOK, KernelInv, OwnerInv, Knows, MailInv, Asked, Bearable
      <4>2. QueueInv' /\ TimerInv' /\ ArmedInv'
        BY <3>1 DEF SipInv, SafeInv, QueueInv, TimerInv, ArmedInv, Queued, Alive
      <4> QED BY <4>1, <4>2 DEF SafeInv
    <3>3. AliveInv' /\ NothingLeaks' /\ LateInv' /\ LinkInv'
      BY <3>1 DEF SipInv, AliveInv, NothingLeaks, SocketsKnown, LateInv, LinkInv, Alive,
                  HoldsOpen, Queued, Bearable
    <3>4. OrderInv'
      <4>1. ASSUME NEW k \in Calls, PhaseInv(k) PROVE PhaseInv(k)'
        BY <3>1, <4>1 DEF PhaseInv, There, HasClient, Asked
      <4>2. ASSUME NEW k \in Calls, ClosedInv(k), SipOpenInv(k)
            PROVE  ClosedInv(k)' /\ SipOpenInv(k)'
        BY <3>1, <4>2 DEF ClosedInv, SipOpenInv, HoldsOpen
      <4> QED BY <3>1, <4>1, <4>2 DEF SipInv, OrderInv
    <3> QED BY <3>2, <3>3, <3>4 DEF SipInv
  <2> QED BY <2>1, <2>2, <2>3, <2>4, <2>5 DEF Next
<1> QED BY <1>1, SipStart, PTL DEF Spec

\* stream_read_cb reads one message a call, and leaves none: a request waits
\* for a callback that is in the queue, and at the end of a turn none is.
THEOREM RequestsRead == Spec => []NoRequestLeft
<1>1. SipInv => NoRequestLeft
  BY DEF SipInv, SafeInv, QueueInv, NoRequestLeft, Turn, Queued, ToSet
<1> QED BY <1>1, SipInductive, PTL

\* The descriptor of a client that is sent to is open and its own call's, as
\* long as the circumstances are bearable.
THEOREM ClientsSendSafely == Spec => []CallsSafe
<1>1. SipInv => CallsSafe
  BY DEF SipInv, SafeInv, AliveInv, CallsSafe, OwnSocket, Listed, Alive
<1> QED BY <1>1, SipInductive, PTL

\* Datagrams in order: an open socket is known to a SIP node, to a PLAY
\* request or to a client, whatever fails.
THEOREM SocketsNotForgotten == Spec => []NothingLeaks
<1>1. SipInv => NothingLeaks
  BY DEF SipInv
<1> QED BY <1>1, SipInductive, PTL

\* The SIP node of a call whose media was closed is gone by the end of the
\* turn, while sources hold and timeouts come singly.
THEOREM LinksClosed == Spec => []LinksAgree
<1>1. SipInv => LinksAgree
  <2> SUFFICES ASSUME SipInv, Bearable, ~world.breaks, ~world.together, Turn,
                      NEW k \in Calls, sip[k] # NoSip
               PROVE  HoldsOpen(k)
    BY DEF LinksAgree, AllLinksClosed, HoldsOpen
  <2>1. CASE world.late
    BY <2>1 DEF SipInv, LateInv
  <2>2. CASE ~world.late
    <3>1. ~Queued(SipCb)
      BY DEF Turn, Queued, ToSet
    <3>2. ~ \E c \in Clients : client[c].k = k /\ client[c].at = "gone"
      BY <2>2, <3>1 DEF SipInv, LinkInv
    <3> QED BY <2>2, <3>2 DEF SipInv, OrderInv, SipOpenInv
  <2> QED BY <2>1, <2>2
<1> QED BY <1>1, SipInductive, PTL
=============================================================================
