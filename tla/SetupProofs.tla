---------------------------- MODULE SetupProofs -----------------------------
(***************************************************************************)
(* Theorems about what happens before a stream flows: PortSearch, for every *)
(* set of calls, every port space of even size and every other program of  *)
(* the machine; SdpOffer, for every offer; ConfigFile, for every file; and *)
(* TcpTransfer, for every sequence of messages.                            *)
(***************************************************************************)
EXTENDS PortSearch, SdpOffer, ConfigFile, TcpTransfer, SequenceFacts

-----------------------------------------------------------------------------
\* PortSearch

\* The number the search is at is even, and the RTP socket is bound to it
\* while the search waits for its neighbour.
AtEvenPort ==
  searching # "idle" =>
    /\ told[caller] > 0 /\ told[caller] % 2 = 0
    /\ searching = "rtcp" =>
         useRtcp /\ (told[caller] \in Ports => rtpPort[caller] = told[caller])

PortsInv == PortsTypeOK /\ PortsTold /\ NoPortLost /\ AtEvenPort

\* No call has a port yet.
LEMMA PortsInvInit == PortsInit => PortsInv
BY PortAssumption DEF PortsInit, PortsInv, PortsTypeOK, PortsTold, NoPortLost,
                      AtEvenPort, Ports

\* A socket is bound to a port, and to the one asked for when it is one.
LEMMA BindableFacts ==
  ASSUME NEW t \in Nat, NEW p \in Bindable(t)
  PROVE  p \in Ports /\ (t \in Ports => p = t)
<1>1. t \in Ports => t % PortMod = t /\ t # 0
  BY PortAssumption DEF Ports
<1> QED BY <1>1, PortAssumption DEF Bindable, FreePorts, Ports

\* The next number to try is even and positive, too.
LEMMA NextTryFacts ==
  ASSUME PortsInv, searching # "idle", NextTry
  PROVE  /\ told' = [told EXCEPT ![caller] = told[caller] + 2]
         /\ told'[caller] \in Nat /\ told'[caller] > 0 /\ told'[caller] % 2 = 0
         /\ told' \in [Callers -> Nat]
         /\ \A c \in Callers : c # caller => told'[c] = told[c]
<1>1. caller \in Callers /\ told \in [Callers -> Nat]
  BY DEF PortsInv, PortsTypeOK
<1>2. told' = [told EXCEPT ![caller] = told[caller] + 2]
  BY DEF NextTry, Step
<1>3. told[caller] \in Nat /\ told[caller] > 0 /\ told[caller] % 2 = 0
  BY <1>1 DEF PortsInv, AtEvenPort
<1>4. told'[caller] = told[caller] + 2
  BY <1>1, <1>2
<1>5. (told[caller] + 2) % 2 = 0
  BY <1>3
<1> QED BY <1>1, <1>2, <1>3, <1>4, <1>5

\* A call begins its search.
LEMMA StartSearchInv ==
  ASSUME PortsInv, NEW c \in Callers, NEW r \in Starts, StartSearch(c, r)
  PROVE  PortsInv'
<1>1. /\ r \in Nat \ {0} /\ 2 * r \in Nat /\ 2 * r > 0 /\ (2 * r) % 2 = 0
  BY PortAssumption
<1>2. /\ searching = "idle" /\ told[c] = 0 /\ caller' = c /\ searching' = "rtp"
      /\ told' = [told EXCEPT ![c] = 2 * r]
      /\ UNCHANGED <<useRtcp, others, rtpPort, rtcpPort>>
  BY DEF StartSearch
<1>3. told \in [Callers -> Nat] /\ told'[c] = 2 * r
  BY <1>2 DEF PortsInv, PortsTypeOK
<1>4. PortsTypeOK'
  BY <1>1, <1>2, <1>3 DEF PortsInv, PortsTypeOK
<1>5. PortsTold'
  BY <1>2, <1>3, PortAssumption DEF PortsInv, PortsTypeOK, PortsTold
<1>6. NoPortLost'
  BY <1>1, <1>2, <1>3 DEF PortsInv, NoPortLost
<1>7. AtEvenPort'
  BY <1>1, <1>2, <1>3 DEF AtEvenPort
<1> QED BY <1>4, <1>5, <1>6, <1>7 DEF PortsInv

\* The RTP socket is bound, or the next port is tried.
LEMMA BindRtpInv == ASSUME PortsInv, BindRtp PROVE PortsInv'
<1>0. /\ searching = "rtp" /\ caller \in Callers /\ NoCall \notin Callers
      /\ told \in [Callers -> Nat] /\ told[caller] \in Nat
      /\ rtpPort \in [Callers -> 0 .. PortMod - 1]
      /\ rtpPort[caller] = 0 /\ rtcpPort[caller] = 0
      /\ told[caller] > 0 /\ told[caller] % 2 = 0
      /\ useRtcp \in BOOLEAN /\ UNCHANGED <<useRtcp, others, rtcpPort>>
  BY PortAssumption DEF BindRtp, PortsInv, PortsTypeOK, NoPortLost, AtEvenPort
<1>1. ASSUME NEW p \in Bindable(told[caller]),
             rtpPort' = [rtpPort EXCEPT ![caller] = p],
             searching' = IF useRtcp THEN "rtcp" ELSE "idle",
             caller' = IF useRtcp THEN caller ELSE NoCall,
             UNCHANGED told
      PROVE  PortsInv'
  <2>1. p \in Ports /\ (told[caller] \in Ports => p = told[caller])
    BY <1>0, BindableFacts
  <2>2. /\ rtpPort' \in [Callers -> 0 .. PortMod - 1] /\ rtpPort'[caller] = p
        /\ \A c \in Callers : c # caller => rtpPort'[c] = rtpPort[c]
    BY <1>0, <1>1, <2>1 DEF Ports
  <2>3. PortsTypeOK'
    BY <1>0, <1>1, <2>2 DEF PortsInv, PortsTypeOK
  <2>4. PortsTold'
    BY <1>0, <1>1, <2>1, <2>2 DEF PortsInv, PortsTold, Ports
  <2>5. NoPortLost'
    BY <1>0, <1>1, <2>1, <2>2 DEF PortsInv, NoPortLost, Ports
  <2>6. AtEvenPort'
    BY <1>0, <1>1, <2>1, <2>2 DEF AtEvenPort
  <2> QED BY <2>3, <2>4, <2>5, <2>6 DEF PortsInv
<1>2. ASSUME NextTry, UNCHANGED <<rtpPort, searching, caller>> PROVE PortsInv'
  <2>1. /\ told'[caller] \in Nat /\ told'[caller] > 0 /\ told'[caller] % 2 = 0
        /\ told' \in [Callers -> Nat]
        /\ \A c \in Callers : c # caller => told'[c] = told[c]
    BY <1>0, <1>2, NextTryFacts
  <2>2. PortsTypeOK'
    BY <1>0, <1>2, <2>1 DEF PortsInv, PortsTypeOK
  <2>3. PortsTold'
    BY <1>0, <1>2, <2>1 DEF PortsInv, PortsTold
  <2>4. NoPortLost'
    BY <1>0, <1>2, <2>1 DEF PortsInv, NoPortLost
  <2>5. AtEvenPort'
    BY <1>0, <1>2, <2>1 DEF AtEvenPort
  <2> QED BY <2>2, <2>3, <2>4, <2>5 DEF PortsInv
<1> QED BY <1>1, <1>2 DEF BindRtp

\* The RTCP socket is bound to the neighbour, or both sockets try again.
LEMMA BindRtcpInv == ASSUME PortsInv, BindRtcp PROVE PortsInv'
<1>0. /\ searching = "rtcp" /\ caller \in Callers /\ NoCall \notin Callers
      /\ told \in [Callers -> Nat] /\ told[caller] \in Nat
      /\ rtpPort \in [Callers -> 0 .. PortMod - 1]
      /\ rtcpPort \in [Callers -> 0 .. PortMod - 1]
      /\ rtpPort[caller] # 0 /\ rtcpPort[caller] = 0
      /\ told[caller] > 0 /\ told[caller] % 2 = 0 /\ useRtcp
      /\ told[caller] \in Ports => rtpPort[caller] = told[caller]
      /\ UNCHANGED <<useRtcp, others>>
      /\ PortMod \in Nat /\ PortMod % 2 = 0 /\ PortMod > 0
  BY PortAssumption DEF BindRtcp, PortsInv, PortsTypeOK, NoPortLost, AtEvenPort
<1>1. ASSUME NEW p \in Bindable(told[caller] + 1),
             rtcpPort' = [rtcpPort EXCEPT ![caller] = p],
             searching' = "idle", caller' = NoCall, UNCHANGED <<told, rtpPort>>
      PROVE  PortsInv'
  <2>1. told[caller] \in Ports => told[caller] + 1 \in Ports
    BY <1>0 DEF Ports
  <2>2. p \in Ports /\ (told[caller] \in Ports => p = told[caller] + 1)
    BY <1>0, <2>1, BindableFacts
  <2>3. /\ rtcpPort' \in [Callers -> 0 .. PortMod - 1] /\ rtcpPort'[caller] = p
        /\ \A c \in Callers : c # caller => rtcpPort'[c] = rtcpPort[c]
    BY <1>0, <1>1, <2>2 DEF Ports
  <2>4. PortsTypeOK'
    BY <1>0, <1>1, <2>3 DEF PortsInv, PortsTypeOK
  <2>5. PortsTold'
    BY <1>0, <1>1, <2>2, <2>3 DEF PortsInv, PortsTold, Ports
  <2>6. NoPortLost'
    BY <1>0, <1>1, <2>3 DEF PortsInv, NoPortLost
  <2>7. AtEvenPort'
    BY <1>1 DEF AtEvenPort
  <2> QED BY <2>4, <2>5, <2>6, <2>7 DEF PortsInv
<1>2. ASSUME NextTry, rtpPort' = CloseRtp, searching' = "rtp",
             UNCHANGED <<rtcpPort, caller>>
      PROVE  PortsInv'
  <2>1. /\ told'[caller] \in Nat /\ told'[caller] > 0 /\ told'[caller] % 2 = 0
        /\ told' \in [Callers -> Nat]
        /\ \A c \in Callers : c # caller => told'[c] = told[c]
    BY <1>0, <1>2, NextTryFacts
  <2>2. /\ rtpPort' \in [Callers -> 0 .. PortMod - 1] /\ rtpPort'[caller] = 0
        /\ \A c \in Callers : c # caller => rtpPort'[c] = rtpPort[c]
    BY <1>0, <1>2 DEF CloseRtp
  <2>3. PortsTypeOK'
    BY <1>0, <1>2, <2>1, <2>2 DEF PortsInv, PortsTypeOK
  <2>4. PortsTold'
    BY <1>0, <1>2, <2>1, <2>2 DEF PortsInv, PortsTold
  <2>5. NoPortLost'
    BY <1>0, <1>2, <2>1, <2>2 DEF PortsInv, NoPortLost
  <2>6. AtEvenPort'
    BY <1>0, <1>2, <2>1 DEF AtEvenPort
  <2> QED BY <2>3, <2>4, <2>5, <2>6 DEF PortsInv
<1> QED BY <1>1, <1>2 DEF BindRtcp

\* The sockets of a call are closed.
LEMMA CloseSocketsInv ==
  ASSUME PortsInv, NEW c \in Callers, CloseSockets(c) PROVE PortsInv'
<1>1. /\ searching = "idle" /\ searching' = "idle" /\ caller' = caller
      /\ told' = [told EXCEPT ![c] = 0] /\ rtpPort' = [rtpPort EXCEPT ![c] = 0]
      /\ rtcpPort' = [rtcpPort EXCEPT ![c] = 0] /\ UNCHANGED <<useRtcp, others>>
  BY DEF CloseSockets
<1>2. /\ told'[c] = 0 /\ rtpPort'[c] = 0 /\ rtcpPort'[c] = 0
      /\ \A d \in Callers : d # c => /\ told'[d] = told[d]
                                     /\ rtpPort'[d] = rtpPort[d]
                                     /\ rtcpPort'[d] = rtcpPort[d]
  BY <1>1 DEF PortsInv, PortsTypeOK
<1>3. PortsTypeOK'
  BY <1>1, PortAssumption DEF PortsInv, PortsTypeOK
<1>4. PortsTold'
  BY <1>1, <1>2 DEF PortsInv, PortsTold
<1>5. NoPortLost'
  BY <1>1, <1>2 DEF PortsInv, NoPortLost
<1>6. AtEvenPort'
  BY <1>1 DEF AtEvenPort
<1> QED BY <1>3, <1>4, <1>5, <1>6 DEF PortsInv

\* What the other programs do changes nothing for the calls.
LEMMA OthersInv ==
  ASSUME PortsInv, others' \subseteq Ports,
         UNCHANGED <<useRtcp, portVars, caller, searching>>
  PROVE  PortsInv'
BY DEF PortsInv, PortsTypeOK, PortsTold, NoPortLost, AtEvenPort, portVars

\* Every step of a call or of another program.
LEMMA PortsInvNext == PortsInv /\ [PortsNext]_portsAll => PortsInv'
<1> SUFFICES ASSUME PortsInv, [PortsNext]_portsAll PROVE PortsInv'
  OBVIOUS
<1>1. ASSUME NEW c \in Callers, CloseSockets(c) PROVE PortsInv'
  BY <1>1, CloseSocketsInv
<1>2. ASSUME NEW c \in Callers, NEW r \in Starts, StartSearch(c, r)
      PROVE  PortsInv'
  BY <1>2, StartSearchInv
<1>3. CASE Search
  BY <1>3, BindRtpInv, BindRtcpInv DEF Search
<1>4. ASSUME NEW p \in Ports, OthersBind(p) PROVE PortsInv'
  <2>1. others' \subseteq Ports
    BY <1>4 DEF OthersBind, PortsInv, PortsTypeOK
  <2> QED BY <1>4, <2>1, OthersInv DEF OthersBind
<1>5. ASSUME NEW p \in Ports, OthersRelease(p) PROVE PortsInv'
  <2>1. others' \subseteq Ports
    BY <1>5 DEF OthersRelease, PortsInv, PortsTypeOK
  <2> QED BY <1>5, <2>1, OthersInv DEF OthersRelease
<1>6. CASE UNCHANGED portsAll
  BY <1>6, OthersInv DEF portsAll, PortsInv, PortsTypeOK
<1> QED BY <1>1, <1>2, <1>3, <1>4, <1>5, <1>6 DEF PortsNext

\* Types of the calls' ports and of the search.
THEOREM PortsTypeCorrect == PortsSpec => []PortsTypeOK
<1>1. PortsInv => PortsTypeOK
  BY DEF PortsInv
<1> QED BY <1>1, PortsInvInit, PortsInvNext, PTL DEF PortsSpec

\* The answer to an INVITE names the even port the stream comes from, with RTCP
\* on its neighbour, whatever other programs bind meanwhile (sip_hash.c:59, 67).
THEOREM AnswerNamesPort == PortsSpec => []PortsTold
<1>1. PortsInv => PortsTold
  BY DEF PortsInv
<1> QED BY <1>1, PortsInvInit, PortsInvNext, PTL DEF PortsSpec

\* A search leaves no socket behind (sip_hash.c:72).
THEOREM SearchKeepsNoPort == PortsSpec => []NoPortLost
<1>1. PortsInv => NoPortLost
  BY DEF PortsInv
<1> QED BY <1>1, PortsInvInit, PortsInvNext, PTL DEF PortsSpec

-----------------------------------------------------------------------------
\* SdpOffer

\* struct sdp_t has its fields, and the list of the media its own
SdpFields == {"v", "o", "s", "i", "u", "c", "k", "y", "e", "p", "b", "t", "a", "m"}
ListFields == {"count", "own", "ptr", "capacity"}
OfferShape ==
  /\ text \in Seq(Lines)
  /\ reading \in {"parse", "cut", "aborted", "crashed", "read"}
  /\ DOMAIN sdp = SdpFields /\ DOMAIN sdp.m = ListFields /\ sdp.m.count \in Nat

\* What the parser remembers of the lines it has read: all of them were good,
\* there was an u= line if there is one in the structure, an o= line and a c=
\* line before the media are in the structure, and there was an m= line if
\* there is a media.
Remembered ==
  reading \in {"parse", "cut"} =>
    /\ \A i \in 1 .. Len(text) : text[i].ok /\ text[i].t \in Types
    /\ sdp.u # NULL => \E i \in 1 .. Len(text) : text[i].t = "u"
    /\ \A i \in 1 .. Len(text) : text[i].t = "o" => sdp.o # NULL
    /\ \A i \in 1 .. Len(text) :
         text[i].t = "c" /\ (\A x \in 1 .. i : text[x].t # "m") => sdp.c # NULL
    /\ sdp.m.count # 0 => \E i \in 1 .. Len(text) : text[i].t = "m"

OfferInv == OfferShape /\ Remembered /\ GoodOfferAnswered

LEMMA OfferStarts == OfferInit => OfferInv
<1> SUFFICES ASSUME OfferInit PROVE OfferInv
  OBVIOUS
<1>1. text = <<>> /\ reading = "parse" /\ sdp.u = NULL /\ sdp.m = EmptyList
  BY DEF OfferInit
<1>2. DOMAIN sdp = SdpFields
  BY DEF OfferInit, SdpFields
<1>3. DOMAIN EmptyList = ListFields /\ EmptyList.count = 0
  BY DEF EmptyList, ListFields
<1>4. OfferShape
  BY <1>1, <1>2, <1>3 DEF OfferShape
<1>5. Remembered
  BY <1>1, <1>3 DEF Remembered
<1>6. GoodOfferAnswered
  BY <1>1 DEF GoodOfferAnswered
<1> QED BY <1>4, <1>5, <1>6 DEF OfferInv

\* The line that is read comes after the others.
LEMMA ReadLine ==
  ASSUME OfferInv, NEW l \in Lines, Read(l)
  PROVE  /\ reading = "parse" /\ text' \in Seq(Lines) /\ Len(text) \in Nat
         /\ Len(text') = Len(text) + 1 /\ text'[Len(text) + 1] = l
         /\ \A i \in 1 .. Len(text) : text'[i] = text[i]
  BY DEF OfferInv, OfferShape, Read

\* A list keeps its fields, and its count grows with an entry.
LEMMA ListShape ==
  ASSUME NEW l, NEW x, DOMAIN l = ListFields, l.count \in Nat
  PROVE  /\ DOMAIN PutLast(l, x) = ListFields /\ PutLast(l, x).count = l.count + 1
         /\ DOMAIN SetLast(l, x) = ListFields /\ SetLast(l, x).count = l.count
<1>1. /\ DOMAIN PutLast(l, x) = ListFields /\ PutLast(l, x).count = l.count + 1
  BY DEF PutLast, ListFields
<1>2. /\ DOMAIN SetLast(l, x) = ListFields /\ SetLast(l, x).count = l.count
  BY DEF SetLast, ListFields
<1> QED BY <1>1, <1>2

\* A good line: what it has to leave in the structure.
LEMMA GoodLine ==
  ASSUME OfferInv, NEW l \in Lines, Read(l), l.ok, l.t \in Types,
         reading' \in {"parse", "cut"},
         DOMAIN sdp' = SdpFields, DOMAIN sdp'.m = ListFields, sdp'.m.count \in Nat,
         l.t # "u" => sdp'.u = sdp.u,
         sdp'.o # NULL \/ (l.t # "o" /\ sdp'.o = sdp.o),
         sdp'.c # NULL \/ (sdp'.c = sdp.c /\ (l.t = "c" => sdp.m.count # 0)),
         l.t # "m" => sdp'.m.count = sdp.m.count
  PROVE  OfferInv'
<1>1. PICK L \in Nat : /\ L = Len(text) /\ Len(text') = L + 1 /\ text'[L + 1] = l
                       /\ \A i \in 1 .. L : text'[i] = text[i]
  BY ReadLine
<1>2. reading = "parse" /\ text' \in Seq(Lines)
  BY ReadLine
<1>3. \A i \in 1 .. L + 1 : i = L + 1 \/ i \in 1 .. L
  OBVIOUS
<1>4. L + 1 \in 1 .. L + 1 /\ \A i \in 1 .. L : i \in 1 .. L + 1
  OBVIOUS
<1>5. Remembered
  BY DEF OfferInv
<1>6. \A i \in 1 .. L + 1 : text'[i].ok /\ text'[i].t \in Types
  BY <1>1, <1>2, <1>3, <1>5 DEF Remembered
<1>7. sdp'.u # NULL => \E i \in 1 .. L + 1 : text'[i].t = "u"
  BY <1>1, <1>2, <1>4, <1>5 DEF Remembered
<1>8. \A i \in 1 .. L + 1 : text'[i].t = "o" => sdp'.o # NULL
  BY <1>1, <1>2, <1>3, <1>5 DEF Remembered
<1>9. sdp'.m.count # 0 => \E i \in 1 .. L + 1 : text'[i].t = "m"
  BY <1>1, <1>2, <1>4, <1>5 DEF Remembered
<1>10. ASSUME NEW i \in 1 .. L + 1, text'[i].t = "c", \A x \in 1 .. i : text'[x].t # "m",
              sdp'.c = NULL
       PROVE  FALSE
  <2>1. sdp.c = NULL /\ (l.t = "c" => sdp.m.count # 0)
    BY <1>10
  <2>2. CASE i = L + 1
    <3>1. PICK x \in 1 .. L : text[x].t = "m"
      BY <1>1, <1>2, <1>5, <1>10, <2>1, <2>2 DEF Remembered
    <3>2. x \in 1 .. i
      BY <2>2, <1>4
    <3> QED BY <1>1, <1>10, <3>1, <3>2
  <2>3. CASE i \in 1 .. L
    <3>1. \A x \in 1 .. i : x \in 1 .. L
      BY <2>3
    <3>2. text[i].t = "c" /\ \A x \in 1 .. i : text[x].t # "m"
      BY <1>1, <1>10, <2>3, <3>1
    <3> QED BY <1>1, <1>2, <1>5, <2>1, <2>3, <3>2 DEF Remembered
  <2> QED BY <1>3, <2>2, <2>3
<1>11. Remembered'
  BY <1>1, <1>6, <1>7, <1>8, <1>9, <1>10 DEF Remembered
<1>12. OfferShape'
  BY <1>2 DEF OfferShape
<1>13. GoodOfferAnswered'
  BY DEF GoodOfferAnswered
<1> QED BY <1>11, <1>12, <1>13 DEF OfferInv

LEMMA GoodLinesKeep ==
  ASSUME OfferInv, NEW l \in Lines,
         SessionField(l) \/ SessionList(l) \/ MediaField(l) \/ MediaList(l) \/ Media(l)
  PROVE  OfferInv'
<1>1. /\ DOMAIN sdp = SdpFields /\ DOMAIN sdp.m = ListFields /\ sdp.m.count \in Nat
      /\ reading \in {"parse", "cut", "aborted", "crashed", "read"} /\ l # NULL
  BY OfferAssumption DEF OfferInv, OfferShape
<1>2. CASE SessionField(l)
  <2>1. /\ l.t \in SessionFields /\ l.ok /\ Read(l) /\ reading' = reading
        /\ ToSession(l.t) /\ sdp' = [sdp EXCEPT ![l.t] = l]
    BY <1>2 DEF SessionField
  <2>2. l.t \in SdpFields /\ l.t # "m" /\ l.t \in Types
    BY <2>1 DEF SessionFields, SdpFields, Types
  <2>3. /\ DOMAIN sdp' = SdpFields /\ sdp'.m = sdp.m
        /\ l.t # "u" => sdp'.u = sdp.u
        /\ sdp'.o # NULL \/ (l.t # "o" /\ sdp'.o = sdp.o)
        /\ sdp'.c # NULL \/ (l.t # "c" /\ sdp'.c = sdp.c)
    BY <1>1, <2>1, <2>2 DEF SdpFields
  <2>4. reading' \in {"parse", "cut"}
    BY <2>1 DEF Read
  <2> QED BY <1>1, <2>1, <2>2, <2>3, <2>4, GoodLine
<1>3. CASE SessionList(l)
  <2>1. /\ l.t \in SessionLists /\ l.ok /\ Read(l) /\ reading' = reading
        /\ sdp' = [sdp EXCEPT ![l.t] = PutLast(sdp[l.t], l)]
    BY <1>3 DEF SessionList
  <2>2. l.t \in SdpFields /\ l.t \notin {"m", "u", "o", "c"} /\ l.t \in Types
    BY <2>1 DEF SessionLists, SdpFields, Types
  <2>3. /\ DOMAIN sdp' = SdpFields /\ sdp'.m = sdp.m
        /\ sdp'.u = sdp.u /\ sdp'.o = sdp.o /\ sdp'.c = sdp.c
    BY <1>1, <2>1, <2>2 DEF SdpFields
  <2>4. reading' \in {"parse", "cut"}
    BY <2>1 DEF Read
  <2>5. sdp'.o # NULL \/ (l.t # "o" /\ sdp'.o = sdp.o)
    BY <2>2, <2>3
  <2>6. sdp'.c = sdp.c /\ (l.t = "c" => sdp.m.count # 0)
    BY <2>2, <2>3
  <2>7. /\ DOMAIN sdp'.m = ListFields /\ sdp'.m.count \in Nat
        /\ sdp'.m.count = sdp.m.count
    BY <1>1, <2>3
  <2> QED BY <2>1, <2>2, <2>3, <2>4, <2>5, <2>6, <2>7, GoodLine
<1>4. CASE MediaField(l) \/ MediaList(l)
  <2>1. PICK x : sdp' = [sdp EXCEPT !.m = SetLast(sdp.m, x)]
    BY <1>4 DEF MediaField, MediaList
  <2>2. /\ l.t \in MediaFields \cup MediaLists /\ ~ToSession(l.t) /\ l.ok /\ Read(l)
        /\ reading' = reading
    BY <1>4 DEF MediaField, MediaList
  <2>3. l.t \notin {"m", "u", "o"} /\ l.t \in Types
    BY <2>2 DEF MediaFields, MediaLists, Types, SessionFields, SessionLists
  <2>4. sdp.m.count # 0
    BY <2>2 DEF ToSession
  <2>5. /\ DOMAIN sdp' = SdpFields /\ sdp'.m = SetLast(sdp.m, x)
        /\ sdp'.u = sdp.u /\ sdp'.o = sdp.o /\ sdp'.c = sdp.c
    BY <1>1, <2>1 DEF SdpFields
  <2>6. /\ DOMAIN sdp'.m = ListFields /\ sdp'.m.count = sdp.m.count
    BY <1>1, <2>5, ListShape
  <2>7. reading' \in {"parse", "cut"}
    BY <2>2 DEF Read
  <2>8. sdp'.o # NULL \/ (l.t # "o" /\ sdp'.o = sdp.o)
    BY <2>3, <2>5
  <2> QED BY <1>1, <2>2, <2>3, <2>4, <2>5, <2>6, <2>7, <2>8, GoodLine
<1>5. CASE Media(l)
  <2>1. /\ l.t = "m" /\ l.ok /\ Read(l)
        /\ sdp' = [sdp EXCEPT !.m = PutLast(sdp.m, NewMedia(l))]
        /\ reading' \in {"parse", "cut"}
    BY <1>5 DEF Media
  <2>2. l.t \in Types
    BY <2>1 DEF Types
  <2>3. /\ DOMAIN sdp' = SdpFields /\ sdp'.m = PutLast(sdp.m, NewMedia(l))
        /\ sdp'.u = sdp.u /\ sdp'.o = sdp.o /\ sdp'.c = sdp.c
    BY <1>1, <2>1 DEF SdpFields
  <2>4. DOMAIN sdp'.m = ListFields /\ sdp'.m.count = sdp.m.count + 1
    BY <1>1, <2>3, ListShape
  <2>5. sdp'.m.count \in Nat
    BY <1>1, <2>4
  <2> QED BY <1>1, <2>1, <2>2, <2>3, <2>4, <2>5, GoodLine
<1> QED BY <1>2, <1>3, <1>4, <1>5

\* A line that ends the process is one that no good offer has.
LEMMA BadLinesKeep ==
  ASSUME OfferInv, NEW l \in Lines, Abort(l) \/ Refused(l)
  PROVE  OfferInv'
<1>1. Read(l) /\ sdp' = sdp /\ reading' \in {"aborted", "crashed"}
  BY DEF Abort, Refused
<1>2. PICK L \in Nat : /\ L = Len(text) /\ Len(text') = L + 1 /\ text'[L + 1] = l
                       /\ \A i \in 1 .. L : text'[i] = text[i]
  BY <1>1, ReadLine
<1>3. reading = "parse" /\ text' \in Seq(Lines)
  BY <1>1, ReadLine
<1>4. L + 1 \in 1 .. L + 1 /\ \A i \in 1 .. L : i \in 1 .. L + 1 /\ i # L + 1
  OBVIOUS
<1>5. \/ \E i \in 1 .. L + 1 : ~text'[i].ok \/ text'[i].t \notin GbTypes
      \/ \E i, j \in 1 .. L + 1 : i # j /\ text'[i].t = "u" /\ text'[j].t = "u"
  <2>1. CASE ~l.ok \/ l.t \notin Types
    <3>1. GbTypes \subseteq Types
      BY DEF GbTypes, Types, SessionFields, SessionLists
    <3> QED BY <1>2, <1>4, <2>1, <3>1
  <2>2. CASE l.t = "u" /\ sdp.u # NULL
    <3>1. PICK i \in 1 .. L : text[i].t = "u"
      BY <1>2, <1>3, <2>2 DEF OfferInv, Remembered
    <3> QED BY <1>2, <1>4, <2>2, <3>1
  <2> QED BY <2>1, <2>2 DEF Abort, Refused
<1>6. GoodOfferAnswered'
  BY <1>2, <1>5 DEF GoodOfferAnswered
<1>7. OfferShape' /\ Remembered'
  BY <1>1, <1>3 DEF OfferInv, OfferShape, Remembered
<1> QED BY <1>6, <1>7 DEF OfferInv

\* Without an o= line, or a c= line before the media, the offer is not good.
LEMMA ExtractKeeps == ASSUME OfferInv, Extract PROVE OfferInv'
<1>1. /\ reading \in {"parse", "cut"} /\ text' = text /\ sdp' = sdp
      /\ \/ reading' = "crashed" /\ (sdp.o = NULL \/ sdp.c = NULL)
         \/ reading' = "read"
  BY DEF Extract
<1>2. OfferShape' /\ Remembered'
  BY <1>1 DEF OfferInv, OfferShape, Remembered
<1>3. Len(text) \in Nat
  BY DEF OfferInv, OfferShape
<1>4. sdp.o = NULL => Of(1 .. Len(text), "o") = {}
  BY <1>1 DEF OfferInv, Remembered, Of
<1>5. sdp.c = NULL => Of(Section(0), "c") = {}
  <2> SUFFICES ASSUME sdp.c = NULL, NEW j \in Of(Section(0), "c") PROVE FALSE
    OBVIOUS
  <2>1. /\ j \in 1 .. Len(text) /\ text[j].t = "c"
        /\ \A x \in MediaAt : x <= 0 \/ j < x
    BY DEF Of, Section
  <2>2. \A x \in 1 .. j : x \in 1 .. Len(text) /\ ~(x <= 0) /\ ~(j < x)
    BY <1>3, <2>1
  <2>3. \A x \in 1 .. j : text[x].t # "m"
    BY <2>1, <2>2 DEF MediaAt
  <2> QED BY <1>1, <2>1, <2>3 DEF OfferInv, Remembered
<1>6. reading' = "crashed" => Of(1 .. Len(text), "o") = {} \/ Of(Section(0), "c") = {}
  BY <1>1, <1>4, <1>5
<1>7. Of(1 .. Len(text), "o")' = Of(1 .. Len(text), "o")
      /\ Of(Section(0), "c")' = Of(Section(0), "c")
  BY <1>1 DEF Of, Section, MediaAt
<1>8. GoodOfferAnswered'
  BY <1>1, <1>6, <1>7 DEF GoodOfferAnswered
<1> QED BY <1>2, <1>8 DEF OfferInv

LEMMA OfferStep == OfferInv /\ [OfferNext]_offerAll => OfferInv'
<1> SUFFICES ASSUME OfferInv, [OfferNext]_offerAll PROVE OfferInv'
  OBVIOUS
<1>1. CASE UNCHANGED offerAll
  BY <1>1 DEF OfferInv, OfferShape, Remembered, GoodOfferAnswered, Of, Section, MediaAt,
              offerAll
<1>2. CASE OfferNext
  BY <1>2, GoodLinesKeep, BadLinesKeep, ExtractKeeps DEF OfferNext
<1> QED BY <1>1, <1>2

\* An offer with the lines the server needs, and only lines the parser knows,
\* does not end the process, however long it is and however many lines the
\* lists of the parser have room for (sdp.c:1365, sip.c:242).
THEOREM OfferAnswered == OfferSpec => []GoodOfferAnswered
<1>1. OfferInv => GoodOfferAnswered
  BY DEF OfferInv
<1> QED BY <1>1, OfferStarts, OfferStep, PTL DEF OfferSpec

\* A list of the parser with entries from V: as many as there is room for in
\* the structure come first, the heap has no others than those that follow.
ListOf(V) ==
  {l \in [count : Nat, own : Seq(V), ptr : Seq(V \cup {NULL}), capacity : Nat] :
     /\ Len(l.own) = IF l.count <= NInline THEN l.count ELSE NInline
     /\ Len(l.ptr) = l.capacity /\ l.count <= NInline + l.capacity
     /\ l.capacity > 0 => l.count > NInline
     /\ \A i \in 1 .. l.count - NInline : l.ptr[i] \in V}

LEMMA EmptyIsList == ASSUME NEW V PROVE EmptyList \in ListOf(V)
<1>1. NInline \in Nat
  BY OfferAssumption
<1>2. EmptyList \in [count : Nat, own : Seq(V), ptr : Seq(V \cup {NULL}), capacity : Nat]
  BY DEF EmptyList
<1> QED BY <1>1, <1>2 DEF EmptyList, ListOf

LEMMA ListEntries ==
  ASSUME NEW V, NEW l \in ListOf(V), NEW i \in 1 .. l.count
  PROVE  Entry(l, i) \in V
<1>1. NInline \in Nat \ {0} /\ l.count \in Nat /\ l.own \in Seq(V)
  BY OfferAssumption DEF ListOf
<1>2. CASE i <= NInline
  <2>1. i \in 1 .. Len(l.own)
    BY <1>1, <1>2 DEF ListOf
  <2> QED BY <1>1, <1>2, <2>1 DEF Entry
<1>3. CASE ~(i <= NInline)
  <2>1. i - NInline \in 1 .. l.count - NInline
    BY <1>1, <1>3
  <2> QED BY <1>3, <2>1 DEF Entry, ListOf
<1> QED BY <1>2, <1>3

\* A new entry comes after the others, which stay where they are.
LEMMA ListPut ==
  ASSUME NEW V, NEW l \in ListOf(V), NEW x \in V
  PROVE  /\ PutLast(l, x) \in ListOf(V) /\ PutLast(l, x).count = l.count + 1
         /\ \A i \in 1 .. l.count : Entry(PutLast(l, x), i) = Entry(l, i)
         /\ Entry(PutLast(l, x), l.count + 1) = x
<1> DEFINE p == PutLast(l, x)
           k == Capacity1(l)
<1>1. /\ NInline \in Nat \ {0} /\ Grow \in Nat \ {0} /\ l.count \in Nat /\ l.capacity \in Nat
      /\ l.own \in Seq(V) /\ l.ptr \in Seq(V \cup {NULL}) /\ Len(l.ptr) = l.capacity
      /\ Len(l.own) = IF l.count <= NInline THEN l.count ELSE NInline
      /\ l.count <= NInline + l.capacity /\ (l.capacity > 0 => l.count > NInline)
      /\ \A i \in 1 .. l.count - NInline : l.ptr[i] \in V
      /\ l = [count |-> l.count, own |-> l.own, ptr |-> l.ptr, capacity |-> l.capacity]
  BY OfferAssumption DEF ListOf
<1>2. CASE l.count >= NInline
  <2>1. k \in Nat /\ k >= l.capacity /\ l.count + 1 <= NInline + k /\ k > 0
    BY <1>1, <1>2 DEF Capacity1, Full
  <2> DEFINE h == [i \in 1 .. k |-> IF i = l.count - NInline + 1 THEN x
                                   ELSE IF i \in DOMAIN l.ptr THEN l.ptr[i] ELSE NULL]
  <2>2. p = [count |-> l.count + 1, own |-> l.own, ptr |-> h, capacity |-> k]
    BY <1>1, <1>2 DEF PutLast
  <2>3. DOMAIN l.ptr = 1 .. l.capacity /\ \A i \in 1 .. l.capacity : l.ptr[i] \in V \cup {NULL}
    BY <1>1
  <2>4. h \in Seq(V \cup {NULL}) /\ Len(h) = k
    BY <2>1, <2>3
  <2>5. ASSUME NEW i \in 1 .. l.count - NInline PROVE h[i] = l.ptr[i]
    <3>1. i \in 1 .. k /\ i \in 1 .. l.capacity /\ i # l.count - NInline + 1
      BY <1>1, <2>1
    <3> QED BY <3>1, <2>3
  <2>6. l.count - NInline + 1 \in 1 .. k /\ h[l.count - NInline + 1] = x
    BY <1>1, <1>2, <2>1
  <2> HIDE DEF h
  <2>7. ASSUME NEW i \in 1 .. l.count + 1 - NInline PROVE h[i] \in V
    <3>1. i \in 1 .. l.count - NInline \/ i = l.count - NInline + 1
      BY <1>1
    <3> QED BY <3>1, <1>1, <2>5, <2>6
  <2>8. p \in ListOf(V)
    <3>1. Len(l.own) = NInline
      BY <1>1, <1>2
    <3> QED BY <1>1, <1>2, <2>1, <2>2, <2>4, <2>7, <3>1 DEF ListOf
  <2>9. ASSUME NEW i \in 1 .. l.count PROVE Entry(p, i) = Entry(l, i)
    <3>1. CASE i <= NInline
      BY <2>2, <3>1 DEF Entry
    <3>2. CASE ~(i <= NInline)
      <4>1. i - NInline \in 1 .. l.count - NInline
        BY <1>1, <3>2
      <4> QED BY <2>2, <2>5, <3>2, <4>1 DEF Entry
    <3> QED BY <3>1, <3>2
  <2>10. Entry(p, l.count + 1) = x
    <3>1. ~(l.count + 1 <= NInline) /\ l.count + 1 - NInline = l.count - NInline + 1
      BY <1>1, <1>2
    <3>2. p.ptr = h
      BY <2>2
    <3> HIDE DEF p
    <3>3. Entry(p, l.count + 1) = h[l.count + 1 - NInline]
      BY <1>1, <3>1, <3>2 DEF Entry
    <3> QED BY <2>6, <3>1, <3>3
  <2> HIDE DEF p
  <2> QED BY <2>2, <2>8, <2>9, <2>10 DEF p
<1>3. CASE ~(l.count >= NInline)
  <2>1. p = [count |-> l.count + 1, own |-> Append(l.own, x), ptr |-> l.ptr,
             capacity |-> l.capacity]
    BY <1>1, <1>3 DEF PutLast
  <2>2. Len(l.own) = l.count
    BY <1>1, <1>3
  <2>3. /\ Append(l.own, x) \in Seq(V) /\ Len(Append(l.own, x)) = l.count + 1
        /\ \A i \in 1 .. l.count : Append(l.own, x)[i] = l.own[i]
        /\ Append(l.own, x)[l.count + 1] = x
    BY <1>1, <2>2
  <2>4. p \in ListOf(V)
    <3>1. l.count + 1 <= NInline /\ l.capacity = 0 /\ l.count + 1 <= NInline + l.capacity
      BY <1>1, <1>3
    <3>2. \A i \in 1 .. l.count + 1 - NInline : FALSE
      BY <1>1, <1>3
    <3> QED BY <1>1, <2>1, <2>3, <3>1, <3>2, SMTT(30) DEF ListOf
  <2>5. \A i \in 1 .. l.count + 1 : i <= NInline
    BY <1>1, <1>3
  <2>6. \A i \in 1 .. l.count + 1 : Entry(p, i) = Append(l.own, x)[i]
    <3>1. p.own = Append(l.own, x)
      BY <2>1
    <3> HIDE DEF p
    <3> QED BY <2>5, <3>1 DEF Entry
  <2>7. \A i \in 1 .. l.count : i \in 1 .. l.count + 1 /\ Entry(l, i) = l.own[i]
    BY <1>1, <2>5 DEF Entry
  <2>8. l.count + 1 \in 1 .. l.count + 1 /\ p.count = l.count + 1
    BY <1>1, <2>1
  <2> HIDE DEF p
  <2> QED BY <2>3, <2>4, <2>6, <2>7, <2>8 DEF p
<1> QED BY <1>2, <1>3

\* Only the last entry changes.
LEMMA ListSet ==
  ASSUME NEW V, NEW l \in ListOf(V), NEW x \in V, l.count # 0
  PROVE  /\ SetLast(l, x) \in ListOf(V) /\ SetLast(l, x).count = l.count
         /\ \A i \in 1 .. l.count - 1 : Entry(SetLast(l, x), i) = Entry(l, i)
         /\ Entry(SetLast(l, x), l.count) = x
<1> DEFINE p == SetLast(l, x)
<1>1. /\ NInline \in Nat \ {0} /\ l.count \in Nat \ {0} /\ l.capacity \in Nat
      /\ l.own \in Seq(V) /\ l.ptr \in Seq(V \cup {NULL}) /\ Len(l.ptr) = l.capacity
      /\ Len(l.own) = IF l.count <= NInline THEN l.count ELSE NInline
      /\ l.count <= NInline + l.capacity /\ (l.capacity > 0 => l.count > NInline)
      /\ \A i \in 1 .. l.count - NInline : l.ptr[i] \in V
      /\ l = [count |-> l.count, own |-> l.own, ptr |-> l.ptr, capacity |-> l.capacity]
  BY OfferAssumption DEF ListOf
<1>2. CASE l.count <= NInline
  <2> DEFINE o == [l.own EXCEPT ![l.count] = x]
  <2>1. p = [count |-> l.count, own |-> o, ptr |-> l.ptr, capacity |-> l.capacity]
    BY <1>1, <1>2 DEF SetLast
  <2>2. Len(l.own) = l.count /\ l.count \in 1 .. l.count
    BY <1>1, <1>2
  <2>3. /\ o \in Seq(V) /\ Len(o) = l.count /\ o[l.count] = x
        /\ \A i \in 1 .. l.count - 1 : o[i] = l.own[i]
    BY <1>1, <2>2
  <2> HIDE DEF o
  <2>4. p \in ListOf(V)
    BY <1>1, <1>2, <2>1, <2>3 DEF ListOf
  <2>5. \A i \in 1 .. l.count : i <= NInline
    BY <1>1, <1>2
  <2>6. \A i \in 1 .. l.count : Entry(p, i) = o[i] /\ Entry(l, i) = l.own[i]
    BY <2>1, <2>5 DEF Entry
  <2>7. p.count = l.count /\ \A i \in 1 .. l.count - 1 : i \in 1 .. l.count
    BY <1>1, <2>1
  <2> HIDE DEF p
  <2> QED BY <2>2, <2>3, <2>4, <2>6, <2>7 DEF p
<1>3. CASE ~(l.count <= NInline)
  <2> DEFINE h == [l.ptr EXCEPT ![l.count - NInline] = x]
  <2>1. p = [count |-> l.count, own |-> l.own, ptr |-> h, capacity |-> l.capacity]
    BY <1>1, <1>3 DEF SetLast
  <2>2. l.count - NInline \in 1 .. l.capacity
    BY <1>1, <1>3
  <2>3. /\ h \in Seq(V \cup {NULL}) /\ Len(h) = l.capacity /\ h[l.count - NInline] = x
        /\ \A i \in 1 .. l.capacity : i # l.count - NInline => h[i] = l.ptr[i]
    BY <1>1, <2>2
  <2> HIDE DEF h
  <2>4. ASSUME NEW i \in 1 .. l.count - NInline PROVE h[i] \in V
    <3>1. i \in 1 .. l.capacity
      BY <1>1
    <3> QED BY <1>1, <2>3, <3>1
  <2>5. p \in ListOf(V)
    BY <1>1, <1>3, <2>1, <2>3, <2>4 DEF ListOf
  <2>6. ASSUME NEW i \in 1 .. l.count - 1 PROVE Entry(p, i) = Entry(l, i)
    <3>1. CASE i <= NInline
      BY <2>1, <3>1 DEF Entry
    <3>2. CASE ~(i <= NInline)
      <4>1. i - NInline \in 1 .. l.capacity /\ i - NInline # l.count - NInline
        BY <1>1, <3>2
      <4> QED BY <2>1, <2>3, <3>2, <4>1 DEF Entry
    <3> QED BY <3>1, <3>2
  <2>7. Entry(p, l.count) = x /\ p.count = l.count
    BY <2>1, <2>3, <1>3 DEF Entry
  <2> HIDE DEF p
  <2> QED BY <2>5, <2>6, <2>7 DEF p
<1> QED BY <1>2, <1>3

\* The sections of an offer x, and where a further line l belongs.
MediaIn(x) == {i \in 1 .. Len(x) : x[i].t = "m"}
SectionIn(x, i) == {j \in i + 1 .. Len(x) : \A k \in MediaIn(x) : k <= i \/ j < k}
LinesIn(x, S, t) == {i \in S : x[i].t = t}
Current(x) == IF MediaIn(x) = {} THEN 0 ELSE LastOf(MediaIn(x))

LEMMA SectionType ==
  ASSUME NEW x \in Seq(Lines)
  PROVE  /\ Len(x) \in Nat /\ MediaIn(x) \in SUBSET (1 .. Len(x))
         /\ \A i \in 0 .. Len(x) : SectionIn(x, i) \in SUBSET (1 .. Len(x))
         /\ Current(x) \in MediaIn(x) \cup {0} /\ MediaIn(x) \cup {0} \subseteq 0 .. Len(x)
<1>1. Len(x) \in Nat
  OBVIOUS
<1>2. MediaIn(x) \in SUBSET (1 .. Len(x))
  BY DEF MediaIn
<1>3. \A i \in 0 .. Len(x) : i + 1 .. Len(x) \subseteq 1 .. Len(x)
  BY <1>1
<1>4. \A i \in 0 .. Len(x) : SectionIn(x, i) \in SUBSET (1 .. Len(x))
  BY <1>3 DEF SectionIn
<1>5. Current(x) \in MediaIn(x) \cup {0}
  BY <1>1, <1>2, LastPlace DEF Current
<1>6. MediaIn(x) \cup {0} \subseteq 0 .. Len(x)
  BY <1>1, <1>2
<1> QED BY <1>1, <1>2, <1>4, <1>5, <1>6

\* A line that is no m= line goes to the current section; a m= line begins one.
LEMMA LineAdded ==
  ASSUME NEW x \in Seq(Lines), NEW l \in Lines
  PROVE  LET y == Append(x, l)
             n == Len(x) + 1
         IN  /\ y \in Seq(Lines) /\ Len(y) = n /\ y[n] = l
             /\ \A i \in 1 .. Len(x) : y[i] = x[i]
             /\ MediaIn(y) = IF l.t = "m" THEN MediaIn(x) \cup {n} ELSE MediaIn(x)
             /\ \A i \in MediaIn(x) \cup {0} :
                  SectionIn(y, i) = IF l.t # "m" /\ i = Current(x)
                                    THEN SectionIn(x, i) \cup {n} ELSE SectionIn(x, i)
             /\ SectionIn(y, n) = {}
<1> DEFINE y == Append(x, l)
           n == Len(x) + 1
<1>1. /\ y \in Seq(Lines) /\ Len(y) = n /\ y[n] = l /\ Len(x) \in Nat
      /\ \A i \in 1 .. Len(x) : y[i] = x[i]
  OBVIOUS
<1>2. \A i \in 1 .. n : i \in 1 .. Len(x) \/ i = n
  BY <1>1
<1>3. n \in 1 .. n /\ n \notin 1 .. Len(x) /\ 1 .. Len(x) \subseteq 1 .. n
  BY <1>1
<1> HIDE DEF y, n
<1>4. MediaIn(y) = IF l.t = "m" THEN MediaIn(x) \cup {n} ELSE MediaIn(x)
  BY <1>1, <1>2, <1>3 DEF MediaIn
<1>5. MediaIn(x) \in SUBSET (1 .. Len(x))
  BY SectionType
<1>6. \A k \in MediaIn(x) : k \in Nat /\ k < n
  BY <1>1, <1>5 DEF n
<1>7. \A i \in MediaIn(x) \cup {0} : i + 1 .. n = (i + 1 .. Len(x)) \cup {n} /\ i < n
  BY <1>1, <1>5 DEF n
<1>8. ASSUME NEW i \in MediaIn(x) \cup {0}
      PROVE  SectionIn(y, i) = IF l.t # "m" /\ i = Current(x)
                               THEN SectionIn(x, i) \cup {n} ELSE SectionIn(x, i)
  <2> DEFINE In(z, j) == \A k \in MediaIn(z) : k <= i \/ j < k
  <2>1. ASSUME NEW j \in i + 1 .. Len(x) PROVE In(y, j) <=> In(x, j)
    <3>1. j < n
      BY <1>1, <1>6, <1>7 DEF n
    <3> QED BY <1>4, <3>1
  <2>2. In(y, n) <=> l.t # "m" /\ i = Current(x)
    <3>1. CASE l.t = "m"
      <4>1. n \in MediaIn(y) /\ ~(n <= i) /\ ~(n < n)
        BY <1>1, <1>4, <1>6, <1>7, <3>1 DEF n
      <4> QED BY <4>1, <3>1
    <3>2. CASE l.t # "m"
      <4>1. In(y, n) <=> \A k \in MediaIn(x) : k <= i
        <5>1. \A k \in MediaIn(x) : ~(n < k)
          BY <1>1, <1>6 DEF n
        <5> QED BY <1>4, <3>2, <5>1
      <4>2. (\A k \in MediaIn(x) : k <= i) <=> i = Current(x)
        <5>1. CASE MediaIn(x) = {}
          BY <5>1 DEF Current
        <5>2. CASE MediaIn(x) # {}
          <6>1. PICK c \in MediaIn(x) : c = Current(x) /\ \A k \in MediaIn(x) : k <= c
            BY <1>1, <1>5, <5>2, LastPlace DEF Current
          <6>2. ASSUME \A k \in MediaIn(x) : k <= i PROVE i = c
            <7>1. c <= i /\ c \in 1 .. Len(x)
              BY <6>1, <6>2, <1>5
            <7>2. i \in MediaIn(x)
              BY <7>1, <1>1
            <7> QED BY <6>1, <7>1, <7>2, <1>6
          <6> QED BY <6>1, <6>2
        <5> QED BY <5>1, <5>2
      <4> QED BY <4>1, <4>2, <3>2
    <3> QED BY <3>1, <3>2
  <2>3. SectionIn(x, i) = {j \in i + 1 .. Len(x) : In(x, j)}
    BY DEF SectionIn
  <2>4. SectionIn(y, i) = {j \in (i + 1 .. Len(x)) \cup {n} : In(y, j)}
    BY <1>1, <1>7 DEF SectionIn
  <2> HIDE DEF In
  <2> QED BY <2>1, <2>2, <2>3, <2>4
<1>9. SectionIn(y, n) = {}
  <2>1. \A j \in n + 1 .. n : FALSE
    BY <1>1 DEF n
  <2> QED BY <2>1, <1>1 DEF SectionIn
<1> QED BY <1>1, <1>4, <1>8, <1>9 DEF y, n

\* the list has the lines of S
HoldsIn(x, l, S) ==
  /\ l.count = Cardinality(S)
  /\ \A i \in S : Entry(l, Place(S, i)) = x[i]

LEMMA HoldsSame ==
  ASSUME NEW x \in Seq(Lines), NEW e \in Lines, NEW S \in SUBSET (1 .. Len(x)), NEW l,
         HoldsIn(x, l, S)
  PROVE  HoldsIn(Append(x, e), l, S)
<1>1. \A i \in S : Append(x, e)[i] = x[i]
  OBVIOUS
<1> QED BY <1>1 DEF HoldsIn

LEMMA HoldsMore ==
  ASSUME NEW x \in Seq(Lines), NEW e \in Lines, NEW S \in SUBSET (1 .. Len(x)),
         NEW l \in ListOf(Lines), HoldsIn(x, l, S)
  PROVE  HoldsIn(Append(x, e), PutLast(l, e), S \cup {Len(x) + 1})
<1> DEFINE n == Len(x) + 1
           p == PutLast(l, e)
<1>1. n - 1 \in Nat /\ n = (n - 1) + 1 /\ S \in SUBSET (1 .. n - 1)
  OBVIOUS
<1>2. /\ Cardinality(S \cup {n}) = Cardinality(S) + 1
      /\ \A i \in S : Place(S \cup {n}, i) = Place(S, i)
      /\ Place(S \cup {n}, n) = Cardinality(S) + 1
  <2> HIDE DEF n
  <2> QED BY <1>1, PlaceAdded
<1>3. /\ p.count = l.count + 1 /\ Entry(p, l.count + 1) = e
      /\ \A i \in 1 .. l.count : Entry(p, i) = Entry(l, i)
  BY ListPut
<1>4. Append(x, e)[n] = e /\ \A i \in S : Append(x, e)[i] = x[i]
  OBVIOUS
<1>5. l.count = Cardinality(S) /\ \A i \in S : Entry(l, Place(S, i)) = x[i]
  BY DEF HoldsIn
<1>6. \A i \in S : Place(S, i) \in 1 .. l.count
  BY <1>1, <1>5, PlaceFacts
<1> HIDE DEF n, p
<1>7. \A i \in S \cup {n} : Entry(p, Place(S \cup {n}, i)) = Append(x, e)[i]
  BY <1>2, <1>3, <1>4, <1>5, <1>6
<1> QED BY <1>2, <1>3, <1>5, <1>7 DEF HoldsIn, n, p

\* A media description and the structure as a whole.
Field == Lines \cup {NULL}
MediaRec ==
  [line : Lines, i : Field, k : Field,
   c : ListOf(Lines), b : ListOf(Lines), a : ListOf(Lines)]
SdpRec ==
  [v : Field, o : Field, s : Field, i : Field, u : Field, c : Field, k : Field, y : Field,
   e : ListOf(Lines), p : ListOf(Lines), b : ListOf(Lines), t : ListOf(Lines),
   a : ListOf(Lines), m : ListOf(MediaRec)]

\* What LinesKept says, of an offer x and a structure or a list of media.
PlaceOfList(x, f) == IF f \in MediaLists THEN SectionIn(x, 0) ELSE 1 .. Len(x)
SessionKept(x, s) ==
  \A f \in SessionLists : HoldsIn(x, s[f], LinesIn(x, PlaceOfList(x, f), f))
DescribedIn(x, i, m) ==
  m.line = x[i] /\ \A f \in MediaLists : HoldsIn(x, m[f], LinesIn(x, SectionIn(x, i), f))
MediaKept(x, l) ==
  /\ l.count = Cardinality(MediaIn(x))
  /\ \A i \in MediaIn(x) : DescribedIn(x, i, Entry(l, Place(MediaIn(x), i)))

LEMMA KeptMeans ==
  SessionKept(text, sdp) /\ MediaKept(text, sdp.m) =>
    /\ \A f \in SessionLists :
         HoldsLines(sdp[f], Of(IF f \in MediaLists THEN Section(0) ELSE 1 .. Len(text), f))
    /\ sdp.m.count = Cardinality(MediaAt)
    /\ \A i \in MediaAt :
         LET m == Entry(sdp.m, Place(MediaAt, i))
         IN  /\ m.line = text[i]
             /\ \A f \in MediaLists : HoldsLines(m[f], Of(Section(i), f))
<1>1. MediaAt = MediaIn(text)
  BY DEF MediaAt, MediaIn
<1>2. \A i : Section(i) = SectionIn(text, i)
  BY <1>1 DEF Section, SectionIn
<1>3. \A S, t : Of(S, t) = LinesIn(text, S, t)
  BY DEF Of, LinesIn
<1>4. \A l, S : HoldsIn(text, l, S) => HoldsLines(l, S)
  BY DEF HoldsIn, HoldsLines
<1> SUFFICES ASSUME SessionKept(text, sdp), MediaKept(text, sdp.m)
             PROVE  /\ \A f \in SessionLists :
                         HoldsLines(sdp[f], Of(IF f \in MediaLists THEN Section(0)
                                               ELSE 1 .. Len(text), f))
                    /\ \A i \in MediaAt : \A f \in MediaLists :
                         HoldsLines(Entry(sdp.m, Place(MediaAt, i))[f], Of(Section(i), f))
  BY <1>1 DEF MediaKept, DescribedIn
<1>5. ASSUME NEW f \in SessionLists
      PROVE  HoldsLines(sdp[f], Of(IF f \in MediaLists THEN Section(0)
                                   ELSE 1 .. Len(text), f))
  <2>1. HoldsIn(text, sdp[f], LinesIn(text, PlaceOfList(text, f), f))
    BY DEF SessionKept
  <2>2. PlaceOfList(text, f) = IF f \in MediaLists THEN Section(0) ELSE 1 .. Len(text)
    BY <1>2 DEF PlaceOfList
  <2> QED BY <1>3, <1>4, <2>1, <2>2
<1>6. ASSUME NEW i \in MediaAt, NEW f \in MediaLists
      PROVE  HoldsLines(Entry(sdp.m, Place(MediaAt, i))[f], Of(Section(i), f))
  <2>1. HoldsIn(text, Entry(sdp.m, Place(MediaAt, i))[f], LinesIn(text, SectionIn(text, i), f))
    BY <1>1 DEF MediaKept, DescribedIn
  <2> QED BY <1>2, <1>3, <1>4, <2>1
<1> QED BY <1>5, <1>6

\* A line that belongs to no list of the session changes none.
LEMMA SessionSame ==
  ASSUME NEW x \in Seq(Lines), NEW l \in Lines, NEW s, SessionKept(x, s),
         l.t \notin SessionLists \/ (l.t \in MediaLists /\ MediaIn(x) # {})
  PROVE  SessionKept(Append(x, l), s)
<1> SUFFICES ASSUME NEW f \in SessionLists
             PROVE  HoldsIn(Append(x, l), s[f],
                            LinesIn(Append(x, l), PlaceOfList(Append(x, l), f), f))
  BY DEF SessionKept
<1> DEFINE y == Append(x, l)
           n == Len(x) + 1
           S == PlaceOfList(x, f)
<1>1. S \in SUBSET (1 .. Len(x))
  BY SectionType DEF PlaceOfList
<1>2. PlaceOfList(y, f) = S \/ (PlaceOfList(y, f) = S \cup {n} /\ l.t # f)
  <2>1. CASE f \in MediaLists
    <3>1. SectionIn(y, 0) = IF l.t # "m" /\ 0 = Current(x)
                            THEN SectionIn(x, 0) \cup {n} ELSE SectionIn(x, 0)
      BY LineAdded
    <3>2. l.t = f => 0 # Current(x)
      <4> SUFFICES ASSUME l.t = f PROVE 0 # Current(x)
        OBVIOUS
      <4>1. MediaIn(x) # {} /\ MediaIn(x) \in SUBSET (1 .. Len(x)) /\ Len(x) \in Nat
        BY SectionType
      <4>2. LastOf(MediaIn(x)) \in 1 .. Len(x)
        BY <4>1, LastPlace
      <4> QED BY <4>1, <4>2 DEF Current
    <3> QED BY <2>1, <3>1, <3>2 DEF PlaceOfList
  <2>2. CASE f \notin MediaLists
    <3>1. 1 .. n = (1 .. Len(x)) \cup {n} /\ Len(y) = n
      OBVIOUS
    <3>2. l.t # f
      BY <2>2
    <3> HIDE DEF y, n
    <3> QED BY <2>2, <3>1, <3>2 DEF PlaceOfList
  <2> QED BY <2>1, <2>2
<1>3. /\ LinesIn(x, S, f) \in SUBSET (1 .. Len(x))
      /\ LinesIn(y, S, f) = LinesIn(x, S, f)
      /\ l.t # f => LinesIn(y, S \cup {n}, f) = LinesIn(x, S, f)
  <2>1. y[n] = l /\ \A i \in 1 .. Len(x) : y[i] = x[i]
    BY LineAdded
  <2> HIDE DEF y, n, S
  <2> QED BY <1>1, <2>1 DEF LinesIn
<1>4. LinesIn(y, PlaceOfList(y, f), f) = LinesIn(x, S, f)
  <2> HIDE DEF y, n, S
  <2> QED BY <1>2, <1>3
<1>5. HoldsIn(x, s[f], LinesIn(x, S, f))
  BY DEF SessionKept
<1>6. HoldsIn(y, s[f], LinesIn(x, S, f))
  BY <1>3, <1>5, HoldsSame
<1> QED BY <1>4, <1>6

\* A line of a list of the session is appended to it.
LEMMA SessionMore ==
  ASSUME NEW x \in Seq(Lines), NEW l \in Lines, NEW s \in SdpRec, SessionKept(x, s),
         l.t \in SessionLists, l.t \in MediaLists => MediaIn(x) = {}
  PROVE  SessionKept(Append(x, l), [s EXCEPT ![l.t] = PutLast(s[l.t], l)])
<1> DEFINE y == Append(x, l)
           n == Len(x) + 1
           z == [s EXCEPT ![l.t] = PutLast(s[l.t], l)]
<1> SUFFICES ASSUME NEW f \in SessionLists
             PROVE  HoldsIn(y, z[f], LinesIn(y, PlaceOfList(y, f), f))
  BY DEF SessionKept
<1> DEFINE S == PlaceOfList(x, f)
<1>1. S \in SUBSET (1 .. Len(x))
  BY SectionType DEF PlaceOfList
<1>2. PlaceOfList(y, f) = S \cup {n} \/ (PlaceOfList(y, f) = S /\ l.t # f)
  <2>1. CASE f \in MediaLists
    <3>1. SectionIn(y, 0) = IF l.t # "m" /\ 0 = Current(x)
                            THEN SectionIn(x, 0) \cup {n} ELSE SectionIn(x, 0)
      BY LineAdded
    <3>2. l.t = f => 0 = Current(x) /\ l.t # "m"
      BY <2>1 DEF Current, SessionLists
    <3> QED BY <2>1, <3>1, <3>2 DEF PlaceOfList
  <2>2. CASE f \notin MediaLists
    <3>1. 1 .. n = (1 .. Len(x)) \cup {n} /\ Len(y) = n
      OBVIOUS
    <3> HIDE DEF y, n
    <3> QED BY <2>2, <3>1 DEF PlaceOfList
  <2> QED BY <2>1, <2>2
<1>3. /\ LinesIn(x, S, f) \in SUBSET (1 .. Len(x))
      /\ LinesIn(y, S, f) = LinesIn(x, S, f)
      /\ LinesIn(y, S \cup {n}, f) =
           IF l.t = f THEN LinesIn(x, S, f) \cup {n} ELSE LinesIn(x, S, f)
  <2>1. y[n] = l /\ \A i \in 1 .. Len(x) : y[i] = x[i]
    BY LineAdded
  <2> HIDE DEF y, n, S
  <2> QED BY <1>1, <2>1 DEF LinesIn
<1>4. LinesIn(y, PlaceOfList(y, f), f) =
        IF l.t = f THEN LinesIn(x, S, f) \cup {n} ELSE LinesIn(x, S, f)
  <2> HIDE DEF y, n, S
  <2> QED BY <1>2, <1>3
<1>5. HoldsIn(x, s[f], LinesIn(x, S, f))
  BY DEF SessionKept
<1>6. s[f] \in ListOf(Lines) /\ f \in DOMAIN s
  BY DEF SessionLists, SdpRec
<1>7. CASE l.t = f
  <2>1. z[f] = PutLast(s[f], l)
    BY <1>6, <1>7
  <2>2. HoldsIn(y, PutLast(s[f], l), LinesIn(x, S, f) \cup {n})
    BY <1>3, <1>5, <1>6, HoldsMore
  <2> QED BY <1>4, <1>7, <2>1, <2>2
<1>8. CASE l.t # f
  <2>1. z[f] = s[f]
    BY <1>6, <1>8
  <2>2. HoldsIn(y, s[f], LinesIn(x, S, f))
    BY <1>3, <1>5, HoldsSame
  <2> QED BY <1>4, <1>8, <2>1, <2>2
<1> QED BY <1>7, <1>8

\* A line that belongs to no list of a media, nor begins one, changes none.
LEMMA MediaSame ==
  ASSUME NEW x \in Seq(Lines), NEW l \in Lines, NEW m, MediaKept(x, m),
         l.t # "m", l.t \notin MediaLists \/ MediaIn(x) = {}
  PROVE  MediaKept(Append(x, l), m)
<1> DEFINE y == Append(x, l)
           n == Len(x) + 1
<1>1. MediaIn(y) = MediaIn(x)
  BY LineAdded
<1>2. ASSUME NEW i \in MediaIn(x), NEW d, DescribedIn(x, i, d) PROVE DescribedIn(y, i, d)
  <2>1. d.line = y[i]
    <3>1. i \in 1 .. Len(x)
      BY DEF MediaIn
    <3> QED BY <3>1, <1>2, LineAdded DEF DescribedIn
  <2>2. ASSUME NEW f \in MediaLists
        PROVE  HoldsIn(y, d[f], LinesIn(y, SectionIn(y, i), f))
    <3>1. SectionIn(x, i) \in SUBSET (1 .. Len(x))
      BY SectionType
    <3>2. SectionIn(y, i) = SectionIn(x, i) \/ SectionIn(y, i) = SectionIn(x, i) \cup {n}
      BY LineAdded
    <3>3. l.t # f
      BY <1>2
    <3>4. /\ LinesIn(y, SectionIn(x, i), f) = LinesIn(x, SectionIn(x, i), f)
          /\ LinesIn(y, SectionIn(x, i) \cup {n}, f) = LinesIn(x, SectionIn(x, i), f)
          /\ LinesIn(x, SectionIn(x, i), f) \in SUBSET (1 .. Len(x))
      <4>1. y[n] = l /\ \A j \in 1 .. Len(x) : y[j] = x[j]
        BY LineAdded
      <4> HIDE DEF y, n
      <4> QED BY <3>1, <3>3, <4>1 DEF LinesIn
    <3>5. HoldsIn(y, d[f], LinesIn(x, SectionIn(x, i), f))
      BY <1>2, <3>4, HoldsSame DEF DescribedIn
    <3> QED BY <3>2, <3>4, <3>5
  <2> QED BY <2>1, <2>2 DEF DescribedIn
<1> HIDE DEF y, n
<1> QED BY <1>1, <1>2 DEF MediaKept, y, n

\* A line of the media read last: d is what becomes of its description.
LEMMA MediaChanged ==
  ASSUME NEW x \in Seq(Lines), NEW l \in Lines, NEW m \in ListOf(MediaRec), MediaKept(x, m),
         l.t # "m", m.count # 0, NEW d \in MediaRec,
         d.line = Entry(m, m.count).line,
         \A f \in MediaLists : d[f] = IF l.t = f THEN PutLast(Entry(m, m.count)[f], l)
                                      ELSE Entry(m, m.count)[f]
  PROVE  MediaKept(Append(x, l), SetLast(m, d))
<1> DEFINE y == Append(x, l)
           n == Len(x) + 1
           s == SetLast(m, d)
           M == MediaIn(x)
<1>1. MediaIn(y) = M
  BY LineAdded
<1>2. /\ s.count = m.count /\ Entry(s, m.count) = d /\ m.count \in Nat \ {0}
      /\ \A i \in 1 .. m.count - 1 : Entry(s, i) = Entry(m, i)
  <2>1. m.count \in Nat \ {0}
    BY DEF ListOf
  <2> QED BY <2>1, ListSet
<1>3. /\ Len(x) \in Nat /\ M \in SUBSET (1 .. Len(x)) /\ m.count = Cardinality(M)
      /\ M \cup {0} \subseteq 0 .. Len(x)
  BY SectionType DEF MediaKept
<1>4. M # {}
  BY <1>2, <1>3, FS_EmptySet
<1>5. ASSUME NEW i \in M PROVE DescribedIn(y, i, Entry(s, Place(M, i)))
  <2>1. DescribedIn(x, i, Entry(m, Place(M, i)))
    BY DEF MediaKept
  <2>2. Place(M, i) \in 1 .. m.count /\ (Place(M, i) = m.count <=> i = Current(x))
    BY <1>3, <1>4, PlaceFacts, PlaceOfLast DEF Current
  <2>3. y[i] = x[i]
    <3>1. i \in 1 .. Len(x)
      BY <1>3
    <3> QED BY <3>1, LineAdded
  <2>4. SectionIn(x, i) \in SUBSET (1 .. Len(x))
    BY <1>3, SectionType
  <2>5. \A f \in MediaLists :
          /\ LinesIn(y, SectionIn(x, i), f) = LinesIn(x, SectionIn(x, i), f)
          /\ LinesIn(y, SectionIn(x, i) \cup {n}, f) =
               IF l.t = f THEN LinesIn(x, SectionIn(x, i), f) \cup {n}
               ELSE LinesIn(x, SectionIn(x, i), f)
          /\ LinesIn(x, SectionIn(x, i), f) \in SUBSET (1 .. Len(x))
    <3> SUFFICES ASSUME NEW f \in MediaLists
                 PROVE  /\ LinesIn(y, SectionIn(x, i), f) = LinesIn(x, SectionIn(x, i), f)
                        /\ LinesIn(y, SectionIn(x, i) \cup {n}, f) =
                             IF l.t = f THEN LinesIn(x, SectionIn(x, i), f) \cup {n}
                             ELSE LinesIn(x, SectionIn(x, i), f)
                        /\ LinesIn(x, SectionIn(x, i), f) \in SUBSET (1 .. Len(x))
      OBVIOUS
    <3>1. PICK S \in SUBSET (1 .. Len(x)) : S = SectionIn(x, i)
      BY <2>4
    <3>2. /\ LinesIn(y, S, f) = LinesIn(x, S, f) /\ LinesIn(x, S, f) \in SUBSET (1 .. Len(x))
          /\ LinesIn(y, S \cup {n}, f) =
               IF l.t = f THEN LinesIn(x, S, f) \cup {n} ELSE LinesIn(x, S, f)
      <4>1. y[n] = l /\ \A j \in 1 .. Len(x) : y[j] = x[j]
        BY LineAdded
      <4> HIDE DEF y, n
      <4> QED BY <4>1 DEF LinesIn
    <3> QED BY <3>1, <3>2
  <2>6. CASE i # Current(x)
    <3>1. Entry(s, Place(M, i)) = Entry(m, Place(M, i))
      <4>1. Place(M, i) \in 1 .. m.count - 1
        BY <1>2, <2>2, <2>6
      <4> QED BY <1>2, <4>1
    <3>2. SectionIn(y, i) = SectionIn(x, i)
      BY <2>6, LineAdded
    <3>3. ASSUME NEW f \in MediaLists
          PROVE  HoldsIn(y, Entry(m, Place(M, i))[f], LinesIn(x, SectionIn(x, i), f))
      BY <2>1, <2>5, HoldsSame DEF DescribedIn
    <3> HIDE DEF y, n, s, M
    <3> QED BY <2>1, <2>3, <2>5, <3>1, <3>2, <3>3 DEF DescribedIn
  <2>7. CASE i = Current(x)
    <3>1. Entry(s, Place(M, i)) = d /\ Place(M, i) = m.count
      BY <1>2, <2>2, <2>7
    <3>2. SectionIn(y, i) = SectionIn(x, i) \cup {n}
      BY <2>7, LineAdded
    <3>3. ASSUME NEW f \in MediaLists
          PROVE  HoldsIn(y, d[f], LinesIn(y, SectionIn(y, i), f))
      <4> DEFINE b == Entry(m, m.count)[f]
                 L == LinesIn(x, SectionIn(x, i), f)
      <4>1. HoldsIn(x, b, L) /\ L \in SUBSET (1 .. Len(x))
        BY <2>1, <2>5, <3>1 DEF DescribedIn
      <4>2. b \in ListOf(Lines)
        <5>1. m.count \in 1 .. m.count
          BY <1>2
        <5>2. Entry(m, m.count) \in MediaRec
          BY <5>1, ListEntries
        <5> QED BY <5>2 DEF MediaRec, MediaLists
      <4>3. CASE l.t = f
        <5>1. d[f] = PutLast(b, l) /\ LinesIn(y, SectionIn(y, i), f) = L \cup {n}
          BY <2>5, <3>2, <4>3
        <5>2. HoldsIn(y, PutLast(b, l), L \cup {n})
          BY <4>1, <4>2, HoldsMore
        <5> HIDE DEF y, n, b, L
        <5> QED BY <5>1, <5>2
      <4>4. CASE l.t # f
        <5>1. d[f] = b /\ LinesIn(y, SectionIn(y, i), f) = L
          BY <2>5, <3>2, <4>4
        <5>2. HoldsIn(y, b, L)
          BY <4>1, HoldsSame
        <5> HIDE DEF y, n, b, L
        <5> QED BY <5>1, <5>2
      <4> QED BY <4>3, <4>4
    <3>4. d.line = y[i]
      BY <2>1, <2>3, <3>1 DEF DescribedIn
    <3> HIDE DEF y, n, s, M
    <3> QED BY <3>1, <3>3, <3>4 DEF DescribedIn
  <2> QED BY <2>6, <2>7
<1> HIDE DEF s, M, y
<1>6. MediaKept(y, s)
  BY <1>1, <1>2, <1>3, <1>5 DEF MediaKept
<1> QED BY <1>6 DEF s, y

\* A m= line adds a description without lists.
LEMMA MediaAdded ==
  ASSUME NEW x \in Seq(Lines), NEW l \in Lines, NEW m \in ListOf(MediaRec), MediaKept(x, m),
         l.t = "m"
  PROVE  MediaKept(Append(x, l), PutLast(m, NewMedia(l))) /\ NewMedia(l) \in MediaRec
<1> DEFINE y == Append(x, l)
           n == Len(x) + 1
           s == PutLast(m, NewMedia(l))
           M == MediaIn(x)
<1>0. NewMedia(l) \in MediaRec
  BY EmptyIsList DEF NewMedia, MediaRec, Field
<1>1. MediaIn(y) = M \cup {n} /\ SectionIn(y, n) = {} /\ y[n] = l
  BY LineAdded
<1>2. /\ s.count = m.count + 1 /\ Entry(s, m.count + 1) = NewMedia(l) /\ m.count \in Nat
      /\ \A i \in 1 .. m.count : Entry(s, i) = Entry(m, i)
  BY <1>0, ListPut, SMTT(30) DEF ListOf
<1>3. /\ Len(x) \in Nat /\ M \in SUBSET (1 .. Len(x)) /\ m.count = Cardinality(M)
      /\ M \cup {0} \subseteq 0 .. Len(x)
  BY SectionType DEF MediaKept
<1>4. /\ Cardinality(M \cup {n}) = m.count + 1 /\ Place(M \cup {n}, n) = m.count + 1
      /\ \A i \in M : Place(M \cup {n}, i) = Place(M, i) /\ Place(M, i) \in 1 .. m.count
  <2> HIDE DEF M
  <2> QED BY <1>3, PlaceAdded, PlaceFacts
<1>5. ASSUME NEW i \in M PROVE DescribedIn(y, i, Entry(m, Place(M, i)))
  <2>1. DescribedIn(x, i, Entry(m, Place(M, i)))
    BY DEF MediaKept
  <2>2. y[i] = x[i]
    <3>1. i \in 1 .. Len(x)
      BY <1>3
    <3> QED BY <3>1, LineAdded
  <2>3. SectionIn(y, i) = SectionIn(x, i) /\ SectionIn(x, i) \in SUBSET (1 .. Len(x))
    BY <1>3, SectionType, LineAdded
  <2>4. ASSUME NEW f \in MediaLists
        PROVE  HoldsIn(y, Entry(m, Place(M, i))[f], LinesIn(y, SectionIn(y, i), f))
    <3>1. /\ LinesIn(x, SectionIn(x, i), f) \in SUBSET (1 .. Len(x))
          /\ LinesIn(y, SectionIn(x, i), f) = LinesIn(x, SectionIn(x, i), f)
      <4>1. y[n] = l /\ \A j \in 1 .. Len(x) : y[j] = x[j]
        BY LineAdded
      <4> HIDE DEF y, n
      <4> QED BY <2>3, <4>1 DEF LinesIn
    <3> QED BY <2>1, <2>3, <3>1, HoldsSame DEF DescribedIn
  <2> HIDE DEF y, M
  <2> QED BY <2>1, <2>2, <2>4 DEF DescribedIn
<1>6. DescribedIn(y, n, NewMedia(l))
  <2>1. ASSUME NEW f \in MediaLists
        PROVE  HoldsIn(y, NewMedia(l)[f], LinesIn(y, SectionIn(y, n), f))
    <3>1. LinesIn(y, SectionIn(y, n), f) = {}
      BY <1>1 DEF LinesIn
    <3>2. NewMedia(l)[f] = EmptyList
      BY DEF NewMedia, MediaLists
    <3>3. EmptyList.count = Cardinality({})
      BY FS_EmptySet DEF EmptyList
    <3> QED BY <3>1, <3>2, <3>3 DEF HoldsIn
  <2>2. NewMedia(l).line = y[n]
    BY <1>1 DEF NewMedia
  <2> QED BY <2>1, <2>2 DEF DescribedIn
<1> HIDE DEF s, M, y, n
<1>7. MediaKept(y, s)
  BY <1>1, <1>2, <1>3, <1>4, <1>5, <1>6 DEF MediaKept
<1> QED BY <1>0, <1>7 DEF s, y

\* Of a line that counts once, the last one is in the structure.
PlaceOfField(x, f) ==
  IF f \in MediaFields \cup MediaLists THEN SectionIn(x, 0) ELSE 1 .. Len(x)
FieldIn(x, f) ==
  IF LinesIn(x, PlaceOfField(x, f), f) = {} THEN NULL
  ELSE x[LastOf(LinesIn(x, PlaceOfField(x, f), f))]
FieldsKept(x, s) == \A f \in SessionFields : s[f] = FieldIn(x, f)

LEMMA FieldOfSession ==
  ASSUME NEW x \in Seq(Lines), NEW l \in Lines, NEW f \in SessionFields
  PROVE  FieldIn(Append(x, l), f) =
           IF l.t = f /\ (f \in MediaFields \cup MediaLists => MediaIn(x) = {})
           THEN l ELSE FieldIn(x, f)
<1> DEFINE y == Append(x, l)
           n == Len(x) + 1
           S == PlaceOfField(x, f)
           here == f \in MediaFields \cup MediaLists => MediaIn(x) = {}
<1>1. S \in SUBSET (1 .. Len(x)) /\ Len(x) \in Nat
  BY SectionType DEF PlaceOfField
<1>2. /\ l.t = f /\ here => PlaceOfField(y, f) = S \cup {n}
      /\ ~(l.t = f /\ here) => PlaceOfField(y, f) = S
                               \/ (l.t # f /\ PlaceOfField(y, f) = S \cup {n})
  <2>1. CASE f \in MediaFields \cup MediaLists
    <3>1. SectionIn(y, 0) = IF l.t # "m" /\ 0 = Current(x)
                            THEN SectionIn(x, 0) \cup {n} ELSE SectionIn(x, 0)
      BY LineAdded
    <3>2. 0 = Current(x) <=> MediaIn(x) = {}
      <4>1. MediaIn(x) # {} => LastOf(MediaIn(x)) \in 1 .. Len(x)
        BY SectionType, LastPlace
      <4>2. 0 \notin 1 .. Len(x)
        BY <1>1
      <4> QED BY <4>1, <4>2 DEF Current
    <3>3. l.t = f => l.t # "m"
      BY DEF SessionFields
    <3> QED BY <2>1, <3>1, <3>2, <3>3 DEF PlaceOfField
  <2>2. CASE f \notin MediaFields \cup MediaLists
    <3>1. 1 .. n = (1 .. Len(x)) \cup {n} /\ Len(y) = n
      OBVIOUS
    <3> HIDE DEF y, n
    <3> QED BY <2>2, <3>1 DEF PlaceOfField
  <2> QED BY <2>1, <2>2
<1>3. /\ LinesIn(x, S, f) \in SUBSET (1 .. Len(x))
      /\ LinesIn(y, S, f) = LinesIn(x, S, f)
      /\ LinesIn(y, S \cup {n}, f) =
           IF l.t = f THEN LinesIn(x, S, f) \cup {n} ELSE LinesIn(x, S, f)
  <2>1. y[n] = l /\ \A i \in 1 .. Len(x) : y[i] = x[i]
    BY LineAdded
  <2> HIDE DEF y, n, S
  <2> QED BY <1>1, <2>1 DEF LinesIn
<1>4. CASE l.t = f /\ here
  <2>1. LinesIn(y, PlaceOfField(y, f), f) = LinesIn(x, S, f) \cup {n}
    BY <1>2, <1>3, <1>4
  <2>2. LastOf(LinesIn(x, S, f) \cup {n}) = n
    <3>1. LinesIn(x, S, f) \cup {n} \in SUBSET Nat
      BY <1>1, <1>3
    <3>2. \A j \in LinesIn(x, S, f) \cup {n} : j <= n
      BY <1>1, <1>3
    <3> QED BY <3>1, <3>2, LastPlaceIs
  <2>3. y[n] = l
    OBVIOUS
  <2> HIDE DEF y, n, S
  <2>4. FieldIn(y, f) = l
    BY <2>1, <2>2, <2>3 DEF FieldIn
  <2> QED BY <2>4, <1>4 DEF y
<1>5. CASE ~(l.t = f /\ here)
  <2>1. LinesIn(y, PlaceOfField(y, f), f) = LinesIn(x, S, f)
    <3> HIDE DEF y, n, S, here
    <3> QED BY <1>2, <1>3, <1>5
  <2>2. LinesIn(x, S, f) # {} =>
          y[LastOf(LinesIn(x, S, f))] = x[LastOf(LinesIn(x, S, f))]
    <3> SUFFICES ASSUME LinesIn(x, S, f) # {}
                 PROVE  y[LastOf(LinesIn(x, S, f))] = x[LastOf(LinesIn(x, S, f))]
      OBVIOUS
    <3>1. PICK i \in 1 .. Len(x) : i = LastOf(LinesIn(x, S, f))
      BY <1>1, <1>3, LastPlace
    <3>2. y[i] = x[i]
      OBVIOUS
    <3> QED BY <3>1, <3>2
  <2> HIDE DEF y, n, S, here
  <2>3. FieldIn(y, f) = FieldIn(x, f)
    BY <2>1, <2>2 DEF FieldIn, S
  <2> QED BY <2>3, <1>5 DEF y, here
<1> QED BY <1>4, <1>5

\* The records that the lines change.
LEMMA SdpFieldSet ==
  ASSUME NEW s \in SdpRec, NEW l \in Lines, l.t \in SessionFields
  PROVE  /\ [s EXCEPT ![l.t] = l] \in SdpRec
         /\ \A f \in SessionFields : [s EXCEPT ![l.t] = l][f] = IF f = l.t THEN l ELSE s[f]
         /\ \A f \in SessionLists \cup {"m"} : [s EXCEPT ![l.t] = l][f] = s[f]
BY DEF SdpRec, SessionFields, SessionLists, Field
LEMMA SdpListSet ==
  ASSUME NEW s \in SdpRec, NEW t \in SessionLists, NEW v \in ListOf(Lines)
  PROVE  /\ [s EXCEPT ![t] = v] \in SdpRec
         /\ \A f \in SessionFields \cup {"m"} : [s EXCEPT ![t] = v][f] = s[f]
BY DEF SdpRec, SessionFields, SessionLists
LEMMA SdpMediaSet ==
  ASSUME NEW s \in SdpRec, NEW v \in ListOf(MediaRec)
  PROVE  /\ [s EXCEPT !.m = v] \in SdpRec /\ [s EXCEPT !.m = v].m = v
         /\ \A f \in SessionFields \cup SessionLists : [s EXCEPT !.m = v][f] = s[f]
BY DEF SdpRec, SessionFields, SessionLists
LEMMA MediaFieldSet ==
  ASSUME NEW m \in MediaRec, NEW l \in Lines, l.t \in MediaFields
  PROVE  /\ [m EXCEPT ![l.t] = l] \in MediaRec /\ [m EXCEPT ![l.t] = l].line = m.line
         /\ \A f \in MediaLists : [m EXCEPT ![l.t] = l][f] = m[f]
BY DEF MediaRec, MediaFields, MediaLists, Field
LEMMA MediaListSet ==
  ASSUME NEW m \in MediaRec, NEW t \in MediaLists, NEW v \in ListOf(Lines)
  PROVE  /\ [m EXCEPT ![t] = v] \in MediaRec /\ [m EXCEPT ![t] = v].line = m.line
         /\ \A f \in MediaLists : [m EXCEPT ![t] = v][f] = IF f = t THEN v ELSE m[f]
BY DEF MediaRec, MediaLists

\* What parase_invite fills in, and what it has at first.
Words == {NULL} \cup {l.value[i] : l \in Lines, i \in 1 .. 3}
DevRec ==
  [sn : Field, pushIp : Field, ssrc : Field, pushPort : {0} \cup {l.port : l \in Lines},
   source : Words \X Words \X Words, stream : {0, 1}]
NoDevice == [sn |-> NULL, pushIp |-> NULL, ssrc |-> NULL,
             pushPort |-> 0, source |-> <<NULL, NULL, NULL>>, stream |-> 0]

OfferTypes ==
  /\ text \in Seq(Lines) /\ Len(text) <= MaxLines
  /\ reading \in {"parse", "cut", "aborted", "crashed", "read"}
  /\ sdp \in SdpRec /\ devInfo \in DevRec
  /\ leaked \subseteq {<<"media", "b">>}

\* As long as the parsing has not ended the process, all that was read is there.
ParsedInv ==
  reading \in {"parse", "cut", "read"} =>
    SessionKept(text, sdp) /\ MediaKept(text, sdp.m) /\ FieldsKept(text, sdp)
NotYet == reading \in {"parse", "cut"} => devInfo = NoDevice

AnswerInv == OfferTypes /\ ParsedInv /\ NotYet /\ OfferUnderstood

LEMMA AnswerStarts == OfferInit => AnswerInv
<1> SUFFICES ASSUME OfferInit PROVE AnswerInv
  OBVIOUS
<1>1. /\ text = <<>> /\ reading = "parse" /\ devInfo = NoDevice /\ leaked = {}
      /\ sdp = [v |-> NULL, o |-> NULL, s |-> NULL, i |-> NULL,
                u |-> NULL, c |-> NULL, k |-> NULL, y |-> NULL,
                e |-> EmptyList, p |-> EmptyList, b |-> EmptyList,
                t |-> EmptyList, a |-> EmptyList, m |-> EmptyList]
  BY DEF OfferInit, NoDevice
<1>2. OfferTypes
  <2>1. sdp \in SdpRec
    BY <1>1, EmptyIsList DEF SdpRec, Field
  <2>2. devInfo \in DevRec
    BY <1>1 DEF NoDevice, DevRec, Field, Words
  <2>3. text \in Seq(Lines) /\ Len(text) <= MaxLines
    BY <1>1, OfferAssumption
  <2> QED BY <1>1, <2>1, <2>2, <2>3 DEF OfferTypes
<1>3. /\ \A S, t : S \in SUBSET (1 .. Len(text)) => LinesIn(text, S, t) = {}
      /\ MediaIn(text) = {} /\ SectionIn(text, 0) \in SUBSET (1 .. Len(text))
  <2>1. Len(text) = 0 /\ 1 .. Len(text) = {}
    BY <1>1
  <2>2. SectionIn(text, 0) = {}
    BY <2>1 DEF SectionIn
  <2> QED BY <2>1, <2>2 DEF LinesIn, MediaIn
<1>4. \A l, S : l = EmptyList /\ S = {} => HoldsIn(text, l, S)
  BY FS_EmptySet DEF HoldsIn, EmptyList
<1>5. SessionKept(text, sdp)
  <2> SUFFICES ASSUME NEW f \in SessionLists
               PROVE  HoldsIn(text, sdp[f], LinesIn(text, PlaceOfList(text, f), f))
    BY DEF SessionKept
  <2>1. PlaceOfList(text, f) \in SUBSET (1 .. Len(text))
    BY <1>3 DEF PlaceOfList
  <2>2. sdp[f] = EmptyList
    BY <1>1 DEF SessionLists
  <2> QED BY <1>3, <1>4, <2>1, <2>2
<1>6. MediaKept(text, sdp.m)
  <2>1. sdp.m.count = Cardinality({})
    BY <1>1, FS_EmptySet DEF EmptyList
  <2> QED BY <1>3, <2>1 DEF MediaKept
<1>7. FieldsKept(text, sdp)
  <2> SUFFICES ASSUME NEW f \in SessionFields PROVE sdp[f] = FieldIn(text, f)
    BY DEF FieldsKept
  <2>1. PlaceOfField(text, f) \in SUBSET (1 .. Len(text))
    BY <1>3 DEF PlaceOfField
  <2>2. sdp[f] = NULL
    BY <1>1 DEF SessionFields
  <2> QED BY <1>3, <2>1, <2>2 DEF FieldIn
<1> QED BY <1>1, <1>2, <1>5, <1>6, <1>7
        DEF AnswerInv, ParsedInv, NotYet, OfferUnderstood

\* While the offer is read: what a line must do.
LEMMA LineRead ==
  ASSUME AnswerInv, NEW l \in Lines, Read(l)
  PROVE  /\ reading = "parse" /\ text' = Append(text, l) /\ text \in Seq(Lines)
         /\ text' \in Seq(Lines) /\ Len(text') <= MaxLines
         /\ devInfo' = devInfo /\ leaked' = leaked /\ devInfo = NoDevice
         /\ sdp \in SdpRec /\ sdp.m \in ListOf(MediaRec) /\ sdp.m.count \in Nat
         /\ SessionKept(text, sdp) /\ MediaKept(text, sdp.m) /\ FieldsKept(text, sdp)
         /\ sdp.m.count = 0 <=> MediaIn(text) = {}
<1>1. /\ reading = "parse" /\ text' = Append(text, l) /\ text \in Seq(Lines)
      /\ Len(text) < MaxLines /\ devInfo' = devInfo /\ leaked' = leaked
      /\ sdp \in SdpRec
  BY DEF AnswerInv, OfferTypes, Read
<1>2. /\ SessionKept(text, sdp) /\ MediaKept(text, sdp.m) /\ FieldsKept(text, sdp)
      /\ devInfo = NoDevice
  BY <1>1 DEF AnswerInv, ParsedInv, NotYet
<1>3. text' \in Seq(Lines) /\ Len(text') <= MaxLines
  BY <1>1, OfferAssumption
<1>4. sdp.m \in ListOf(MediaRec)
  BY <1>1 DEF SdpRec
<1>5. sdp.m.count \in Nat
  BY <1>4 DEF ListOf
<1>6. sdp.m.count = 0 <=> MediaIn(text) = {}
  <2>1. IsFiniteSet(MediaIn(text)) /\ sdp.m.count = Cardinality(MediaIn(text))
    BY <1>1, <1>2, SectionType, PlaceFacts DEF MediaKept
  <2> QED BY <2>1, FS_EmptySet
<1> QED BY <1>1, <1>2, <1>3, <1>4, <1>5, <1>6

LEMMA LineKeeps ==
  ASSUME AnswerInv, NEW l \in Lines, Read(l), reading' \in {"parse", "cut"},
         sdp' \in SdpRec, SessionKept(text', sdp'), MediaKept(text', sdp'.m),
         FieldsKept(text', sdp')
  PROVE  AnswerInv'
<1>1. OfferTypes'
  BY LineRead DEF AnswerInv, OfferTypes
<1>2. ParsedInv'
  BY DEF ParsedInv
<1>3. NotYet'
  BY LineRead DEF NotYet
<1>4. OfferUnderstood'
  BY DEF OfferUnderstood
<1> QED BY <1>1, <1>2, <1>3, <1>4 DEF AnswerInv

LEMMA SessionFieldKeeps ==
  ASSUME AnswerInv, NEW l \in Lines, SessionField(l) PROVE AnswerInv'
<1>1. /\ l.t \in SessionFields /\ ToSession(l.t) /\ Read(l) /\ reading' = reading
      /\ sdp' = [sdp EXCEPT ![l.t] = l]
  BY DEF SessionField
<1>2. l.t \in MediaFields \cup MediaLists => MediaIn(text) = {}
  BY <1>1, LineRead DEF ToSession
<1>3. /\ sdp' \in SdpRec
      /\ \A f \in SessionFields : sdp'[f] = IF f = l.t THEN l ELSE sdp[f]
      /\ \A f \in SessionLists \cup {"m"} : sdp'[f] = sdp[f]
  <2>1. sdp \in SdpRec /\ l.t \in SessionFields
    BY <1>1, LineRead
  <2> DEFINE z == [sdp EXCEPT ![l.t] = l]
  <2>2. /\ z \in SdpRec
        /\ \A f \in SessionFields : z[f] = IF f = l.t THEN l ELSE sdp[f]
        /\ \A f \in SessionLists \cup {"m"} : z[f] = sdp[f]
    BY <2>1, SdpFieldSet
  <2>3. sdp' = z
    BY <1>1
  <2> HIDE DEF z
  <2> QED BY <2>2, <2>3
<1>4. l.t \notin SessionLists /\ l.t # "m"
  BY <1>1 DEF SessionFields, SessionLists
<1>5. SessionKept(text', sdp')
  <2>1. SessionKept(text', sdp)
    BY <1>1, <1>4, LineRead, SessionSame
  <2> QED BY <1>3, <2>1 DEF SessionKept
<1>6. MediaKept(text', sdp'.m)
  <2>1. MediaKept(text', sdp.m)
    BY <1>1, <1>2, <1>4, LineRead, MediaSame
  <2>2. sdp'.m = sdp.m
    BY <1>3
  <2> QED BY <2>1, <2>2
<1>7. FieldsKept(text', sdp')
  <2> SUFFICES ASSUME NEW f \in SessionFields PROVE sdp'[f] = FieldIn(text', f)
    BY DEF FieldsKept
  <2>1. FieldIn(text', f) = IF l.t = f THEN l ELSE FieldIn(text, f)
    <3>1. /\ text \in Seq(Lines) /\ text' = Append(text, l)
          /\ l.t = f => (f \in MediaFields \cup MediaLists => MediaIn(text) = {})
      BY <1>1, <1>2, LineRead
    <3>2. FieldIn(Append(text, l), f) =
            IF l.t = f /\ (f \in MediaFields \cup MediaLists => MediaIn(text) = {})
            THEN l ELSE FieldIn(text, f)
      BY <3>1, FieldOfSession
    <3> QED BY <3>1, <3>2
  <2>2. sdp[f] = FieldIn(text, f)
    BY <1>1, LineRead DEF FieldsKept
  <2> QED BY <1>3, <2>1, <2>2
<1>8. reading' \in {"parse", "cut"}
  BY <1>1, LineRead
<1> QED BY <1>1, <1>3, <1>5, <1>6, <1>7, <1>8, LineKeeps

\* A line that is no field of the session leaves those as they are.
LEMMA FieldsSame ==
  ASSUME NEW x \in Seq(Lines), NEW l \in Lines, NEW s, NEW z, FieldsKept(x, s),
         \A f \in SessionFields : z[f] = s[f],
         l.t \notin SessionFields \/ (l.t \in MediaFields \cup MediaLists /\ MediaIn(x) # {})
  PROVE  FieldsKept(Append(x, l), z)
<1> SUFFICES ASSUME NEW f \in SessionFields PROVE z[f] = FieldIn(Append(x, l), f)
  BY DEF FieldsKept
<1>1. FieldIn(Append(x, l), f) = FieldIn(x, f)
  BY FieldOfSession
<1> QED BY <1>1 DEF FieldsKept

LEMMA SessionListKeeps ==
  ASSUME AnswerInv, NEW l \in Lines, SessionList(l) PROVE AnswerInv'
<1>1. /\ l.t \in SessionLists /\ ToSession(l.t) /\ Read(l) /\ reading' = reading
      /\ sdp' = [sdp EXCEPT ![l.t] = PutLast(sdp[l.t], l)]
  BY DEF SessionList
<1>2. l.t \in MediaFields \cup MediaLists => MediaIn(text) = {}
  BY <1>1, LineRead DEF ToSession
<1>3. PutLast(sdp[l.t], l) \in ListOf(Lines)
  <2>1. sdp[l.t] \in ListOf(Lines)
    BY <1>1, LineRead DEF SdpRec, SessionLists
  <2> QED BY <2>1, ListPut
<1>4. /\ sdp' \in SdpRec
      /\ \A f \in SessionFields \cup {"m"} : sdp'[f] = sdp[f]
  <2>1. sdp \in SdpRec /\ l.t \in SessionLists
    BY <1>1, LineRead
  <2> DEFINE v == PutLast(sdp[l.t], l)
             z == [sdp EXCEPT ![l.t] = v]
  <2>2. sdp' = z /\ v \in ListOf(Lines)
    BY <1>1, <1>3
  <2> HIDE DEF v
  <2>3. z \in SdpRec /\ \A f \in SessionFields \cup {"m"} : z[f] = sdp[f]
    BY <2>1, <2>2, SdpListSet
  <2> HIDE DEF z
  <2> QED BY <2>2, <2>3
<1>5. l.t \notin SessionFields /\ l.t # "m"
  BY <1>1 DEF SessionFields, SessionLists
<1>6. SessionKept(text', sdp')
  BY <1>1, <1>2, LineRead, SessionMore
<1>7. MediaKept(text', sdp'.m)
  <2>1. MediaKept(text', sdp.m)
    BY <1>1, <1>2, <1>5, LineRead, MediaSame
  <2>2. sdp'.m = sdp.m
    BY <1>4
  <2> QED BY <2>1, <2>2
<1>8. FieldsKept(text', sdp')
  <2>1. /\ text \in Seq(Lines) /\ text' = Append(text, l) /\ FieldsKept(text, sdp)
        /\ \A f \in SessionFields : sdp'[f] = sdp[f]
    BY <1>1, <1>4, LineRead
  <2>2. FieldsKept(Append(text, l), sdp')
    BY <2>1, <1>5, FieldsSame
  <2> QED BY <2>1, <2>2
<1>9. reading' \in {"parse", "cut"}
  BY <1>1, LineRead
<1> QED BY <1>1, <1>4, <1>6, <1>7, <1>8, <1>9, LineKeeps

\* A line of the media read last, whose description becomes d.
LEMMA LineOfMedia ==
  ASSUME AnswerInv, NEW l \in Lines, Read(l), reading' = reading,
         l.t \in MediaFields \cup MediaLists, ~ToSession(l.t), NEW d \in MediaRec,
         sdp' = [sdp EXCEPT !.m = SetLast(sdp.m, d)], d.line = LastMedia.line,
         \A f \in MediaLists : d[f] = IF l.t = f THEN PutLast(LastMedia[f], l)
                                      ELSE LastMedia[f]
  PROVE  AnswerInv'
<1>1. sdp.m.count # 0 /\ MediaIn(text) # {} /\ l.t # "m"
  BY LineRead DEF ToSession, MediaFields, MediaLists
<1>2. SetLast(sdp.m, d) \in ListOf(MediaRec)
  BY <1>1, LineRead, ListSet
<1>3. /\ sdp' \in SdpRec /\ sdp'.m = SetLast(sdp.m, d)
      /\ \A f \in SessionFields \cup SessionLists : sdp'[f] = sdp[f]
  BY <1>2, LineRead, SdpMediaSet
<1>4. SessionKept(text', sdp')
  <2>1. l.t \notin SessionLists \/ l.t \in MediaLists
    BY DEF MediaFields, SessionLists
  <2>2. SessionKept(text', sdp)
    BY <1>1, <2>1, LineRead, SessionSame
  <2> QED BY <1>3, <2>2 DEF SessionKept
<1>5. MediaKept(text', sdp'.m)
  BY <1>1, <1>3, LineRead, MediaChanged DEF LastMedia
<1>6. FieldsKept(text', sdp')
  <2>1. /\ text \in Seq(Lines) /\ text' = Append(text, l) /\ FieldsKept(text, sdp)
        /\ \A f \in SessionFields : sdp'[f] = sdp[f]
    BY <1>3, LineRead
  <2>2. FieldsKept(Append(text, l), sdp')
    BY <2>1, <1>1, FieldsSame
  <2> QED BY <2>1, <2>2
<1>7. reading' \in {"parse", "cut"}
  BY LineRead
<1> QED BY <1>3, <1>4, <1>5, <1>6, <1>7, LineKeeps

LEMMA MediaLinesKeep ==
  ASSUME AnswerInv, NEW l \in Lines, MediaField(l) \/ MediaList(l) PROVE AnswerInv'
<1>1. /\ Read(l) /\ reading' = reading /\ ~ToSession(l.t)
      /\ l.t \in MediaFields \cup MediaLists
  BY DEF MediaField, MediaList
<1>2. LastMedia \in MediaRec
  <2>1. sdp.m.count \in 1 .. sdp.m.count
    BY <1>1, LineRead DEF ToSession
  <2> QED BY <1>1, <2>1, LineRead, ListEntries DEF LastMedia
<1>3. CASE MediaField(l)
  <2>1. /\ l.t \in MediaFields
        /\ sdp' = [sdp EXCEPT !.m = SetLast(sdp.m, [LastMedia EXCEPT ![l.t] = l])]
    BY <1>3 DEF MediaField
  <2>2. \A f \in MediaLists : l.t # f
    BY <2>1 DEF MediaFields, MediaLists
  <2>3. /\ [LastMedia EXCEPT ![l.t] = l] \in MediaRec
        /\ [LastMedia EXCEPT ![l.t] = l].line = LastMedia.line
        /\ \A f \in MediaLists : [LastMedia EXCEPT ![l.t] = l][f] = LastMedia[f]
    BY <1>2, <2>1, MediaFieldSet
  <2> QED BY <1>1, <2>1, <2>2, <2>3, LineOfMedia, ZenonT(30)
<1>4. CASE MediaList(l)
  <2> DEFINE p == PutLast(LastMedia[l.t], l)
  <2>1. /\ l.t \in MediaLists
        /\ sdp' = [sdp EXCEPT !.m = SetLast(sdp.m, [LastMedia EXCEPT ![l.t] = p])]
    BY <1>4 DEF MediaList
  <2>2. p \in ListOf(Lines)
    <3>1. LastMedia[l.t] \in ListOf(Lines)
      BY <1>2, <2>1 DEF MediaRec, MediaLists
    <3> QED BY <3>1, ListPut
  <2>3. /\ [LastMedia EXCEPT ![l.t] = p] \in MediaRec
        /\ [LastMedia EXCEPT ![l.t] = p].line = LastMedia.line
        /\ \A f \in MediaLists : [LastMedia EXCEPT ![l.t] = p][f] =
                                   IF l.t = f THEN PutLast(LastMedia[f], l) ELSE LastMedia[f]
    BY <1>2, <2>1, <2>2, MediaListSet
  <2> QED BY <1>1, <2>1, <2>3, LineOfMedia
<1> QED BY <1>3, <1>4

LEMMA MediaBegins ==
  ASSUME AnswerInv, NEW l \in Lines, Media(l) PROVE AnswerInv'
<1>1. /\ l.t = "m" /\ Read(l) /\ reading' \in {"parse", "cut"}
      /\ sdp' = [sdp EXCEPT !.m = PutLast(sdp.m, NewMedia(l))]
  BY DEF Media
<1>2. NewMedia(l) \in MediaRec /\ MediaKept(text', PutLast(sdp.m, NewMedia(l)))
  BY <1>1, LineRead, MediaAdded
<1>3. PutLast(sdp.m, NewMedia(l)) \in ListOf(MediaRec)
  BY <1>1, <1>2, LineRead, ListPut
<1>4. /\ sdp' \in SdpRec /\ sdp'.m = PutLast(sdp.m, NewMedia(l))
      /\ \A f \in SessionFields \cup SessionLists : sdp'[f] = sdp[f]
  BY <1>1, <1>3, LineRead, SdpMediaSet
<1>5. l.t \notin SessionLists /\ l.t \notin SessionFields
  BY <1>1 DEF SessionLists, SessionFields
<1>6. SessionKept(text', sdp')
  <2>1. SessionKept(text', sdp)
    BY <1>1, <1>5, LineRead, SessionSame
  <2> QED BY <1>4, <2>1 DEF SessionKept
<1>7. FieldsKept(text', sdp')
  <2>1. /\ text \in Seq(Lines) /\ text' = Append(text, l) /\ FieldsKept(text, sdp)
        /\ \A f \in SessionFields : sdp'[f] = sdp[f]
    BY <1>1, <1>4, LineRead
  <2>2. FieldsKept(Append(text, l), sdp')
    BY <2>1, <1>5, FieldsSame
  <2> QED BY <2>1, <2>2
<1> QED BY <1>1, <1>2, <1>4, <1>6, <1>7, LineKeeps

LEMMA ProcessEnds ==
  ASSUME AnswerInv, NEW l \in Lines, Abort(l) \/ Refused(l) PROVE AnswerInv'
<1>1. Read(l) /\ sdp' = sdp /\ reading' \in {"aborted", "crashed"}
  BY DEF Abort, Refused
<1>2. OfferTypes'
  BY <1>1, LineRead DEF AnswerInv, OfferTypes
<1> QED BY <1>1, <1>2 DEF AnswerInv, ParsedInv, NotYet, OfferUnderstood

\* The attribute of a name that the list finds first is the one that the
\* description says first.
LEMMA AttributeSaid ==
  ASSUME text \in Seq(Lines), NEW i \in MediaAt, NEW l, NEW name,
         HoldsIn(text, l, LinesIn(text, SectionIn(text, i), "a"))
  PROVE  AttributeFind(l, name) = Said(i, name)
<1> DEFINE S == LinesIn(text, SectionIn(text, i), "a")
           A == Attributes(i, name)
           H == Hits(l, name)
<1>1. Len(text) \in Nat /\ S \in SUBSET (1 .. Len(text))
  <2>1. i \in 0 .. Len(text) /\ Len(text) \in Nat
    BY DEF MediaAt
  <2> QED BY <2>1, SectionType DEF LinesIn
<1>2. A = {j \in S : text[j].name = name}
  BY DEF Attributes, Of, Section, MediaAt, LinesIn, SectionIn, MediaIn
<1>3. l.count = Cardinality(S) /\ \A j \in S : Entry(l, Place(S, j)) = text[j]
  BY DEF HoldsIn
<1> HIDE DEF S, A
<1>4. H = {p \in 1 .. Cardinality(S) : Entry(l, p).name = name}
  BY <1>3 DEF Hits
<1> HIDE DEF H
<1>5. \A j \in A : Place(S, j) \in H
  <2>1. \A j \in S : Place(S, j) \in 1 .. Cardinality(S)
    BY <1>1, PlaceFacts
  <2> QED BY <1>2, <1>3, <1>4, <2>1
<1>6. \A p \in H : \E j \in A : Place(S, j) = p
  <2> SUFFICES ASSUME NEW p \in H PROVE \E j \in A : Place(S, j) = p
    OBVIOUS
  <2>1. PICK j \in S : Place(S, j) = p
    BY <1>1, <1>4, PlacesTaken
  <2> QED BY <1>2, <1>3, <1>4, <2>1
<1>7. CASE A = {}
  <2>1. H = {}
    BY <1>6, <1>7
  <2> QED BY <1>7, <2>1 DEF AttributeFind, Said, A, H
<1>8. CASE A # {}
  <2>1. A \in SUBSET Nat
    <3>1. \A j \in 1 .. Len(text) : j \in Nat
      BY <1>1
    <3> QED BY <1>1, <1>2, <3>1
  <2>2. PICK f \in A : f = FirstOf(A) /\ \A j \in A : f <= j
    BY <1>8, <2>1, FirstPlace
  <2>3. FirstOf(H) = Place(S, f)
    <3>1. H \in SUBSET Nat /\ Place(S, f) \in H /\ \A p \in H : p \in Nat
      <4>1. Cardinality(S) \in Nat
        BY <1>1, PlaceFacts
      <4> QED BY <1>4, <1>5, <4>1
    <3>2. ASSUME NEW p \in H PROVE Place(S, f) <= p
      <4>1. PICK j \in A : Place(S, j) = p
        BY <1>6
      <4>2. f < j => Place(S, f) < Place(S, j)
        BY <1>1, <1>2, PlaceFacts
      <4>3. f <= j /\ f \in Nat /\ j \in Nat
        BY <2>1, <2>2
      <4>4. f < j \/ f = j
        BY <4>3
      <4>5. Place(S, f) \in Nat /\ Place(S, j) \in Nat
        BY <3>1, <4>1
      <4> QED BY <4>1, <4>2, <4>4, <4>5
    <3> QED BY <3>1, <3>2, FirstPlaceIs
  <2>4. Entry(l, FirstOf(H)) = text[FirstOf(A)] /\ H # {}
    BY <1>2, <1>3, <1>5, <2>2, <2>3
  <2> QED BY <1>8, <2>4 DEF AttributeFind, Said, A, H
<1> QED BY <1>7, <1>8

\* The result of parase_invite is of its type, whatever the source says.
LEMMA TakeMediaType ==
  ASSUME NEW d \in DevRec, NEW m, m.line \in Lines, NEW v,
         AttributeFind(m.a, "sms") = v, v = NULL \/ \E l \in Lines : v = l.value
  PROVE  /\ TakeMedia(d, m) \in DevRec
         /\ ScanSource(d.source, v) \in Words \X Words \X Words
<1>1. /\ d.source \in Words \X Words \X Words
      /\ d = [sn |-> d.sn, pushIp |-> d.pushIp, ssrc |-> d.ssrc, pushPort |-> d.pushPort,
              source |-> d.source, stream |-> d.stream]
  BY DEF DevRec
<1>2. ScanSource(d.source, v) \in Words \X Words \X Words
  <2>1. d.source[1] \in Words /\ d.source[2] \in Words /\ d.source[3] \in Words
        /\ NULL \in Words
    BY <1>1 DEF Words
  <2>2. CASE v = NULL
    BY <1>1, <2>2 DEF ScanSource
  <2>3. CASE v # NULL
    <3>1. v[1] \in Words /\ v[2] \in Words /\ v[3] \in Words
      BY <2>3 DEF Words
    <3> QED BY <2>1, <2>3, <3>1 DEF ScanSource
  <2> QED BY <2>2, <2>3
<1>3. m.line.port \in {0} \cup {l.port : l \in Lines}
  OBVIOUS
<1> QED BY <1>1, <1>2, <1>3 DEF TakeMedia, DevRec

\* The loop over the media, after j of them: what it found in the last video
\* so far, and in the last one so far that names a source.
VideosTo(j) == {v \in Videos : Place(MediaAt, v) <= j}
NamedTo(j) == {v \in VideosTo(j) : Said(v, "sms") # NULL}
TakenFrom(d, S, N) ==
  /\ S # {} => /\ d.pushPort = text[LastOf(S)].port
               /\ d.stream = 1 <=> Said(LastOf(S), "streamMode") = "SUB"
  /\ N # {} => LET sms == Said(LastOf(N), "sms")
               IN  /\ Len(sms) >= 1 => d.source[1] = sms[1]
                   /\ d.source[2] = IF Len(sms) >= 2 THEN sms[2] ELSE NULL
TakenAfter(d, j) ==
  /\ d \in DevRec /\ d.pushIp = sdp.c /\ d.ssrc = sdp.y
  /\ TakenFrom(d, VideosTo(j), NamedTo(j))

LEMMA TakeStep ==
  ASSUME text \in Seq(Lines), MediaKept(text, sdp.m), NEW j \in 1 .. sdp.m.count,
         NEW d, TakenAfter(d, j - 1)
  PROVE  TakenAfter(TakeMedia(d, Entry(sdp.m, j)), j)
<1> DEFINE m == Entry(sdp.m, j)
           z == TakeMedia(d, m)
<1>1. MediaAt = MediaIn(text) /\ MediaAt \in SUBSET (1 .. Len(text)) /\ Len(text) \in Nat
  BY DEF MediaAt, MediaIn
<1>2. sdp.m.count = Cardinality(MediaAt) /\ Cardinality(MediaAt) \in Nat
  BY <1>1, PlaceFacts DEF MediaKept
<1>3. PICK i \in MediaAt : Place(MediaAt, i) = j
  BY <1>1, <1>2, PlacesTaken
<1>4. m.line = text[i] /\ HoldsIn(text, m.a, LinesIn(text, SectionIn(text, i), "a"))
  BY <1>1, <1>3 DEF MediaKept, DescribedIn, MediaLists
<1>5. \A name : AttributeFind(m.a, name) = Said(i, name)
  BY <1>4, AttributeSaid
<1>6. m.line \in Lines /\ i \in Nat
  BY <1>1, <1>4
<1>7. Said(i, "sms") = NULL \/ \E l \in Lines : Said(i, "sms") = l.value
  <2>1. CASE Attributes(i, "sms") = {}
    BY <2>1 DEF Said
  <2>2. CASE Attributes(i, "sms") # {}
    <3>1. Attributes(i, "sms") \in SUBSET (1 .. Len(text))
      <4>1. Section(i) \in SUBSET (1 .. Len(text))
        BY <1>1, <1>6 DEF Section
      <4> QED BY <4>1 DEF Attributes, Of
    <3>2. Attributes(i, "sms") \in SUBSET Nat
      <4>1. \A k \in 1 .. Len(text) : k \in Nat
        BY <1>1
      <4> QED BY <3>1, <4>1
    <3>3. FirstOf(Attributes(i, "sms")) \in 1 .. Len(text)
      BY <2>2, <3>1, <3>2, FirstPlace
    <3>4. text[FirstOf(Attributes(i, "sms"))] \in Lines
      BY <3>3
    <3> QED BY <2>2, <3>4 DEF Said
  <2> QED BY <2>1, <2>2
<1>8. /\ d \in DevRec /\ d.pushIp = sdp.c /\ d.ssrc = sdp.y
      /\ TakenFrom(d, VideosTo(j - 1), NamedTo(j - 1))
  BY DEF TakenAfter
<1>9. z \in DevRec
  <2>1. AttributeFind(m.a, "sms") = Said(i, "sms")
    BY <1>5
  <2> HIDE DEF m
  <2> QED BY <1>6, <1>7, <1>8, <2>1, TakeMediaType
<1>10. \A v \in Videos : v \in MediaAt /\ Place(MediaAt, v) \in Nat
                         /\ (Place(MediaAt, v) <= j => v <= i)
  <2> SUFFICES ASSUME NEW v \in MediaAt
               PROVE  Place(MediaAt, v) \in Nat /\ (Place(MediaAt, v) <= j => v <= i)
    BY DEF Videos
  <2>1. Place(MediaAt, v) \in 1 .. Cardinality(MediaAt)
        /\ (i < v => Place(MediaAt, i) < Place(MediaAt, v))
    BY <1>1, <1>3, PlaceFacts
  <2>2. v \in Nat /\ j \in Nat
    BY <1>1, <1>2
  <2> QED BY <1>2, <1>3, <1>6, <2>1, <2>2
<1>11. \A v \in Videos : Place(MediaAt, v) = j => v = i
  <2> SUFFICES ASSUME NEW v \in Videos, Place(MediaAt, v) = j PROVE v = i
    OBVIOUS
  <2>1. v \in MediaAt /\ v \in Nat /\ j \in Nat
    BY <1>1, <1>2, <1>10
  <2>2. (v < i => Place(MediaAt, v) < j) /\ (i < v => j < Place(MediaAt, v))
    BY <1>1, <1>3, <2>1, PlaceFacts
  <2> QED BY <1>6, <2>1, <2>2
<1>12. \A v \in Videos : Place(MediaAt, v) <= j <=> (Place(MediaAt, v) <= j - 1 \/ v = i)
  <2> SUFFICES ASSUME NEW v \in Videos
               PROVE  Place(MediaAt, v) <= j <=> (Place(MediaAt, v) <= j - 1 \/ v = i)
    OBVIOUS
  <2>1. Place(MediaAt, v) \in Nat /\ j \in Nat
    BY <1>2, <1>10
  <2> QED BY <1>3, <1>11, <2>1
<1> HIDE DEF m
<1>13. CASE text[i].media # "video"
  <2>1. i \notin Videos
    BY <1>13 DEF Videos
  <2>2. VideosTo(j) = VideosTo(j - 1)
    BY <1>12, <2>1 DEF VideosTo
  <2>3. NamedTo(j) = NamedTo(j - 1) /\ z = d
    BY <1>4, <1>13, <2>2 DEF NamedTo, TakeMedia
  <2> QED BY <1>8, <2>2, <2>3 DEF TakenAfter, m
<1>14. CASE text[i].media = "video"
  <2>1. i \in Videos
    BY <1>14 DEF Videos
  <2>2. VideosTo(j) = VideosTo(j - 1) \cup {i}
    BY <1>12, <2>1 DEF VideosTo
  <2>3. LastOf(VideosTo(j)) = i
    <3>1. VideosTo(j) \in SUBSET Nat /\ i \in VideosTo(j)
      <4>1. \A k \in 1 .. Len(text) : k \in Nat
        BY <1>1
      <4> QED BY <1>1, <1>10, <2>2, <4>1 DEF VideosTo
    <3>2. \A v \in VideosTo(j) : v <= i
      BY <1>10 DEF VideosTo
    <3> QED BY <3>1, <3>2, LastPlaceIs
  <2>4. /\ z.pushIp = d.pushIp /\ z.ssrc = d.ssrc /\ z.pushPort = text[i].port
        /\ z.source = ScanSource(d.source, Said(i, "sms"))
        /\ z.stream = IF Said(i, "streamMode") = "SUB" THEN 1 ELSE 0
    BY <1>4, <1>5, <1>8, <1>14 DEF TakeMedia, DevRec
  <2>5. CASE Said(i, "sms") = NULL
    <3>1. NamedTo(j) = NamedTo(j - 1)
      BY <2>2, <2>5 DEF NamedTo
    <3>2. z.source = d.source
      BY <2>4, <2>5 DEF ScanSource
    <3> HIDE DEF z
    <3>3. TakenFrom(z, VideosTo(j), NamedTo(j))
      BY <1>8, <2>3, <2>4, <3>1, <3>2 DEF TakenFrom
    <3> QED BY <1>8, <1>9, <2>4, <3>3 DEF TakenAfter, z, m
  <2>6. CASE Said(i, "sms") # NULL
    <3>1. LastOf(NamedTo(j)) = i
      <4>1. i \in NamedTo(j) /\ NamedTo(j) \in SUBSET Nat
        <5>1. \A k \in 1 .. Len(text) : k \in Nat
          BY <1>1
        <5> QED BY <1>1, <1>10, <2>2, <2>6, <5>1 DEF VideosTo, NamedTo
      <4>2. \A v \in NamedTo(j) : v <= i
        BY <1>10 DEF VideosTo, NamedTo
      <4> QED BY <4>1, <4>2, LastPlaceIs
    <3> DEFINE v == Said(i, "sms")
    <3>2. /\ Len(v) >= 1 => z.source[1] = v[1]
          /\ z.source[2] = IF Len(v) >= 2 THEN v[2] ELSE NULL
      BY <2>4, <2>6 DEF ScanSource
    <3> HIDE DEF z
    <3>3. TakenFrom(z, VideosTo(j), NamedTo(j))
      BY <2>3, <2>4, <3>1, <3>2 DEF TakenFrom
    <3> QED BY <1>8, <1>9, <2>4, <3>3 DEF TakenAfter, z, m
  <2> QED BY <2>5, <2>6
<1> QED BY <1>13, <1>14

\* After all of the media, what was found is what the offer says.
UnderstoodAs(d) ==
  /\ d.pushIp = text[LastOf(Of(Section(0), "c"))]
  /\ d.ssrc = LET ys == Of(1 .. Len(text), "y")
              IN  IF ys = {} THEN NULL ELSE text[LastOf(ys)]
  /\ Videos # {} =>
       /\ d.pushPort = text[LastOf(Videos)].port
       /\ d.stream = 1 <=> Said(LastOf(Videos), "streamMode") = "SUB"
  /\ LET named == {v \in Videos : Said(v, "sms") # NULL}
     IN  named # {} =>
           LET sms == Said(LastOf(named), "sms")
           IN  /\ Len(sms) >= 1 => d.source[1] = sms[1]
               /\ d.source[2] = IF Len(sms) >= 2 THEN sms[2] ELSE NULL

LEMMA TakenAll ==
  ASSUME text \in Seq(Lines), MediaKept(text, sdp.m), FieldsKept(text, sdp),
         sdp.c # NULL, NEW d, TakenAfter(d, sdp.m.count)
  PROVE  UnderstoodAs(d)
<1>1. MediaAt = MediaIn(text) /\ MediaAt \in SUBSET (1 .. Len(text)) /\ Len(text) \in Nat
  BY DEF MediaAt, MediaIn
<1>2. VideosTo(sdp.m.count) = Videos
  <2>1. sdp.m.count = Cardinality(MediaAt) /\ Cardinality(MediaAt) \in Nat
    BY <1>1, PlaceFacts DEF MediaKept
  <2>2. \A v \in Videos : Place(MediaAt, v) \in 1 .. Cardinality(MediaAt)
    BY <1>1, PlaceFacts DEF Videos
  <2>3. \A v \in Videos : Place(MediaAt, v) <= sdp.m.count
    BY <2>1, <2>2
  <2> QED BY <2>3 DEF VideosTo
<1>3. NamedTo(sdp.m.count) = {v \in Videos : Said(v, "sms") # NULL}
  BY <1>2 DEF NamedTo
<1>4. /\ LinesIn(text, SectionIn(text, 0), "c") = Of(Section(0), "c")
      /\ LinesIn(text, 1 .. Len(text), "y") = Of(1 .. Len(text), "y")
  BY <1>1 DEF LinesIn, Of, Section, SectionIn
<1>5. d.pushIp = text[LastOf(Of(Section(0), "c"))]
  <2>1. sdp.c = FieldIn(text, "c") /\ PlaceOfField(text, "c") = SectionIn(text, 0)
    BY DEF FieldsKept, SessionFields, PlaceOfField, MediaLists
  <2> QED BY <1>4, <2>1 DEF FieldIn, TakenAfter
<1>6. d.ssrc = IF Of(1 .. Len(text), "y") = {} THEN NULL
               ELSE text[LastOf(Of(1 .. Len(text), "y"))]
  <2>1. sdp.y = FieldIn(text, "y") /\ PlaceOfField(text, "y") = 1 .. Len(text)
    BY DEF FieldsKept, SessionFields, PlaceOfField, MediaLists, MediaFields
  <2> QED BY <1>4, <2>1 DEF FieldIn, TakenAfter
<1>7. TakenFrom(d, Videos, {v \in Videos : Said(v, "sms") # NULL})
  BY <1>2, <1>3 DEF TakenAfter
<1> QED BY <1>5, <1>6, <1>7 DEF UnderstoodAs, TakenFrom

\* The list of a media that is left behind on the heap is that of its b= lines.
LEMMA LeftBehind ==
  ASSUME sdp \in SdpRec PROVE HeapLeft \subseteq {<<"media", "b">>}
<1>1. \A V : \A l \in ListOf(V) : ~Kept(l)
  BY DEF ListOf, Kept, Freed
<1>2. \A f \in SessionLists \cup {"m"} : ~Kept(sdp[f])
  BY <1>1 DEF SdpRec, SessionLists
<1>3. \A j \in 1 .. sdp.m.count : \A f \in {"a", "c"} : ~Kept(Entry(sdp.m, j)[f])
  <2> SUFFICES ASSUME NEW j \in 1 .. sdp.m.count, NEW f \in {"a", "c"}
               PROVE  ~Kept(Entry(sdp.m, j)[f])
    OBVIOUS
  <2>1. Entry(sdp.m, j) \in MediaRec
    BY ListEntries DEF SdpRec
  <2>2. Entry(sdp.m, j)[f] \in ListOf(Lines)
    BY <2>1 DEF MediaRec
  <2> QED BY <1>1, <2>2
<1> QED BY <1>2, <1>3 DEF HeapLeft

\* The loop of parase_invite goes over all of the media.
LEMMA LoopTakes ==
  ASSUME text \in Seq(Lines), sdp \in SdpRec, MediaKept(text, sdp.m),
         NEW from, TakenAfter(from, 0)
  PROVE  LET take[j \in 0 .. sdp.m.count] ==
               IF j = 0 THEN from ELSE TakeMedia(take[j - 1], Entry(sdp.m, j))
         IN  TakenAfter(take[sdp.m.count], sdp.m.count)
<1> DEFINE K == sdp.m.count
           F == [p \in Nat \X DevRec |->
                   IF p[1] \in 1 .. K /\ TakeMedia(p[2], Entry(sdp.m, p[1])) \in DevRec
                   THEN TakeMedia(p[2], Entry(sdp.m, p[1])) ELSE p[2]]
           Def(f) == f = [j \in 0 .. K |->
                            IF j = 0 THEN from ELSE TakeMedia(f[j - 1], Entry(sdp.m, j))]
           k == CHOOSE f : Def(f)
<1>1. K \in Nat
  BY DEF SdpRec, ListOf
<1>2. F \in [Nat \X DevRec -> DevRec] /\ from \in DevRec
  BY DEF TakenAfter
<1>3. PICK g \in Recursions(DevRec, from, F, K) : TRUE
  <2> HIDE DEF F, K
  <2> QED BY <1>1, <1>2, RecursionExists
<1>4. /\ g \in [0 .. K -> DevRec] /\ g[0] = from
      /\ \A j \in 1 .. K : g[j] = F[<<j, g[j - 1]>>]
  BY <1>3 DEF Recursions
<1>5. ASSUME NEW j \in 1 .. K, TakenAfter(g[j - 1], j - 1)
      PROVE  g[j] = TakeMedia(g[j - 1], Entry(sdp.m, j)) /\ TakenAfter(g[j], j)
  <2>1. TakenAfter(TakeMedia(g[j - 1], Entry(sdp.m, j)), j)
    BY <1>5, TakeStep
  <2>2. TakeMedia(g[j - 1], Entry(sdp.m, j)) \in DevRec /\ g[j - 1] \in DevRec
        /\ j \in Nat
    BY <1>1, <1>5, <2>1 DEF TakenAfter
  <2>3. F[<<j, g[j - 1]>>] = TakeMedia(g[j - 1], Entry(sdp.m, j))
    BY <2>2
  <2> HIDE DEF F
  <2> QED BY <1>4, <2>1, <2>3
<1> DEFINE T == {j \in Nat : j \in 0 .. K => TakenAfter(g[j], j)}
<1> HIDE DEF F, K
<1>6. 0 \in T
  BY <1>4
<1>7. ASSUME NEW j \in Nat, j \in T PROVE j + 1 \in T
  <2> SUFFICES ASSUME j + 1 \in 0 .. K PROVE TakenAfter(g[j + 1], j + 1)
    OBVIOUS
  <2>1. j + 1 \in 1 .. K /\ (j + 1) - 1 = j /\ j \in 0 .. K
    BY <1>1
  <2>2. TakenAfter(g[(j + 1) - 1], (j + 1) - 1)
    BY <1>7, <2>1
  <2> HIDE DEF T
  <2> QED BY <1>5, <2>1, <2>2
<1>8. Nat \subseteq T
  <2> HIDE DEF T
  <2> QED BY <1>6, <1>7, SetInduction
<1>9. \A j \in 0 .. K : TakenAfter(g[j], j)
  BY <1>1, <1>8
<1>10. Def(g)
  <2>1. g = [j \in 0 .. K |-> g[j]]
    BY <1>4
  <2>2. ASSUME NEW j \in 0 .. K
        PROVE  g[j] = IF j = 0 THEN from ELSE TakeMedia(g[j - 1], Entry(sdp.m, j))
    <3>1. CASE j = 0
      BY <1>4, <3>1
    <3>2. CASE j # 0
      <4>1. j \in 1 .. K /\ j - 1 \in 0 .. K
        BY <1>1, <3>2
      <4> HIDE DEF T
      <4> QED BY <1>5, <1>9, <3>2, <4>1
    <3> QED BY <3>1, <3>2
  <2> HIDE DEF T
  <2> QED BY <2>1, <2>2 DEF K
<1>11. Def(k)
  BY <1>10
<1> HIDE DEF T, k
<1>12. k[0] = from /\ \A j \in 1 .. K : k[j] = TakeMedia(k[j - 1], Entry(sdp.m, j))
  <2>1. 0 \in 0 .. K /\ \A j \in 1 .. K : j \in 0 .. K /\ j # 0
    BY <1>1
  <2>2. \A j \in 0 .. K :
          k[j] = IF j = 0 THEN from ELSE TakeMedia(k[j - 1], Entry(sdp.m, j))
    BY <1>11 DEF K
  <2> HIDE DEF Def
  <2> QED BY <2>1, <2>2
<1> DEFINE U == {j \in Nat : j \in 0 .. K => TakenAfter(k[j], j)}
<1> HIDE DEF Def
<1>13. 0 \in U
  BY <1>12
<1>14. ASSUME NEW j \in Nat, j \in U PROVE j + 1 \in U
  <2> SUFFICES ASSUME j + 1 \in 0 .. K PROVE TakenAfter(k[j + 1], j + 1)
    OBVIOUS
  <2>1. j + 1 \in 1 .. K /\ (j + 1) - 1 = j /\ j \in 0 .. K
    BY <1>1
  <2>2. TakenAfter(k[(j + 1) - 1], (j + 1) - 1)
    BY <1>14, <2>1
  <2>3. k[j + 1] = TakeMedia(k[(j + 1) - 1], Entry(sdp.m, j + 1))
    BY <1>12, <2>1
  <2> HIDE DEF U
  <2> QED BY <2>1, <2>2, <2>3, TakeStep DEF K
<1>15. Nat \subseteq U
  <2> HIDE DEF U
  <2> QED BY <1>13, <1>14, SetInduction
<1>16. TakenAfter(k[K], K)
  BY <1>1, <1>15
<1> QED BY <1>16 DEF k, Def, K

\* What an offer says does not change while it does not.
LEMMA SameSaid ==
  ASSUME text' = text
  PROVE  /\ Videos' = Videos /\ \A i, name : Said(i, name)' = Said(i, name)
         /\ Of(Section(0), "c")' = Of(Section(0), "c")
         /\ Of(1 .. Len(text), "y")' = Of(1 .. Len(text), "y")
<1>1. MediaAt' = MediaAt /\ \A i : Section(i)' = Section(i)
  BY DEF MediaAt, Section
<1>2. \A S, t : Of(S, t)' = Of(S, t)
  BY DEF Of
<1>3. \A i, name : Attributes(i, name)' = Attributes(i, name)
  BY <1>1, <1>2 DEF Attributes
<1>4. Videos' = Videos /\ \A i, name : Said(i, name)' = Said(i, name)
  BY <1>1, <1>3 DEF Videos, Said
<1>5. Of(Section(0), "c")' = Of(Section(0), "c")
      /\ Of(1 .. Len(text), "y")' = Of(1 .. Len(text), "y")
  BY DEF Of, Section, MediaAt
<1> QED BY <1>4, <1>5

LEMMA ExtractAnswers == ASSUME AnswerInv, Extract PROVE AnswerInv'
<1> DEFINE from == [devInfo EXCEPT !.sn = sdp.o, !.pushIp = sdp.c, !.ssrc = sdp.y]
           loop == CHOOSE take : take = [j \in 0 .. sdp.m.count |->
                     IF j = 0 THEN from ELSE TakeMedia(take[j - 1], Entry(sdp.m, j))]
<1>1. /\ reading \in {"parse", "cut"} /\ text' = text /\ sdp' = sdp
      /\ text \in Seq(Lines) /\ Len(text) <= MaxLines /\ sdp \in SdpRec
      /\ devInfo \in DevRec /\ leaked \subseteq {<<"media", "b">>} /\ devInfo = NoDevice
      /\ SessionKept(text, sdp) /\ MediaKept(text, sdp.m) /\ FieldsKept(text, sdp)
  BY DEF Extract, AnswerInv, OfferTypes, ParsedInv, NotYet
<1>2. CASE sdp.o = NULL \/ sdp.c = NULL
  <2>1. reading' = "crashed" /\ devInfo' = devInfo /\ leaked' = leaked
    BY <1>2 DEF Extract
  <2> QED BY <1>1, <2>1 DEF AnswerInv, OfferTypes, ParsedInv, NotYet, OfferUnderstood
<1>3. CASE ~(sdp.o = NULL \/ sdp.c = NULL)
  <2>1. reading' = "read" /\ devInfo' = loop[sdp.m.count] /\ leaked' = HeapLeft
    BY <1>3 DEF Extract
  <2>2. TakenAfter(from, 0)
    <3>1. from \in DevRec /\ from.pushIp = sdp.c /\ from.ssrc = sdp.y
      BY <1>1 DEF DevRec, SdpRec
    <3>2. \A v \in Videos : ~(Place(MediaAt, v) <= 0)
      <4>1. MediaAt \in SUBSET (1 .. Len(text)) /\ Len(text) \in Nat
        BY <1>1 DEF MediaAt
      <4>2. \A v \in Videos : Place(MediaAt, v) \in 1 .. Cardinality(MediaAt)
        BY <4>1, PlaceFacts DEF Videos
      <4> QED BY <4>2
    <3>3. VideosTo(0) = {} /\ NamedTo(0) = {}
      BY <3>2 DEF VideosTo, NamedTo
    <3> QED BY <3>1, <3>3 DEF TakenAfter, TakenFrom
  <2> HIDE DEF from
  <2>3. TakenAfter(loop[sdp.m.count], sdp.m.count)
    BY <1>1, <2>2, LoopTakes
  <2> HIDE DEF loop
  <2>4. UnderstoodAs(devInfo') /\ devInfo' \in DevRec
    <3> DEFINE d == loop[sdp.m.count]
    <3>1. TakenAfter(d, sdp.m.count)
      BY <2>3
    <3> HIDE DEF d
    <3>2. UnderstoodAs(d) /\ d \in DevRec
      BY <1>1, <1>3, <3>1, TakenAll DEF TakenAfter
    <3> QED BY <2>1, <3>2 DEF d
  <2>5. OfferTypes'
    BY <1>1, <2>1, <2>4, LeftBehind DEF OfferTypes
  <2>6. ParsedInv' /\ NotYet'
    BY <1>1, <2>1 DEF ParsedInv, NotYet
  <2>7. OfferUnderstood'
    BY <1>1, <2>1, <2>4, SameSaid, ZenonT(30) DEF OfferUnderstood, UnderstoodAs
  <2> QED BY <2>5, <2>6, <2>7 DEF AnswerInv
<1> QED BY <1>2, <1>3

LEMMA AnswerStays == AnswerInv /\ [OfferNext]_offerAll => AnswerInv'
<1> SUFFICES ASSUME AnswerInv, [OfferNext]_offerAll PROVE AnswerInv'
  OBVIOUS
<1>1. ASSUME NEW l \in Lines,
             SessionField(l) \/ SessionList(l) \/ MediaField(l) \/ MediaList(l)
             \/ Media(l) \/ Abort(l) \/ Refused(l)
      PROVE  AnswerInv'
  BY <1>1, SessionFieldKeeps, SessionListKeeps, MediaLinesKeep, MediaBegins, ProcessEnds
<1>2. CASE Extract
  BY <1>2, ExtractAnswers
<1>3. CASE UNCHANGED offerAll
  <2>1. text' = text /\ reading' = reading /\ sdp' = sdp /\ devInfo' = devInfo
        /\ leaked' = leaked
    BY <1>3 DEF offerAll
  <2>2. OfferTypes' /\ ParsedInv' /\ NotYet'
    BY <2>1 DEF AnswerInv, OfferTypes, ParsedInv, NotYet
  <2>3. OfferUnderstood'
    BY <2>1, SameSaid DEF AnswerInv, OfferUnderstood
  <2> QED BY <2>2, <2>3 DEF AnswerInv
<1> QED BY <1>1, <1>2, <1>3 DEF OfferNext

LEMMA AnswerAlways == OfferSpec => []AnswerInv
BY AnswerStarts, AnswerStays, PTL DEF OfferSpec

\* The offer of an INVITE is read into lists that fit: what is on the heap is
\* as much as its list has room for, and what the parser leaves behind is at
\* most the b= lines of a media (sdp.c:962-982, 1220-1263).
THEOREM OfferTypeCorrect == OfferSpec => []OfferTypeOK
<1>1. AnswerInv => OfferTypeOK
  <2> SUFFICES ASSUME OfferTypes PROVE OfferTypeOK
    BY DEF AnswerInv
  <2>1. \A V : \A l \in ListOf(V) : Fits(l)
    BY DEF ListOf, Fits
  <2>2. \A f \in SessionLists \cup {"m"} : Fits(sdp[f])
    BY <2>1 DEF OfferTypes, SdpRec, SessionLists
  <2>3. ASSUME NEW i \in 1 .. sdp.m.count, NEW f \in MediaLists
        PROVE  Fits(Entry(sdp.m, i)[f])
    <3>1. Entry(sdp.m, i) \in MediaRec
      BY ListEntries DEF OfferTypes, SdpRec
    <3> QED BY <2>1, <3>1 DEF MediaRec, MediaLists
  <2>4. devInfo.stream \in {0, 1} /\ DOMAIN devInfo.source = 1 .. 3
    BY DEF OfferTypes, DevRec
  <2> QED BY <2>2, <2>3, <2>4 DEF OfferTypes, OfferTypeOK
<1> QED BY <1>1, AnswerAlways, PTL

\* Every line that may come more than once is kept with the description it
\* belongs to, in its place among the lines of its kind, in the structure or
\* on the heap, however many there are (sdp.c:962-982).
THEOREM LinesAreKept == OfferSpec => []LinesKept
<1>1. AnswerInv => LinesKept
  <2> SUFFICES ASSUME AnswerInv, reading \notin {"aborted", "crashed"} PROVE LinesKept
    BY DEF LinesKept
  <2>1. SessionKept(text, sdp) /\ MediaKept(text, sdp.m)
    BY DEF AnswerInv, OfferTypes, ParsedInv
  <2> QED BY <2>1, KeptMeans DEF LinesKept
<1> QED BY <1>1, AnswerAlways, PTL

\* Of an offer that was read, the server has the address of the session, the
\* port and the stream of the last video, and the source of the last video
\* that names one, whatever else the offer says (sip.c:233-298).
THEOREM OfferIsUnderstood == OfferSpec => []OfferUnderstood
<1>1. AnswerInv => OfferUnderstood
  BY DEF AnswerInv
<1> QED BY <1>1, AnswerAlways, PTL

-----------------------------------------------------------------------------
\* ConfigFile

\* the settings are what the search finds, once they are read
AsSearched ==
  settings = [n \in SettingNames |-> AtLeastOne(n, IntValue(file, "SERVER_CONFIG", n))]
ConfigInv ==
  /\ file \in Seq(ConfigLines) /\ Len(file) <= MaxFileLines
  /\ settings = <<>> \/ AsSearched

\* the lines from i on at which the search for a section, or for a key, stops
Heads(f, section, i) ==
  {j \in i .. Len(f) : f[j].kind = "section" /\ f[j].name = section}
IsSet(l, name) == l.kind = "key" /\ l.name = name /\ l.set
Stops(f, name, i) ==
  {j \in i .. Len(f) : IsSet(f[j], name) \/ EndsSection(f[j])}

\* The search for a section ends behind its first head.
LEMMA SectionFound ==
  ASSUME NEW f \in Seq(ConfigLines), NEW section
  PROVE  SearchSection(f, section) =
           IF Heads(f, section, 1) = {} THEN Len(f) + 1
           ELSE FirstOf(Heads(f, section, 1)) + 1
<1> DEFINE L == Len(f)
           S(i) == Heads(f, section, i)
           Is(i) == f[i].kind = "section" /\ f[i].name = section
           w == [i \in 1 .. L + 1 |-> IF S(i) = {} THEN L + 1 ELSE FirstOf(S(i)) + 1]
           Def(g) == g = [i \in 1 .. L + 1 |->
                            IF i > L THEN i ELSE IF Is(i) THEN i + 1 ELSE g[i + 1]]
           k == CHOOSE g : Def(g)
<1>1. L \in Nat
  OBVIOUS
<1>2. ASSUME NEW i \in 1 .. L + 1
      PROVE  w[i] = IF i > L THEN i ELSE IF Is(i) THEN i + 1 ELSE w[i + 1]
  <2>1. CASE i > L
    <3>1. S(i) = {} /\ i = L + 1
      BY <1>1, <2>1 DEF Heads
    <3> QED BY <2>1, <3>1
  <2>2. CASE i \in 1 .. L /\ Is(i)
    <3>1. i \in S(i) /\ (\A j \in S(i) : i <= j) /\ S(i) \in SUBSET Nat
      BY <1>1, <2>2 DEF Heads
    <3>2. FirstOf(S(i)) = i
      BY <3>1, FirstPlaceIs
    <3> QED BY <1>1, <2>2, <3>1, <3>2
  <2>3. CASE i \in 1 .. L /\ ~Is(i)
    <3>1. S(i) = S(i + 1)
      <4>1. \A j : j \in i .. L <=> j = i \/ j \in i + 1 .. L
        BY <1>1, <2>3
      <4> QED BY <2>3, <4>1 DEF Heads
    <3>2. i + 1 \in 1 .. L + 1 /\ ~(i > L)
      BY <1>1, <2>3
    <3> HIDE DEF S, Is
    <3> QED BY <2>3, <3>1, <3>2
  <2>4. i > L \/ i \in 1 .. L
    BY <1>1
  <2> QED BY <2>1, <2>2, <2>3, <2>4
<1>3. Def(w)
  <2>1. w = [i \in 1 .. L + 1 |-> w[i]]
    OBVIOUS
  <2> HIDE DEF w
  <2> QED BY <1>2, <2>1
<1>4. Def(k)
  BY <1>3
<1>5. SearchSection(f, section) = k[1]
  BY DEF SearchSection
<1> HIDE DEF k, w, Is
<1>6. \A i \in 1 .. L + 1 : k[i] = IF i > L THEN i ELSE IF Is(i) THEN i + 1 ELSE k[i + 1]
  BY <1>4
<1> DEFINE T == {d \in Nat : d <= L => k[L + 1 - d] = w[L + 1 - d]}
<1>7. 0 \in T
  <2>1. L + 1 \in 1 .. L + 1 /\ L + 1 > L /\ L + 1 - 0 = L + 1
    BY <1>1
  <2> QED BY <1>2, <1>6, <2>1
<1>8. ASSUME NEW d \in Nat, d \in T PROVE d + 1 \in T
  <2> SUFFICES ASSUME d + 1 <= L PROVE k[L + 1 - (d + 1)] = w[L + 1 - (d + 1)]
    OBVIOUS
  <2>1. PICK i \in 1 .. L + 1 : i = L + 1 - (d + 1) /\ i + 1 = L + 1 - d
    BY <1>1
  <2>2. k[i + 1] = w[i + 1]
    BY <1>1, <1>8, <2>1
  <2> QED BY <1>2, <1>6, <2>1, <2>2
<1>9. L \in T
  <2> HIDE DEF T
  <2> QED BY <1>1, <1>7, <1>8, SetInduction
<1>10. k[1] = w[1] /\ 1 \in 1 .. L + 1
  <2>1. L + 1 - L = 1 /\ L <= L
    BY <1>1
  <2> QED BY <1>1, <1>9, <2>1
<1> QED BY <1>5, <1>10 DEF w

\* The search for a key ends at its first line or at the head of a section.
KeyValue(f, name, S) ==
  IF S = {} THEN NoValue
  ELSE IF IsSet(f[FirstOf(S)], name) THEN f[FirstOf(S)].value ELSE NoValue
LEMMA KeyFound ==
  ASSUME NEW f \in Seq(ConfigLines), NEW name, NEW start \in 1 .. Len(f)
  PROVE  SearchKey(f, start, name) = KeyValue(f, name, Stops(f, name, start))
<1> DEFINE L == Len(f)
           S(i) == Stops(f, name, i)
           Hit(i) == IsSet(f[i], name)
           End(i) == EndsSection(f[i])
           w == [i \in start .. L + 1 |-> KeyValue(f, name, S(i))]
           Def(g) == g = [i \in start .. L + 1 |->
                            IF i > L THEN NoValue
                            ELSE IF Hit(i) THEN f[i].value
                            ELSE IF End(i) THEN NoValue
                            ELSE g[i + 1]]
           k == CHOOSE g : Def(g)
<1>1. L \in Nat /\ start \in 1 .. L
  OBVIOUS
<1>2. ASSUME NEW i \in start .. L + 1
      PROVE  w[i] = IF i > L THEN NoValue
                    ELSE IF Hit(i) THEN f[i].value
                    ELSE IF End(i) THEN NoValue
                    ELSE w[i + 1]
  <2>1. CASE i > L
    <3>1. S(i) = {}
      BY <1>1, <2>1 DEF Stops
    <3> HIDE DEF S
    <3> QED BY <2>1, <3>1 DEF KeyValue
  <2>2. CASE i \in start .. L /\ (Hit(i) \/ End(i))
    <3>1. i \in S(i) /\ (\A j \in S(i) : i <= j) /\ S(i) \in SUBSET Nat
      BY <1>1, <2>2 DEF Stops
    <3>2. FirstOf(S(i)) = i /\ S(i) # {}
      BY <3>1, FirstPlaceIs
    <3>3. ~(i > L)
      BY <1>1, <2>2
    <3> HIDE DEF S
    <3> QED BY <2>2, <3>2, <3>3 DEF KeyValue
  <2>3. CASE i \in start .. L /\ ~Hit(i) /\ ~End(i)
    <3>1. S(i) = S(i + 1)
      <4>1. \A j : j \in i .. L <=> j = i \/ j \in i + 1 .. L
        BY <1>1, <2>3
      <4> QED BY <2>3, <4>1 DEF Stops
    <3>2. i + 1 \in start .. L + 1 /\ ~(i > L)
      BY <1>1, <2>3
    <3> HIDE DEF S, Hit, End
    <3> QED BY <2>3, <3>1, <3>2
  <2>4. i > L \/ i \in start .. L
    BY <1>1
  <2> QED BY <2>1, <2>2, <2>3, <2>4
<1>3. Def(w)
  <2>1. w = [i \in start .. L + 1 |-> w[i]]
    OBVIOUS
  <2> HIDE DEF w
  <2> QED BY <1>2, <2>1
<1>4. Def(k)
  BY <1>3
<1>5. SearchKey(f, start, name) = k[start]
  <2>1. \A g : Def(g) <=>
          g = [i \in start .. Len(f) + 1 |->
                 IF i > Len(f) THEN NoValue
                 ELSE IF f[i].kind = "key" /\ f[i].name = name /\ f[i].set THEN f[i].value
                 ELSE IF EndsSection(f[i]) THEN NoValue
                 ELSE g[i + 1]]
    BY DEF IsSet
  <2> QED BY DEF SearchKey, IsSet
<1> HIDE DEF k, w, Hit, End
<1>6. \A i \in start .. L + 1 :
        k[i] = IF i > L THEN NoValue
               ELSE IF Hit(i) THEN f[i].value
               ELSE IF End(i) THEN NoValue
               ELSE k[i + 1]
  BY <1>4
<1> DEFINE T == {d \in Nat : d <= L + 1 - start => k[L + 1 - d] = w[L + 1 - d]}
<1>7. 0 \in T
  <2>1. L + 1 \in start .. L + 1 /\ L + 1 > L /\ L + 1 - 0 = L + 1
    BY <1>1
  <2> QED BY <1>2, <1>6, <2>1
<1>8. ASSUME NEW d \in Nat, d \in T PROVE d + 1 \in T
  <2> SUFFICES ASSUME d + 1 <= L + 1 - start
               PROVE k[L + 1 - (d + 1)] = w[L + 1 - (d + 1)]
    OBVIOUS
  <2>1. PICK i \in start .. L + 1 : i = L + 1 - (d + 1) /\ i + 1 = L + 1 - d
    BY <1>1
  <2>2. k[i + 1] = w[i + 1]
    BY <1>1, <1>8, <2>1
  <2> QED BY <1>2, <1>6, <2>1, <2>2
<1>9. L + 1 - start \in T
  <2>1. L + 1 - start \in Nat
    BY <1>1
  <2> HIDE DEF T
  <2> QED BY <2>1, <1>7, <1>8, SetInduction
<1>10. k[start] = w[start] /\ start \in start .. L + 1
  <2>1. L + 1 - (L + 1 - start) = start /\ L + 1 - start <= L + 1 - start
    BY <1>1
  <2> QED BY <1>1, <1>9, <2>1
<1> QED BY <1>5, <1>10 DEF w

\* What ConfigExact says a file gives for a name.
SectionHeads(f) == {i \in 1 .. Len(f) : f[i].kind = "section"}
Sets(f, n) ==
  {i \in 1 .. Len(f) :
     /\ f[i].kind = "key" /\ f[i].name = n /\ f[i].set
     /\ \E h \in Heads(f, "SERVER_CONFIG", 1) :
          /\ h < i /\ \A j \in Heads(f, "SERVER_CONFIG", 1) : h <= j
          /\ \A j \in SectionHeads(f) : j <= h \/ i < j}
LEMMA SearchIsExact ==
  ASSUME NEW f \in Seq(ConfigLines), NEW n
  PROVE  StringContent(f, "SERVER_CONFIG", n) =
           IF Sets(f, n) = {} THEN NoValue ELSE f[FirstOf(Sets(f, n))].value
<1> DEFINE L == Len(f)
           H == Heads(f, "SERVER_CONFIG", 1)
           X == Sets(f, n)
           h == FirstOf(H)
           Z == Stops(f, n, h + 1)
           z == FirstOf(Z)
<1>1. L \in Nat
  OBVIOUS
<1>2. H \in SUBSET Nat /\ H \subseteq 1 .. L
  BY <1>1 DEF Heads
<1>3. CASE H = {}
  <2>1. X = {}
    BY <1>3 DEF Sets
  <2>2. StringContent(f, "SERVER_CONFIG", n) = NoValue
    BY <1>3, <1>1, SectionFound DEF StringContent
  <2> QED BY <2>1, <2>2
<1>4. CASE H # {}
  <2>1. h \in H /\ (\A j \in H : h <= j) /\ h \in 1 .. L
    BY <1>2, <1>4, FirstPlace
  <2>2. SearchSection(f, "SERVER_CONFIG") = h + 1
    BY <1>4, SectionFound
  <2> HIDE DEF H, h, L
  <2>3. ASSUME NEW i
        PROVE  i \in X <=> i \in Z /\ IsSet(f[i], n)
                           /\ \A j \in SectionHeads(f) : j <= h \/ i < j
    <3>1. ASSUME i \in X
          PROVE  i \in Z /\ IsSet(f[i], n)
                 /\ \A j \in SectionHeads(f) : j <= h \/ i < j
      <4>1. i \in 1 .. L /\ IsSet(f[i], n)
        BY <3>1 DEF Sets, IsSet, L
      <4>2. PICK g \in H : /\ g < i /\ \A j \in H : g <= j
                           /\ \A j \in SectionHeads(f) : j <= g \/ i < j
        BY <3>1 DEF Sets, H
      <4>3. g = h
        <5>1. g <= h /\ h <= g /\ g \in Nat /\ h \in Nat
          BY <4>2, <2>1, <1>2
        <5> QED BY <5>1
      <4>4. i \in h + 1 .. L
        BY <4>1, <4>2, <4>3, <2>1, <1>1
      <4> QED BY <4>1, <4>2, <4>3, <4>4 DEF Stops, L
    <3>2. ASSUME i \in Z, IsSet(f[i], n),
                 \A j \in SectionHeads(f) : j <= h \/ i < j
          PROVE  i \in X
      <4>1. i \in h + 1 .. L
        BY <3>2 DEF Stops, L
      <4>2. i \in 1 .. L /\ h < i
        BY <4>1, <2>1, <1>1
      <4> QED BY <4>2, <3>2, <2>1 DEF Sets, IsSet, H, L
    <3> QED BY <3>1, <3>2
  <2>4. Z \in SUBSET Nat /\ Z \subseteq h + 1 .. L
    <3>1. h + 1 .. L \in SUBSET Nat
      BY <2>1, <1>1
    <3> QED BY <3>1 DEF Stops, L
  <2>5. X \subseteq Z
    BY <2>3
  <2>6. ASSUME h + 1 <= L
        PROVE  StringContent(f, "SERVER_CONFIG", n) = KeyValue(f, n, Z)
    <3>1. h + 1 \in 1 .. Len(f) /\ ~(h + 1 > Len(f))
      BY <2>6, <2>1, <1>1 DEF L
    <3>2. SearchKey(f, h + 1, n) = KeyValue(f, n, Z)
      BY <3>1, KeyFound
    <3> QED BY <3>1, <3>2, <2>2 DEF StringContent
  <2>7. CASE ~(h + 1 <= L)
    <3>1. Z = {}
      <4>1. \A i : i \notin h + 1 .. L
        BY <2>7, <2>1, <1>1
      <4> QED BY <4>1, <2>4
    <3>2. StringContent(f, "SERVER_CONFIG", n) = NoValue
      <4>1. h + 1 > Len(f)
        BY <2>7, <2>1, <1>1 DEF L
      <4> QED BY <4>1, <2>2 DEF StringContent
    <3> QED BY <2>5, <3>1, <3>2
  <2>8. CASE h + 1 <= L /\ Z = {}
    BY <2>5, <2>6, <2>8 DEF KeyValue
  <2>9. CASE h + 1 <= L /\ Z # {}
    <3>1. z \in Z /\ (\A j \in Z : z <= j) /\ z \in Nat
      BY <2>4, <2>9, FirstPlace
    <3> HIDE DEF z, X
    <3>2. ASSUME NEW j \in SectionHeads(f) PROVE j <= h \/ j \in Z
      <4>1. j \in 1 .. L /\ EndsSection(f[j])
        BY DEF SectionHeads, EndsSection, L
      <4>2. j <= h \/ j \in h + 1 .. L
        BY <4>1, <2>1, <1>1
      <4> QED BY <4>1, <4>2 DEF Stops, L
    <3>3. CASE IsSet(f[z], n)
      <4>1. f[z].kind # "section"
        BY <3>3 DEF IsSet
      <4>2. ASSUME NEW j \in SectionHeads(f) PROVE j <= h \/ z < j
        <5>1. j # z /\ j \in Nat
          BY <4>1, <1>1 DEF SectionHeads, L
        <5>2. j <= h \/ z <= j
          BY <3>1, <3>2
        <5> QED BY <5>1, <5>2, <3>1
      <4>3. z \in X /\ X \in SUBSET Nat /\ \A j \in X : z <= j
        BY <4>2, <3>3, <3>1, <2>3, <2>4, <2>5
      <4>4. FirstOf(X) = z /\ X # {}
        BY <4>3, FirstPlaceIs
      <4>5. KeyValue(f, n, Z) = f[z].value
        BY <2>9, <3>3 DEF KeyValue, z
      <4> QED BY <2>6, <2>9, <4>4, <4>5 DEF X
    <3>4. CASE ~IsSet(f[z], n)
      <4>1. EndsSection(f[z]) /\ z \in h + 1 .. L
        BY <3>1, <3>4, <2>4 DEF Stops
      <4>2. z \in SectionHeads(f) /\ ~(z <= h)
        BY <4>1, <2>1, <1>1 DEF SectionHeads, EndsSection, L
      <4>3. ASSUME NEW i \in X PROVE FALSE
        <5>1. i \in Z /\ z < i
          <6>1. i \in Z /\ i # z /\ z <= i /\ i \in Nat
            BY <2>3, <2>4, <3>1, <3>4
          <6> QED BY <6>1, <3>1
        <5>2. i < z
          BY <4>2, <2>3
        <5> QED BY <5>1, <5>2, <3>1, <2>4
      <4>4. KeyValue(f, n, Z) = NoValue
        BY <2>9, <3>4 DEF KeyValue, z
      <4> QED BY <2>6, <2>9, <4>3, <4>4 DEF X
    <3> QED BY <3>3, <3>4
  <2> QED BY <2>7, <2>8, <2>9
<1> QED BY <1>3, <1>4

LEMMA ExactWhenSearched ==
  ASSUME ConfigInv PROVE ConfigExact
<1> SUFFICES ASSUME settings # <<>>, NEW n \in SettingNames
             PROVE  LET heads == {i \in 1 .. Len(file) : file[i].kind = "section"}
                        mine  == {i \in heads : file[i].name = "SERVER_CONFIG"}
                        sets  == {i \in 1 .. Len(file) :
                                    /\ file[i].kind = "key" /\ file[i].name = n /\ file[i].set
                                    /\ \E h \in mine :
                                         /\ h < i /\ \A j \in mine : h <= j
                                         /\ \A j \in heads : j <= h \/ i < j}
                        value == IF sets = {} THEN NoValue
                                 ELSE file[CHOOSE i \in sets : \A j \in sets : i <= j].value
                        given == IF value = NoValue THEN DefaultOf[n] ELSE value
                    IN  settings[n] = IF n = ThreadsName /\ given < 1 THEN 1 ELSE given
  BY DEF ConfigExact
<1> DEFINE mine == {i \in SectionHeads(file) : file[i].name = "SERVER_CONFIG"}
<1>1. mine = Heads(file, "SERVER_CONFIG", 1)
  BY DEF Heads, SectionHeads
<1>2. settings[n] = AtLeastOne(n, IntValue(file, "SERVER_CONFIG", n))
  BY DEF ConfigInv, AsSearched
<1>3. file \in Seq(ConfigLines)
  BY DEF ConfigInv
<1>4. StringContent(file, "SERVER_CONFIG", n) =
        IF Sets(file, n) = {} THEN NoValue ELSE file[FirstOf(Sets(file, n))].value
  BY <1>3, SearchIsExact
<1>5. Sets(file, n) =
        {i \in 1 .. Len(file) :
           /\ file[i].kind = "key" /\ file[i].name = n /\ file[i].set
           /\ \E h \in mine :
                /\ h < i /\ \A j \in mine : h <= j
                /\ \A j \in SectionHeads(file) : j <= h \/ i < j}
  BY <1>1 DEF Sets
<1> DEFINE sets == {i \in 1 .. Len(file) :
                     /\ file[i].kind = "key" /\ file[i].name = n /\ file[i].set
                     /\ \E h \in mine :
                          /\ h < i /\ \A j \in mine : h <= j
                          /\ \A j \in SectionHeads(file) : j <= h \/ i < j}
           value == IF sets = {} THEN NoValue
                    ELSE file[CHOOSE i \in sets : \A j \in sets : i <= j].value
           given == IF value = NoValue THEN DefaultOf[n] ELSE value
<1>6. value = StringContent(file, "SERVER_CONFIG", n)
  <2>1. sets = Sets(file, n)
    BY <1>5
  <2> HIDE DEF sets
  <2> QED BY <1>4, <2>1 DEF FirstOf
<1>7. given = IntValue(file, "SERVER_CONFIG", n)
  <2> HIDE DEF value
  <2> QED BY <1>6 DEF IntValue
<1>8. settings[n] = IF n = ThreadsName /\ given < 1 THEN 1 ELSE given
  <2> HIDE DEF given
  <2> QED BY <1>2, <1>7 DEF AtLeastOne
<1> QED BY <1>8 DEF SectionHeads

LEMMA ConfigTypeFromInv ==
  ASSUME ConfigInv PROVE ConfigTypeOK
<1>1. ASSUME settings # <<>>
      PROVE  settings \in [SettingNames -> Int] /\ settings[ThreadsName] >= 1
  <2>1. ASSUME NEW n \in SettingNames
        PROVE  IntValue(file, "SERVER_CONFIG", n) \in Int
    <3>1. file \in Seq(ConfigLines)
      BY DEF ConfigInv
    <3>2. CASE Sets(file, n) = {}
      BY <3>1, <3>2, SearchIsExact, ConfigAssumption DEF IntValue
    <3>3. CASE Sets(file, n) # {}
      <4>1. Sets(file, n) \in SUBSET Nat
        BY DEF Sets
      <4>2. FirstOf(Sets(file, n)) \in Sets(file, n)
        BY <3>3, <4>1, FirstPlace
      <4>3. PICK i \in 1 .. Len(file) : i = FirstOf(Sets(file, n)) /\ file[i].kind = "key"
        BY <4>2 DEF Sets
      <4>4. file[i].value \in Int \cup {NoValue}
        BY <3>1, <4>3, ConfigAssumption
      <4> QED BY <3>1, <3>3, <4>3, <4>4, SearchIsExact, ConfigAssumption DEF IntValue
    <3> QED BY <3>2, <3>3
  <2>2. settings = [n \in SettingNames |-> AtLeastOne(n, IntValue(file, "SERVER_CONFIG", n))]
    BY <1>1 DEF ConfigInv, AsSearched
  <2>3. \A n \in SettingNames : AtLeastOne(n, IntValue(file, "SERVER_CONFIG", n)) \in Int
    <3>1. SUFFICES ASSUME NEW n \in SettingNames
                   PROVE  AtLeastOne(n, IntValue(file, "SERVER_CONFIG", n)) \in Int
      OBVIOUS
    <3>2. PICK v \in Int : v = IntValue(file, "SERVER_CONFIG", n)
      BY <2>1
    <3>3. AtLeastOne(n, v) \in Int
      BY DEF AtLeastOne
    <3> QED BY <3>2, <3>3
  <2>4. settings[ThreadsName] >= 1
    BY <2>1, <2>2, ConfigAssumption DEF AtLeastOne
  <2> QED BY <2>2, <2>3, <2>4
<1> QED BY <1>1 DEF ConfigInv, ConfigTypeOK

LEMMA ConfigInvariant ==
  ConfigSpec => []ConfigInv
<1>1. ConfigInit => ConfigInv
  BY ConfigAssumption, EmptySeq DEF ConfigInit, ConfigInv
<1>2. ConfigInv /\ [ConfigNext]_configAll => ConfigInv'
  <2> SUFFICES ASSUME ConfigInv, [ConfigNext]_configAll PROVE ConfigInv'
    OBVIOUS
  <2>1. ASSUME NEW l \in ConfigLines, WriteLine(l) PROVE ConfigInv'
    BY <2>1, ConfigAssumption, AppendProperties DEF WriteLine, ConfigInv
  <2>2. CASE GetServerConfig
    BY <2>2 DEF GetServerConfig, ConfigInv, AsSearched
  <2>3. CASE UNCHANGED configAll
    BY <2>3 DEF configAll, ConfigInv, AsSearched
  <2> QED BY <2>1, <2>2, <2>3 DEF ConfigNext
<1> QED BY <1>1, <1>2, PTL DEF ConfigSpec

\* Every setting is a number and the pool has a thread, whatever the file
\* holds (main.c:34-40).
THEOREM ConfigTypeCorrect == ConfigSpec => []ConfigTypeOK
  BY ConfigInvariant, ConfigTypeFromInv, PTL

\* The search reads the first line that sets a name in the first section, and
\* nothing behind the next head (config_opt.c:30-99).
THEOREM ConfigAsWritten == ConfigSpec => []ConfigExact
  BY ConfigInvariant, ExactWhenSearched, PTL

-----------------------------------------------------------------------------
\* TcpTransfer

Messages == Len(Lengths)

\* the first k messages, one after the other, for every k
Joins == {j \in [0 .. Messages -> Seq(Bytes)] :
            /\ j[0] = <<>>
            /\ \A k \in 1 .. Messages : j[k] = j[k - 1] \o Message(k)}
joined == CHOOSE j : j \in Joins
Before(k) == Len(joined[k])
whole == joined[Messages]

LEMMA MessagesFact ==
  /\ Messages \in Nat
  /\ \A k \in 1 .. Messages : Lengths[k] \in Nat \ {0}
  BY TransferAssumption DEF Messages

LEMMA MessageFact ==
  ASSUME NEW m \in 1 .. Messages
  PROVE  /\ Message(m) \in Seq(Bytes) /\ Len(Message(m)) = Lengths[m]
         /\ \A i \in 1 .. Lengths[m] : Message(m)[i] = <<m, i>>
<1>1. Lengths[m] \in Nat
  BY MessagesFact
<1>2. \A i \in 1 .. Lengths[m] : <<m, i>> \in Bytes
  BY DEF Bytes, Messages
<1>3. Message(m) \in [1 .. Lengths[m] -> Bytes]
  BY <1>2 DEF Message
<1>4. Message(m) \in Seq(Bytes)
  BY <1>1, <1>3, SeqDef
<1>5. DOMAIN Message(m) = 1 .. Lengths[m]
  BY DEF Message
<1>6. Len(Message(m)) = Lengths[m]
  BY <1>1, <1>4, <1>5, LenProperties
<1> QED BY <1>4, <1>6 DEF Message

LEMMA JoinedExists == joined \in Joins
<1> DEFINE V == Seq(Bytes)
           F == [p \in Nat \X V |->
                   IF p[1] \in 1 .. Messages THEN p[2] \o Message(p[1]) ELSE p[2]]
<1>1. <<>> \in V
  BY EmptySeq
<1>2. F \in [Nat \X V -> V]
  <2>1. ASSUME NEW p \in Nat \X V
        PROVE  (IF p[1] \in 1 .. Messages THEN p[2] \o Message(p[1]) ELSE p[2]) \in V
    <3>1. CASE p[1] \in 1 .. Messages
      <4>1. Message(p[1]) \in Seq(Bytes) /\ p[2] \in Seq(Bytes)
        BY <3>1, MessageFact
      <4>2. p[2] \o Message(p[1]) \in Seq(Bytes)
        BY <4>1, ConcatProperties
      <4> QED BY <3>1, <4>2
    <3>2. CASE p[1] \notin 1 .. Messages
      BY <3>2
    <3> QED BY <3>1, <3>2
  <2> QED BY <2>1
<1>3. \A i \in 1 .. Messages : \A v \in V : F[<<i, v>>] = v \o Message(i)
  <2>1. 1 .. Messages \subseteq Nat
    BY MessagesFact
  <2> QED BY <2>1
<1> HIDE DEF F
<1>4. PICK j : j \in Recursions(V, <<>>, F, Messages)
  <2>1. Messages \in Nat
    BY MessagesFact
  <2>2. Recursions(V, <<>>, F, Messages) # {}
    BY <1>1, <1>2, <2>1, RecursionExists
  <2> QED BY <2>2
<1>5. j \in [0 .. Messages -> V] /\ j[0] = <<>>
      /\ \A i \in 1 .. Messages : j[i] = F[<<i, j[i - 1]>>]
  BY <1>4 DEF Recursions
<1>6. ASSUME NEW i \in 1 .. Messages PROVE j[i] = j[i - 1] \o Message(i)
  <2>1. i - 1 \in 0 .. Messages
    BY MessagesFact
  <2>2. j[i - 1] \in V
    BY <2>1, <1>5
  <2> QED BY <2>2, <1>3, <1>5
<1>7. j \in Joins
  BY <1>5, <1>6 DEF Joins
<1> QED BY <1>7 DEF joined

\* joined, one message after the other
LEMMA JoinedStep ==
  /\ joined[0] = <<>> /\ Before(0) = 0
  /\ \A k \in 0 .. Messages : joined[k] \in Seq(Bytes) /\ Before(k) \in Nat
  /\ \A k \in 1 .. Messages :
       /\ joined[k] = joined[k - 1] \o Message(k)
       /\ Before(k) = Before(k - 1) + Lengths[k]
       /\ \A i \in 1 .. Before(k - 1) : joined[k][i] = joined[k - 1][i]
       /\ \A i \in 1 .. Lengths[k] : joined[k][Before(k - 1) + i] = <<k, i>>
<1>1. joined[0] = <<>>
  BY JoinedExists DEF Joins
<1>2. \A k \in 0 .. Messages : joined[k] \in Seq(Bytes)
  BY JoinedExists DEF Joins
<1>3. ASSUME NEW k \in 1 .. Messages
      PROVE  /\ joined[k] = joined[k - 1] \o Message(k)
             /\ Before(k) = Before(k - 1) + Lengths[k]
             /\ \A i \in 1 .. Before(k - 1) : joined[k][i] = joined[k - 1][i]
             /\ \A i \in 1 .. Lengths[k] : joined[k][Before(k - 1) + i] = <<k, i>>
  <2>1. k - 1 \in 0 .. Messages
    BY MessagesFact
  <2>2. joined[k - 1] \in Seq(Bytes)
    BY <1>2, <2>1
  <2>3. joined[k] = joined[k - 1] \o Message(k)
    BY JoinedExists DEF Joins
  <2>4. /\ Len(joined[k]) = Len(joined[k - 1]) + Lengths[k]
        /\ \A i \in 1 .. Len(joined[k - 1]) + Lengths[k] :
             joined[k][i] = IF i <= Len(joined[k - 1]) THEN joined[k - 1][i]
                            ELSE Message(k)[i - Len(joined[k - 1])]
    <3>1. /\ Message(k) \in Seq(Bytes) /\ Len(Message(k)) = Lengths[k]
      BY MessageFact
    <3>2. PICK a \in Seq(Bytes), b \in Seq(Bytes) : a = joined[k - 1] /\ b = Message(k)
      BY <2>2, <3>1
    <3>3. /\ Len(a \o b) = Len(a) + Len(b)
          /\ \A i \in 1 .. Len(a) + Len(b) :
               (a \o b)[i] = IF i <= Len(a) THEN a[i] ELSE b[i - Len(a)]
      BY ConcatProperties
    <3>4. joined[k] = a \o b /\ Len(b) = Lengths[k]
      BY <2>3, <3>1, <3>2
    <3>5. Len(joined[k]) = Len(a) + Lengths[k]
      BY <3>3, <3>4
    <3> QED BY <3>2, <3>3, <3>4, <3>5
  <2>5. PICK b \in Nat : b = Before(k - 1)
    BY <2>2 DEF Before
  <2>6. PICK n \in Nat : n = Lengths[k]
    BY MessagesFact
  <2>7. \A i \in 1 .. b : i \in 1 .. b + n /\ i <= b
    BY <2>5, <2>6
  <2>8. \A i \in 1 .. n : b + i \in 1 .. b + n /\ ~(b + i <= b) /\ (b + i) - b = i
    BY <2>5, <2>6
  <2>9. \A i \in 1 .. n : Message(k)[i] = <<k, i>>
    BY <2>6, MessageFact
  <2>10. /\ Before(k) = b + n
         /\ \A i \in 1 .. b + n : joined[k][i] = IF i <= b THEN joined[k - 1][i]
                                                 ELSE Message(k)[i - b]
    BY <2>4, <2>5, <2>6 DEF Before
  <2>11. \A i \in 1 .. n : joined[k][b + i] = <<k, i>>
    BY <2>8, <2>9, <2>10
  <2> QED BY <2>3, <2>5, <2>6, <2>7, <2>10, <2>11
<1>4. \A k \in 0 .. Messages : Before(k) \in Nat
  BY <1>2 DEF Before
<1>5. Before(0) = 0
  BY <1>1, EmptySeq DEF Before
<1> QED BY <1>1, <1>2, <1>3, <1>4, <1>5

\* What is there before message k ends begins the whole stream of bytes, and
\* is no longer than what is there before a later message ends.
LEMMA JoinedBegins ==
  ASSUME NEW k \in 0 .. Messages
  PROVE  /\ Before(k) <= Before(Messages)
         /\ \A i \in 1 .. Before(k) : whole[i] = joined[k][i]
<1> DEFINE T == {d \in Nat : d <= Messages =>
                   /\ Before(Messages - d) <= Before(Messages)
                   /\ \A i \in 1 .. Before(Messages - d) : whole[i] = joined[Messages - d][i]}
<1>1. 0 \in T
  <2>1. Messages - 0 = Messages /\ Messages \in 0 .. Messages
    BY MessagesFact
  <2>2. Before(Messages) \in Nat
    BY <2>1, JoinedStep
  <2> QED BY <2>1, <2>2 DEF whole
<1>2. ASSUME NEW d \in Nat, d \in T PROVE d + 1 \in T
  <2> SUFFICES ASSUME d + 1 <= Messages
               PROVE  /\ Before(Messages - (d + 1)) <= Before(Messages)
                      /\ \A i \in 1 .. Before(Messages - (d + 1)) :
                           whole[i] = joined[Messages - (d + 1)][i]
    OBVIOUS
  <2>1. PICK m \in 1 .. Messages : m = Messages - d /\ m - 1 = Messages - (d + 1)
                                   /\ d <= Messages /\ m - 1 \in 0 .. Messages
    BY MessagesFact
  <2>2. Before(m) <= Before(Messages) /\ \A i \in 1 .. Before(m) : whole[i] = joined[m][i]
    BY <1>2, <2>1
  <2>3. /\ Before(m) = Before(m - 1) + Lengths[m] /\ Lengths[m] \in Nat
        /\ Before(m - 1) \in Nat /\ Before(Messages) \in Nat
        /\ \A i \in 1 .. Before(m - 1) : joined[m][i] = joined[m - 1][i]
    BY <2>1, JoinedStep, MessagesFact
  <2>4. \A i \in 1 .. Before(m - 1) : i \in 1 .. Before(m)
    BY <2>3
  <2> QED BY <2>1, <2>2, <2>3, <2>4
<1>3. Messages - k \in Nat /\ Messages - k <= Messages /\ Messages - (Messages - k) = k
  BY MessagesFact
<1>4. Messages - k \in T
  <2> HIDE DEF T
  <2> QED BY <1>1, <1>2, <1>3, SetInduction
<1> QED BY <1>3, <1>4

\* Byte i of message k is where it belongs in the whole.
LEMMA WholeAt ==
  ASSUME NEW k \in 1 .. Messages, NEW i \in 1 .. Lengths[k]
  PROVE  whole[Before(k - 1) + i] = <<k, i>>
<1>1. k \in 0 .. Messages /\ k - 1 \in 0 .. Messages /\ Lengths[k] \in Nat
  BY MessagesFact
<1>2. Before(k) = Before(k - 1) + Lengths[k] /\ Before(k - 1) \in Nat
  BY <1>1, JoinedStep
<1>3. Before(k - 1) + i \in 1 .. Before(k)
  BY <1>1, <1>2
<1> QED BY <1>1, <1>3, JoinedBegins, JoinedStep

\* The bytes that the sender has given away of the message it is sending.
Given ==
  IF sender = "sending" \/ sender = "failed" THEN Lengths[done + 1] - data_len ELSE 0

SenderInv ==
  /\ done \in 0 .. Messages /\ data_len \in Nat
  /\ sender \in {"idle", "sending", "failed", "closed"}
  /\ sender = "sending" \/ sender = "failed" =>
       done < Messages /\ data_len \in 1 .. Lengths[done + 1]
  /\ sender = "closed" => done = Messages
  /\ link = "fin" => sender = "failed" \/ sender = "closed"
ReceiverInv ==
  /\ got \in Seq(Seq(Bytes)) /\ Len(got) <= Messages
  /\ \A k \in 1 .. Len(got) : got[k] = Message(k)
  /\ recv_buf \in Seq(Bytes)
  /\ receiver \in {"idle", "receiving", "failed", "eof"}
  /\ receiver = "idle" => recv_buf = <<>>
  /\ receiver # "idle" =>
       /\ Len(got) < Messages /\ Len(recv_buf) < Lengths[Len(got) + 1]
       /\ \A i \in 1 .. Len(recv_buf) : recv_buf[i] = <<Len(got) + 1, i>>
  /\ receiver = "eof" => sender = "failed"
\* what is under way comes after what is received, and up to what is given
ChannelInv ==
  /\ waiting \in {"epoll", "select"} /\ link \in {"up", "fin", "reset"}
  /\ chan \in Seq(Bytes) /\ Len(chan) <= Room
  /\ \A i \in 1 .. Len(chan) : chan[i] = whole[Before(Len(got)) + Len(recv_buf) + i]
  /\ link # "reset" =>
       Before(Len(got)) + Len(recv_buf) + Len(chan) = Before(done) + Given
TransferInv == SenderInv /\ ReceiverInv /\ ChannelInv

\* The numbers that the invariant speaks of.
LEMMA NumberFacts ==
  ASSUME TransferInv
  PROVE  /\ Len(got) \in 0 .. Messages /\ Before(Len(got)) \in Nat
         /\ Len(recv_buf) \in Nat /\ Len(chan) \in Nat
         /\ Before(done) \in Nat /\ Given \in Nat /\ Room \in Nat \ {0}
         /\ sender = "sending" => done + 1 \in 1 .. Messages
         /\ receiver = "receiving" => Len(got) + 1 \in 1 .. Messages
         /\ Len(recv_buf) = 0 => recv_buf = <<>>
<1>1. Len(got) \in Nat /\ Len(recv_buf) \in Nat /\ Len(chan) \in Nat /\ Messages \in Nat
  BY MessagesFact, LenProperties DEF TransferInv, ReceiverInv, ChannelInv
<1>2. Len(got) \in 0 .. Messages /\ done \in 0 .. Messages
  BY <1>1 DEF TransferInv, SenderInv, ReceiverInv
<1>3. Before(Len(got)) \in Nat /\ Before(done) \in Nat
  BY <1>2, JoinedStep
<1>4. Given \in Nat
  <2>1. CASE sender = "sending" \/ sender = "failed"
    <3>1. done + 1 \in 1 .. Messages /\ data_len \in 1 .. Lengths[done + 1]
      BY <2>1, <1>1, <1>2 DEF TransferInv, SenderInv
    <3>2. Lengths[done + 1] \in Nat
      BY <3>1, MessagesFact
    <3> QED BY <2>1, <3>1, <3>2 DEF Given
  <2> QED BY <2>1 DEF Given
<1>5. Len(recv_buf) = 0 => recv_buf = <<>>
  BY EmptySeq DEF TransferInv, ReceiverInv
<1>6. sender = "sending" => done + 1 \in 1 .. Messages
  BY <1>1, <1>2 DEF TransferInv, SenderInv
<1>7. receiver = "receiving" => Len(got) + 1 \in 1 .. Messages
  BY <1>1, <1>2 DEF TransferInv, ReceiverInv
<1> QED BY <1>1, <1>2, <1>3, <1>4, <1>5, <1>6, <1>7, TransferAssumption

LEMMA InvInit == TransferInit => TransferInv
<1> SUFFICES ASSUME TransferInit PROVE TransferInv
  OBVIOUS
<1>1. Len(got) = 0 /\ Len(recv_buf) = 0 /\ Len(chan) = 0
  BY EmptySeq DEF TransferInit
<1>2. Before(0) = 0 /\ Messages \in Nat /\ Room \in Nat
  BY JoinedStep, MessagesFact, TransferAssumption
<1>3. SenderInv
  BY <1>2 DEF TransferInit, SenderInv
<1>4. ReceiverInv
  BY <1>1, <1>2, EmptySeq DEF TransferInit, ReceiverInv
<1>5. ChannelInv
  BY <1>1, <1>2, EmptySeq DEF TransferInit, ChannelInv, Given
<1> QED BY <1>3, <1>4, <1>5 DEF TransferInv

\* Steps that leave what was received, what is under way and what was given
\* as they are.
LEMMA InvSendCall ==
  ASSUME TransferInv, SendCall PROVE TransferInv'
<1>1. done + 1 \in 1 .. Messages /\ Lengths[done + 1] \in Nat \ {0}
  BY MessagesFact DEF SendCall, TransferInv, SenderInv, Messages
<1>2. SenderInv'
  <2>1. PICK n \in Nat \ {0} : n = Lengths[done + 1]
    BY <1>1
  <2>2. done < Messages /\ n \in 1 .. n
    <3>1. Messages \in Nat /\ done \in 0 .. Messages
      BY MessagesFact DEF TransferInv, SenderInv
    <3> QED BY <1>1, <2>1, <3>1
  <2> QED BY <2>1, <2>2 DEF SendCall, TransferInv, SenderInv
<1>3. ReceiverInv'
  BY DEF SendCall, TransferInv, ReceiverInv, recvVars
<1>4. Given = 0 /\ Given' = 0
  BY <1>1 DEF SendCall, Given
<1>5. ChannelInv'
  BY <1>4 DEF SendCall, TransferInv, ChannelInv, recvVars
<1> QED BY <1>2, <1>3, <1>5 DEF TransferInv

LEMMA InvSendFails ==
  ASSUME TransferInv, SendFails \/ SenderCloses PROVE TransferInv'
<1>1. SenderInv'
  BY DEF SendFails, SenderCloses, TransferInv, SenderInv, ChannelInv, Messages
<1>2. ReceiverInv'
  BY DEF SendFails, SenderCloses, TransferInv, ReceiverInv, recvVars
<1>3. Given' = Given
  BY DEF SendFails, SenderCloses, Given
<1>4. ChannelInv'
  BY <1>3 DEF SendFails, SenderCloses, TransferInv, ChannelInv, recvVars
<1> QED BY <1>1, <1>2, <1>4 DEF TransferInv

LEMMA InvRecvCall ==
  ASSUME TransferInv, RecvCall PROVE TransferInv'
<1>1. Len(got) + 1 \in 1 .. Messages /\ Len(got) < Messages
      /\ Lengths[Len(got) + 1] \in Nat \ {0} /\ Len(<<>>) = 0
  BY NumberFacts, MessagesFact, EmptySeq DEF RecvCall, Messages
<1>2. recv_buf = <<>> /\ recv_buf' = <<>> /\ got' = got
  BY DEF RecvCall, TransferInv, ReceiverInv
<1>3. SenderInv'
  BY DEF RecvCall, TransferInv, SenderInv, sendVars
<1>4. ReceiverInv'
  BY <1>1, <1>2, EmptySeq DEF RecvCall, TransferInv, ReceiverInv, sendVars
<1>5. Given' = Given
  BY DEF RecvCall, Given, sendVars
<1>6. ChannelInv'
  BY <1>2, <1>5 DEF RecvCall, TransferInv, ChannelInv, sendVars
<1> QED BY <1>3, <1>4, <1>6 DEF TransferInv

\* The peer has closed and nothing is under way: it was the sender that failed,
\* for one that has sent all leaves no receiver waiting for more.
LEMMA InvRecvEnd ==
  ASSUME TransferInv, RecvEnd PROVE TransferInv'
<1>1. SenderInv'
  BY DEF RecvEnd, TransferInv, SenderInv, sendVars
<1>2. Given' = Given
  BY DEF RecvEnd, Given, sendVars
<1>3. ChannelInv'
  BY <1>2 DEF RecvEnd, TransferInv, ChannelInv, sendVars
<1>4. sender = "failed"
  <2>1. SUFFICES ASSUME sender = "closed" PROVE FALSE
    BY DEF RecvEnd, AtEnd, TransferInv, SenderInv
  <2>2. Len(chan) = 0 /\ link = "fin" /\ receiver = "receiving"
    BY EmptySeq DEF RecvEnd, AtEnd
  <2>3. done = Messages /\ Given = 0
    BY <2>1 DEF TransferInv, SenderInv, Given
  <2>4. PICK k \in 1 .. Messages : k = Len(got) + 1 /\ k - 1 = Len(got) /\ k \in 0 .. Messages
    BY <2>2, NumberFacts, MessagesFact
  <2>5. Before(k) = Before(Len(got)) + Lengths[k] /\ Before(k) <= Before(Messages)
    BY <2>4, JoinedStep, JoinedBegins
  <2>6. Len(recv_buf) < Lengths[k] /\ Lengths[k] \in Nat
    BY <2>2, <2>4, MessagesFact DEF TransferInv, ReceiverInv
  <2>7. Before(Len(got)) + Len(recv_buf) + Len(chan) = Before(Messages)
    BY <2>2, <2>3, NumberFacts DEF TransferInv, ChannelInv
  <2>8. Before(k) \in Nat /\ Before(Messages) \in Nat
    BY <2>3, <2>4, JoinedStep, NumberFacts
  <2> QED BY <2>2, <2>5, <2>6, <2>7, <2>8, NumberFacts
<1>5. ReceiverInv'
  BY <1>4 DEF RecvEnd, TransferInv, ReceiverInv, sendVars
<1> QED BY <1>1, <1>3, <1>5 DEF TransferInv

LEMMA InvBreak ==
  ASSUME TransferInv, RecvFails \/ Break PROVE TransferInv'
<1>1. SenderInv'
  BY DEF RecvFails, Break, TransferInv, SenderInv, sendVars
<1>2. ReceiverInv'
  BY DEF RecvFails, Break, TransferInv, ReceiverInv, sendVars, recvVars
<1>3. chan' = <<>> /\ link' = "reset" /\ waiting' = waiting
  BY DEF RecvFails, Break
<1>4. ChannelInv'
  BY <1>3, EmptySeq, TransferAssumption DEF TransferInv, ChannelInv
<1> QED BY <1>1, <1>2, <1>4 DEF TransferInv

LEMMA InvSendSome ==
  ASSUME TransferInv, SendSome PROVE TransferInv'
<1>1. PICK m \in 1 .. Messages : m = done + 1 /\ m - 1 = done /\ m \in 0 .. Messages
  <2>1. Messages \in Nat /\ done \in 0 .. Messages
    BY MessagesFact DEF TransferInv, SenderInv
  <2>2. done + 1 \in 1 .. Messages
    BY NumberFacts DEF SendSome
  <2> QED BY <2>1, <2>2
<1>2. PICK l \in Nat \ {0} : l = Lengths[m]
  BY MessagesFact
<1>3. data_len \in 1 .. l /\ sender = "sending" /\ link = "up"
  BY <1>1, <1>2 DEF SendSome, TransferInv, SenderInv
<1>4. PICK n \in 1 .. data_len :
        /\ Len(chan) + n <= Room
        /\ chan' = chan \o SubSeq(Message(m), (l - data_len) + 1, (l - data_len) + n)
        /\ data_len' = data_len - n
        /\ IF data_len - n = 0 THEN sender' = "idle" /\ done' = m
                               ELSE UNCHANGED <<sender, done>>
  BY <1>1, <1>2, Zenon DEF SendSome, LeftAfter
<1>5. PICK q \in Nat : q = l - data_len /\ q + n <= l /\ q + data_len = l /\ q + n \in Nat
  <2>1. PICK d \in 1 .. l : d = data_len
    BY <1>3
  <2>2. n \in 1 .. d
    BY <1>4, <2>1
  <2>3. l - d \in Nat /\ (l - d) + n <= l /\ (l - d) + d = l /\ (l - d) + n \in Nat
    BY <1>2, <2>1, <2>2
  <2> QED BY <2>1, <2>3
<1>6. PICK a \in Seq(Bytes) : a = SubSeq(Message(m), q + 1, q + n)
                              /\ Len(a) = n /\ \A i \in 1 .. n : a[i] = <<m, q + i>>
  <2>1. \A i \in q + 1 .. q + n : i \in 1 .. l
    BY <1>5
  <2>2. \A i \in q + 1 .. q + n : Message(m)[i] \in Bytes
    <3>1. Len(Message(m)) = l /\ Message(m) \in Seq(Bytes)
      BY <1>2, MessageFact
    <3> QED BY <2>1, <3>1, ElementOfSeq
  <2>3. q + 1 \in Int /\ q + n \in Int /\ q + 1 <= q + n /\ (q + n) - (q + 1) + 1 = n
    BY <1>5
  <2>4. /\ SubSeq(Message(m), q + 1, q + n) \in Seq(Bytes)
        /\ Len(SubSeq(Message(m), q + 1, q + n)) = n
        /\ \A i \in 1 .. n : SubSeq(Message(m), q + 1, q + n)[i] = Message(m)[(q + 1) + i - 1]
    BY <2>2, <2>3, SubSeqProperties
  <2>5. \A i \in 1 .. n : (q + 1) + i - 1 = q + i /\ q + i \in 1 .. l
    BY <1>5
  <2>6. \A i \in 1 .. n : Message(m)[q + i] = <<m, q + i>>
    BY <2>5, <1>2, MessageFact
  <2>7. \A i \in 1 .. n : SubSeq(Message(m), q + 1, q + n)[i] = <<m, q + i>>
    BY <2>4, <2>5, <2>6
  <2> QED BY <2>4, <2>7
<1>7. /\ chan' \in Seq(Bytes) /\ Len(chan') = Len(chan) + n
      /\ \A i \in 1 .. Len(chan) + n :
           chan'[i] = IF i <= Len(chan) THEN chan[i] ELSE a[i - Len(chan)]
  <2>1. chan \in Seq(Bytes) /\ chan' = chan \o a
    BY <1>4, <1>5, <1>6 DEF TransferInv, ChannelInv
  <2> QED BY <2>1, <1>6, ConcatProperties
<1>8. done' \in 0 .. Messages /\ data_len' = data_len - n /\ data_len' \in Nat
  BY <1>1, <1>3, <1>4 DEF TransferInv, SenderInv
<1>9. got' = got /\ recv_buf' = recv_buf /\ receiver' = receiver /\ waiting' = waiting
      /\ link' = link
  BY DEF SendSome, recvVars
<1>10. SenderInv'
  <2>1. CASE data_len - n = 0
    BY <2>1, <1>3, <1>4, <1>8, <1>9 DEF TransferInv, SenderInv
  <2>2. CASE data_len - n # 0
    <3>1. data_len' \in 1 .. l /\ done' = done /\ sender' = sender
      BY <2>2, <1>3, <1>4, <1>8
    <3>2. done < Messages
      BY <1>3 DEF TransferInv, SenderInv
    <3> QED BY <3>1, <3>2, <1>1, <1>2, <1>3, <1>8, <1>9 DEF TransferInv, SenderInv
  <2> QED BY <2>1, <2>2
<1>11. ReceiverInv'
  <2>1. receiver # "eof"
    BY <1>3 DEF TransferInv, ReceiverInv
  <2> QED BY <2>1, <1>9 DEF TransferInv, ReceiverInv
<1>12. Before(done') + Given' = Before(done) + Given + n
  <2>1. Given = q
    BY <1>1, <1>2, <1>3, <1>5 DEF Given
  <2>2. Before(m) = Before(done) + l /\ Before(done) \in Nat
    BY <1>1, <1>2, JoinedStep, NumberFacts
  <2>3. CASE data_len - n = 0
    <3>1. Given' = 0 /\ done' = m
      BY <2>3, <1>4 DEF Given
    <3>2. q + n = l
      BY <2>3, <1>5, <1>3
    <3> QED BY <2>1, <2>2, <3>1, <3>2
  <2>4. CASE data_len - n # 0
    <3>1. Given' = l - (data_len - n) /\ done' = done
      BY <2>4, <1>1, <1>2, <1>3, <1>4, <1>8 DEF Given
    <3>2. l - (data_len - n) = q + n
      BY <1>2, <1>3, <1>5
    <3> QED BY <2>1, <2>2, <3>1, <3>2
  <2> QED BY <2>3, <2>4
<1>13. ChannelInv'
  <2>1. PICK b \in Nat, r \in Nat, c \in Nat :
          b = Before(Len(got)) /\ r = Len(recv_buf) /\ c = Len(chan)
    BY NumberFacts
  <2>2. b + r + c = Before(done) + Given /\ Given = q /\ Before(done) \in Nat
    BY <1>1, <1>2, <1>3, <1>5, <2>1, NumberFacts DEF TransferInv, ChannelInv, Given
  <2>3. ASSUME NEW i \in 1 .. c + n PROVE chan'[i] = whole[b + r + i]
    <3>1. CASE i <= c
      <4>1. i \in 1 .. c
        BY <3>1
      <4> QED BY <3>1, <4>1, <1>7, <2>1 DEF TransferInv, ChannelInv
    <3>2. CASE ~(i <= c)
      <4>1. PICK j \in 1 .. n : j = i - c /\ c + j = i
        BY <3>2
      <4>2. chan'[i] = <<m, q + j>>
        BY <3>2, <4>1, <1>6, <1>7, <2>1
      <4>3. q + j \in 1 .. Lengths[m]
        BY <1>2, <1>5, SMTT(30)
      <4>4. whole[Before(m - 1) + (q + j)] = <<m, q + j>>
        BY <4>3, WholeAt
      <4>5. Before(m - 1) + (q + j) = b + r + i
        BY <2>2, <4>1, <1>1
      <4> QED BY <4>2, <4>4, <4>5
    <3> QED BY <3>1, <3>2
  <2>4. c + n <= Room /\ Len(chan') = c + n
    BY <1>4, <1>7, <2>1
  <2>5. b + r + (c + n) = Before(done') + Given'
    BY <1>12, <2>2
  <2>6. Before(Len(got'))= b /\ Len(recv_buf') = r
    BY <1>9, <2>1
  <2> HIDE DEF TransferInv
  <2>7. waiting' \in {"epoll", "select"} /\ link' \in {"up", "fin", "reset"}
    BY <1>9 DEF TransferInv, ChannelInv
  <2> QED BY <2>3, <2>4, <2>5, <2>6, <2>7, <1>7, Zenon DEF ChannelInv, Before
<1> QED BY <1>10, <1>11, <1>13 DEF TransferInv

LEMMA InvRecvSome ==
  ASSUME TransferInv, RecvSome PROVE TransferInv'
<1>1. PICK g \in 0 .. Messages, m \in 1 .. Messages :
        g = Len(got) /\ m = g + 1 /\ m - 1 = g /\ m \in 0 .. Messages
  BY NumberFacts, MessagesFact DEF RecvSome
<1>2. PICK l \in Nat \ {0} : l = Lengths[m]
  BY MessagesFact
<1>3. PICK r \in Nat, c \in Nat : r = Len(recv_buf) /\ c = Len(chan)
  BY NumberFacts
<1>4. r < l /\ receiver = "receiving" /\ link # "reset"
      /\ \A i \in 1 .. r : recv_buf[i] = <<m, i>>
  BY <1>1, <1>2, <1>3 DEF RecvSome, TransferInv, ReceiverInv
<1>5. PICK n \in 1 .. c :
        /\ n <= l - r
        /\ chan' = SubSeq(chan, n + 1, c)
        /\ IF n >= l - r
           THEN /\ receiver' = "idle" /\ got' = Append(got, recv_buf \o SubSeq(chan, 1, n))
                /\ recv_buf' = <<>>
           ELSE recv_buf' = recv_buf \o SubSeq(chan, 1, n) /\ UNCHANGED <<receiver, got>>
  BY <1>1, <1>2, <1>3, Zenon DEF RecvSome, Asked, nleft
<1>6. chan \in Seq(Bytes) /\ recv_buf \in Seq(Bytes) /\ got \in Seq(Seq(Bytes)) /\ c <= Room
      /\ \A i \in 1 .. c : chan[i] \in Bytes
  BY <1>3, ElementOfSeq DEF TransferInv, ReceiverInv, ChannelInv
<1>7. PICK b \in Nat : b = Before(g)
  BY <1>1, JoinedStep
<1>8. \A i \in 1 .. c : chan[i] = whole[b + r + i]
  BY <1>1, <1>3, <1>7 DEF TransferInv, ChannelInv
<1>9. PICK a \in Seq(Bytes) : a = SubSeq(chan, 1, n) /\ Len(a) = n
                              /\ \A i \in 1 .. n : a[i] = chan[i]
  <2>1. /\ \A i \in 1 .. n : i \in 1 .. c /\ 1 + i - 1 = i
        /\ 1 \in Int /\ n \in Int /\ 1 <= n /\ n - 1 + 1 = n
    BY <1>3, <1>5
  <2>2. \A i \in 1 .. n : chan[i] \in Bytes
    BY <2>1, <1>6
  <2>3. /\ SubSeq(chan, 1, n) \in Seq(Bytes) /\ Len(SubSeq(chan, 1, n)) = n
        /\ \A i \in 1 .. n : SubSeq(chan, 1, n)[i] = chan[1 + i - 1]
    BY <2>1, <2>2, SubSeqProperties
  <2>4. \A i \in 1 .. n : SubSeq(chan, 1, n)[i] = chan[i]
    BY <2>1, <2>3
  <2> QED BY <2>3, <2>4
<1>10. PICK now \in Seq(Bytes) :
         /\ now = recv_buf \o SubSeq(chan, 1, n) /\ Len(now) = r + n
         /\ \A i \in 1 .. r + n : now[i] = <<m, i>>
  <2>1. /\ recv_buf \o a \in Seq(Bytes) /\ Len(recv_buf \o a) = r + n
        /\ \A i \in 1 .. r + n :
             (recv_buf \o a)[i] = IF i <= r THEN recv_buf[i] ELSE a[i - r]
    BY <1>3, <1>6, <1>9, ConcatProperties
  <2>2. ASSUME NEW i \in 1 .. r + n PROVE (recv_buf \o a)[i] = <<m, i>>
    <3>1. CASE i <= r
      <4>1. i \in 1 .. r
        BY <3>1
      <4> QED BY <3>1, <4>1, <2>1, <1>4
    <3>2. CASE ~(i <= r)
      <4>1. PICK j \in 1 .. n : j = i - r /\ r + j = i /\ j \in 1 .. c
        BY <3>2
      <4>2. (recv_buf \o a)[i] = whole[b + r + j]
        BY <3>2, <4>1, <2>1, <1>8, <1>9
      <4>3. i \in 1 .. l /\ b + r + j = b + i
        BY <4>1, <1>5, <1>2
      <4>4. whole[Before(m - 1) + i] = <<m, i>>
        BY <4>3, <1>2, WholeAt
      <4> QED BY <4>2, <4>3, <4>4, <1>1, <1>7
    <3> QED BY <3>1, <3>2
  <2> QED BY <2>1, <2>2, <1>9
<1>11. /\ chan' \in Seq(Bytes) /\ Len(chan') = c - n
       /\ \A i \in 1 .. c - n : chan'[i] = whole[b + (r + n) + i]
  <2>1. /\ \A i \in n + 1 .. c : i \in 1 .. c
        /\ n + 1 \in Int /\ c \in Int /\ c - (n + 1) + 1 = c - n
        /\ (IF n + 1 <= c THEN c - n ELSE 0) = c - n
    BY <1>3, <1>5
  <2>2. /\ SubSeq(chan, n + 1, c) \in Seq(Bytes)
        /\ Len(SubSeq(chan, n + 1, c)) = c - n
        /\ \A i \in 1 .. c - n : SubSeq(chan, n + 1, c)[i] = chan[(n + 1) + i - 1]
    BY <2>1, <1>6, SubSeqProperties
  <2>3. \A i \in 1 .. c - n :
          (n + 1) + i - 1 = n + i /\ n + i \in 1 .. c /\ b + r + (n + i) = b + (r + n) + i
    BY <1>5
  <2> QED BY <2>2, <2>3, <1>5, <1>8
<1>12. SenderInv' /\ Given' = Given /\ done' = done /\ waiting' = waiting /\ link' = link
       /\ sender' = sender
  BY DEF RecvSome, TransferInv, SenderInv, Given, sendVars
<1>13. b + r + c = Before(done) + Given /\ Before(done) \in Nat /\ Given \in Nat
  BY <1>1, <1>3, <1>4, <1>7, NumberFacts DEF TransferInv, ChannelInv
<1>14. c - n <= Room /\ waiting \in {"epoll", "select"} /\ link \in {"up", "fin", "reset"}
       /\ Room \in Nat
  BY <1>5, <1>6, TransferAssumption, SMTT(30) DEF TransferInv, ChannelInv
<1>15. CASE n >= l - r
  <2>1. r + n = l
    <3>1. n \in Nat /\ n <= l - r /\ n >= l - r
      BY <1>5, <1>15
    <3> QED BY <3>1, <1>2, <1>3, SMTT(30)
  <2>2. now = Message(m)
    BY <2>1, <1>2, <1>10, MessageFact, SeqEqual, ZenonT(30)
  <2>3. receiver' = "idle" /\ got' = Append(got, now) /\ recv_buf' = <<>>
    BY <1>5, <1>10, <1>15
  <2>4. /\ got' \in Seq(Seq(Bytes)) /\ Len(got') = g + 1
        /\ \A i \in 1 .. g : got'[i] = got[i]
        /\ got'[g + 1] = now
    BY <2>3, <1>1, <1>6, <1>10, AppendProperties
  <2>5. ReceiverInv'
    <3>1. \A k \in 1 .. g + 1 : k \in 1 .. g \/ k = g + 1
      OBVIOUS
    <3>2. \A k \in 1 .. g : got[k] = Message(k)
      BY <1>1 DEF TransferInv, ReceiverInv
    <3>3. \A k \in 1 .. g + 1 : got'[k] = Message(k)
      BY <2>2, <2>4, <3>1, <3>2, <1>1
    <3>4. g + 1 <= Messages /\ <<>> \in Seq(Bytes)
      BY <1>1, MessagesFact, EmptySeq
    <3> QED BY <2>3, <2>4, <3>3, <3>4 DEF ReceiverInv
  <2>6. ChannelInv'
    <3>1. Len(recv_buf') = 0
      BY <2>3, EmptySeq
    <3>2. Before(Len(got')) = b + (r + n) /\ b + (r + n) \in Nat
      <4>1. Before(m) = Before(g) + l
        BY <1>1, <1>2, JoinedStep
      <4> QED BY <4>1, <2>1, <2>4, <1>1, <1>7
    <3>3. /\ \A i \in 1 .. c - n : b + (r + n) + 0 + i = b + (r + n) + i
          /\ b + (r + n) + 0 + (c - n) = b + r + c
      BY <1>5
    <3>4. Before(Len(got'))+ Len(recv_buf') + Len(chan') = Before(done') + Given'
      BY <3>1, <3>2, <3>3, <1>11, <1>12, <1>13
    <3>5. \A i \in 1 .. Len(chan') : chan'[i] = whole[Before(Len(got')) + Len(recv_buf') + i]
      BY <3>1, <3>2, <3>3, <1>11
    <3> QED BY <3>4, <3>5, <1>11, <1>12, <1>14, Zenon DEF ChannelInv, Before
  <2> QED BY <2>5, <2>6, <1>12 DEF TransferInv
<1>16. CASE ~(n >= l - r)
  <2>1. r + n < l
    BY <1>5, <1>16, <1>2, <1>3
  <2>2. recv_buf' = now /\ receiver' = receiver /\ got' = got
    BY <1>5, <1>10, <1>16
  <2>3. ReceiverInv'
    BY <2>1, <2>2, <1>1, <1>2, <1>4, <1>10, <1>12 DEF TransferInv, ReceiverInv
  <2>4. ChannelInv'
    <3>1. Before(Len(got')) = b /\ Len(recv_buf') = r + n
      BY <2>2, <1>1, <1>7, <1>10
    <3>2. b + (r + n) + (c - n) = b + r + c
      BY <1>5
    <3>3. Before(Len(got')) + Len(recv_buf') + Len(chan') = Before(done') + Given'
      BY <3>1, <3>2, <1>11, <1>12, <1>13
    <3>4. \A i \in 1 .. Len(chan') : chan'[i] = whole[Before(Len(got')) + Len(recv_buf') + i]
      BY <3>1, <1>11
    <3> QED BY <3>3, <3>4, <1>11, <1>12, <1>14, Zenon DEF ChannelInv, Before
  <2> QED BY <2>3, <2>4, <1>12 DEF TransferInv
<1> QED BY <1>15, <1>16

LEMMA TransferInvariant == TransferSpec => []TransferInv
<1>1. TransferInv /\ [TransferNext]_transferAll => TransferInv'
  <2> SUFFICES ASSUME TransferInv, [TransferNext]_transferAll PROVE TransferInv'
    OBVIOUS
  <2>1. CASE Peek \/ UNCHANGED transferAll
    <3>1. UNCHANGED transferAll
      BY <2>1 DEF Peek
    <3>2. Given' = Given
      BY <3>1 DEF transferAll, sendVars, Given
    <3> QED BY <3>1, <3>2 DEF transferAll, sendVars, recvVars, TransferInv, SenderInv,
                              ReceiverInv, ChannelInv
  <2> QED BY <2>1, InvSendCall, InvSendSome, InvSendFails, InvRecvCall, InvRecvSome,
             InvRecvEnd, InvBreak DEF TransferNext
<1> QED BY <1>1, InvInit, PTL DEF TransferSpec

\* A function that joins the first d messages one by one gives joined[d].
Joining(d) ==
  CHOOSE g : g = [k \in 0 .. d |-> IF k = 0 THEN <<>> ELSE g[k - 1] \o Message(k)]
LEMMA JoiningIs ==
  ASSUME NEW d \in 0 .. Messages
  PROVE  Joining(d)[d] = joined[d]
<1> DEFINE Def(g) == g = [k \in 0 .. d |-> IF k = 0 THEN <<>> ELSE g[k - 1] \o Message(k)]
           w == [k \in 0 .. d |-> joined[k]]
           c == CHOOSE g : Def(g)
<1>1. d \in Nat /\ \A k \in 0 .. d : k # 0 => k - 1 \in 0 .. d /\ k \in 1 .. Messages
  BY MessagesFact
<1>2. Def(w)
  <2>1. ASSUME NEW k \in 0 .. d
        PROVE  w[k] = IF k = 0 THEN <<>> ELSE w[k - 1] \o Message(k)
    BY <1>1, JoinedStep
  <2>2. w = [k \in 0 .. d |-> w[k]]
    OBVIOUS
  <2> HIDE DEF w
  <2> QED BY <2>1, <2>2
<1>3. Def(c)
  BY <1>2
<1>4. Joining(d) = c
  BY DEF Joining
<1> HIDE DEF c, w
<1>5. \A k \in 0 .. d : c[k] = IF k = 0 THEN <<>> ELSE c[k - 1] \o Message(k)
  BY <1>3
<1> DEFINE T == {n \in Nat : n <= d => c[n] = joined[n]}
<1>6. 0 \in T
  <2>1. 0 \in 0 .. d
    BY <1>1
  <2> QED BY <2>1, <1>5, JoinedStep
<1>7. ASSUME NEW n \in Nat, n \in T PROVE n + 1 \in T
  <2> SUFFICES ASSUME n + 1 <= d PROVE c[n + 1] = joined[n + 1]
    OBVIOUS
  <2>1. PICK k \in 0 .. d : k = n + 1 /\ k - 1 = n /\ k # 0 /\ n <= d
    BY <1>1
  <2>2. c[k] = c[k - 1] \o Message(k)
    BY <2>1, <1>5
  <2>3. joined[k] = joined[k - 1] \o Message(k)
    BY <2>1, <1>1, JoinedStep
  <2>4. c[k - 1] = joined[k - 1]
    BY <2>1, <1>7
  <2> QED BY <2>1, <2>2, <2>3, <2>4
<1>8. d \in T
  <2> HIDE DEF T
  <2> QED BY <1>1, <1>6, <1>7, SetInduction
<1> QED BY <1>1, <1>4, <1>8

\* What is given of a message is its beginning.
LEMMA SentIs ==
  ASSUME NEW m \in 1 .. Messages, NEW q \in 0 .. Lengths[m]
  PROVE  /\ SubSeq(Message(m), 1, q) \in Seq(Bytes) /\ Len(SubSeq(Message(m), 1, q)) = q
         /\ \A i \in 1 .. q : SubSeq(Message(m), 1, q)[i] = <<m, i>>
<1>1. PICK l \in Nat : l = Lengths[m]
  BY MessagesFact
<1>2. \A i \in 1 .. q : i \in 1 .. l /\ 1 + i - 1 = i
  BY <1>1
<1>3. \A i \in 1 .. q : Message(m)[i] = <<m, i>> /\ Message(m)[i] \in Bytes
  BY <1>1, <1>2, MessageFact, ElementOfSeq
<1>4. 1 \in Int /\ q \in Int /\ q - 1 + 1 = q /\ (IF 1 <= q THEN q ELSE 0) = q
  BY <1>1
<1>5. /\ SubSeq(Message(m), 1, q) \in Seq(Bytes)
      /\ Len(SubSeq(Message(m), 1, q)) = q
      /\ \A i \in 1 .. q : SubSeq(Message(m), 1, q)[i] = Message(m)[1 + i - 1]
  BY <1>3, <1>4, SubSeqProperties
<1>6. \A i \in 1 .. q : SubSeq(Message(m), 1, q)[i] = <<m, i>>
  BY <1>2, <1>3, <1>5
<1> QED BY <1>5, <1>6

\* Two pieces of the whole, one behind the other, are a piece of it.
IsPiece(s, from, n) ==
  /\ s \in Seq(Bytes) /\ Len(s) = n
  /\ \A i \in 1 .. n : s[i] = whole[from + i]
LEMMA PiecesJoin ==
  ASSUME NEW s, NEW t, NEW m \in Nat, NEW n \in Nat,
         IsPiece(s, 0, m), IsPiece(t, m, n)
  PROVE  IsPiece(s \o t, 0, m + n)
<1>1. /\ s \o t \in Seq(Bytes) /\ Len(s \o t) = m + n
      /\ \A i \in 1 .. m + n : (s \o t)[i] = IF i <= m THEN s[i] ELSE t[i - m]
  BY ConcatProperties, ZenonT(30) DEF IsPiece
<1>2. ASSUME NEW i \in 1 .. m + n PROVE (s \o t)[i] = whole[0 + i]
  <2>1. CASE i <= m
    <3>1. i \in 1 .. m
      BY <2>1
    <3> QED BY <2>1, <3>1, <1>1 DEF IsPiece
  <2>2. CASE ~(i <= m)
    <3>1. PICK j \in 1 .. n : j = i - m /\ m + j = i
      BY <2>2
    <3> QED BY <2>2, <3>1, <1>1 DEF IsPiece
  <2> QED BY <2>1, <2>2
<1> QED BY <1>1, <1>2 DEF IsPiece

\* The bytes received and under way are those given, on a link that was not
\* reset.
LEMMA NothingSkippedFromInv ==
  ASSUME TransferInv PROVE NothingSkipped
<1> DEFINE sent == IF sender = "sending" \/ sender = "failed"
                   THEN SubSeq(Message(done + 1), 1, Lengths[done + 1] - data_len)
                   ELSE <<>>
           cat == CHOOSE g : g = [k \in 0 .. done |->
                                    IF k = 0 THEN <<>> ELSE g[k - 1] \o Message(k)]
           have == CHOOSE g : g = [k \in 0 .. Len(got) |->
                                    IF k = 0 THEN <<>> ELSE g[k - 1] \o got[k]]
<1>1. cat[done] = joined[done]
  <2>1. done \in 0 .. Messages
    BY DEF TransferInv, SenderInv
  <2> QED BY <2>1, JoiningIs DEF Joining
<1>2. have[Len(got)] = joined[Len(got)]
  <2>1. Len(got) \in 0 .. Messages
    BY NumberFacts
  <2>2. \A k \in 0 .. Len(got) : k # 0 => got[k] = Message(k)
    <3>1. \A k \in 0 .. Len(got) : k # 0 => k \in 1 .. Len(got)
      BY <2>1
    <3> QED BY <3>1 DEF TransferInv, ReceiverInv
  <2>3. ASSUME NEW g
        PROVE  [k \in 0 .. Len(got) |-> IF k = 0 THEN <<>> ELSE g[k - 1] \o got[k]] =
               [k \in 0 .. Len(got) |-> IF k = 0 THEN <<>> ELSE g[k - 1] \o Message(k)]
    BY <2>2
  <2>4. have = Joining(Len(got))
    BY <2>3 DEF Joining
  <2> QED BY <2>1, <2>4, JoiningIs
<1>3. ASSUME link # "reset"
      PROVE  (joined[Len(got)] \o recv_buf) \o chan = joined[done] \o sent
  <2>1. PICK g \in 0 .. Messages, d \in 0 .. Messages :
          g = Len(got) /\ d = done
    BY NumberFacts DEF TransferInv, SenderInv
  <2>2. PICK b \in Nat, r \in Nat, c \in Nat, e \in Nat, q \in Nat :
          /\ b = Before(g) /\ r = Len(recv_buf) /\ c = Len(chan)
          /\ e = Before(d) /\ q = Given
    BY <2>1, NumberFacts
  <2>3. b + r + c = e + q
    BY <1>3, <2>1, <2>2 DEF TransferInv, ChannelInv
  <2>4. /\ joined[g] \in Seq(Bytes) /\ Len(joined[g]) = b
        /\ joined[d] \in Seq(Bytes) /\ Len(joined[d]) = e
        /\ \A i \in 1 .. b : joined[g][i] = whole[i]
        /\ \A i \in 1 .. e : joined[d][i] = whole[i]
    BY <2>2, JoinedStep, JoinedBegins DEF Before
  <2>5. sent \in Seq(Bytes) /\ Len(sent) = q /\ \A i \in 1 .. q : sent[i] = whole[e + i]
    <3>1. CASE sender = "sending" \/ sender = "failed"
      <4>1. PICK m \in 1 .. Messages : m = d + 1 /\ m - 1 = d
        BY <3>1, <2>1, MessagesFact DEF TransferInv, SenderInv
      <4>2. q = Lengths[m] - data_len /\ data_len \in 1 .. Lengths[m]
            /\ Lengths[m] \in Nat
        BY <3>1, <4>1, <2>1, <2>2, MessagesFact DEF Given, TransferInv, SenderInv
      <4>3. q \in 0 .. Lengths[m] /\ \A i \in 1 .. q : i \in 1 .. Lengths[m]
        BY <4>2
      <4>4. sent = SubSeq(Message(m), 1, q)
        BY <3>1, <4>1, <4>2, <2>1
      <4> HIDE DEF sent
      <4>5. sent \in Seq(Bytes) /\ Len(sent) = q /\ \A i \in 1 .. q : sent[i] = <<m, i>>
        BY <4>3, <4>4, SentIs
      <4>6. \A i \in 1 .. q : whole[e + i] = <<m, i>>
        BY <4>1, <4>3, <2>2, WholeAt
      <4> QED BY <4>5, <4>6
    <3>2. CASE ~(sender = "sending" \/ sender = "failed")
      <4>1. sent = <<>> /\ q = 0
        BY <3>2, <2>2 DEF Given
      <4> HIDE DEF sent
      <4> QED BY <4>1, EmptySeq
    <3> QED BY <3>1, <3>2
  <2> HIDE DEF sent
  <2>6. /\ recv_buf \in Seq(Bytes) /\ chan \in Seq(Bytes)
        /\ \A i \in 1 .. c : chan[i] = whole[b + r + i]
    BY <2>1, <2>2 DEF TransferInv, ReceiverInv, ChannelInv
  <2>7. \A i \in 1 .. r : recv_buf[i] = whole[b + i]
    <3>1. CASE receiver = "idle"
      <4>1. r = 0
        BY <3>1, <2>2, EmptySeq DEF TransferInv, ReceiverInv
      <4> QED BY <4>1
    <3>2. CASE receiver # "idle"
      <4>1. PICK m \in 1 .. Messages : m = g + 1 /\ m - 1 = g
        BY <3>2, <2>1, MessagesFact DEF TransferInv, ReceiverInv
      <4>2. r < Lengths[m] /\ Lengths[m] \in Nat /\ \A i \in 1 .. r : recv_buf[i] = <<m, i>>
        BY <3>2, <4>1, <2>1, <2>2, MessagesFact DEF TransferInv, ReceiverInv
      <4>3. \A i \in 1 .. r : i \in 1 .. Lengths[m]
        BY <4>2
      <4> QED BY <4>1, <4>2, <4>3, <2>2, WholeAt
    <3> QED BY <3>1, <3>2
  <2>8. /\ IsPiece(joined[g], 0, b) /\ IsPiece(recv_buf, b, r) /\ IsPiece(chan, b + r, c)
        /\ IsPiece(joined[d], 0, e) /\ IsPiece(sent, e, q)
    <3>1. \A i \in Nat : 0 + i = i
      OBVIOUS
    <3> QED BY <2>2, <2>4, <2>5, <2>6, <2>7, <3>1 DEF IsPiece
  <2>9. PICK x : x = joined[g] \o recv_buf
    OBVIOUS
  <2>10. IsPiece(x, 0, b + r) /\ b + r \in Nat
    BY <2>8, <2>9, PiecesJoin
  <2>11. IsPiece(x \o chan, 0, b + r + c)
    BY <2>8, <2>10, PiecesJoin
  <2>12. IsPiece(joined[d] \o sent, 0, e + q)
    BY <2>8, PiecesJoin
  <2>13. x \o chan = joined[d] \o sent
    BY <2>3, <2>11, <2>12, SeqEqual DEF IsPiece
  <2> QED BY <2>1, <2>9, <2>13
<1> HIDE DEF sent, cat, have
<1>4. link # "reset" => have[Len(got)] \o recv_buf \o chan = cat[done] \o sent
  BY <1>1, <1>2, <1>3
<1> QED BY <1>4 DEF NothingSkipped, sent, cat, have

\* The state keeps its type, and a connection holds no more than its room.
THEOREM TransferTypeCorrect == TransferSpec => []TransferTypeOK
<1>1. TransferInv => TransferTypeOK
  BY DEF TransferInv, SenderInv, ReceiverInv, ChannelInv, TransferTypeOK, Messages
<1> QED BY <1>1, TransferInvariant, PTL

\* Every message that a call reports is whole and the next one; a sender told 0
\* has given away every byte; the end of the stream comes after all of it
\* (net_api.c:436-497, 584-654, 916-1030).
THEOREM MessagesArrive == TransferSpec => []TransferExact
<1>1. TransferInv => TransferExact
  <2> SUFFICES ASSUME TransferInv PROVE TransferExact
    OBVIOUS
  <2>1. MessagesIntact
    BY DEF TransferInv, ReceiverInv, MessagesIntact
  <2>2. EndIsTheEnd
    BY DEF TransferInv, ReceiverInv, EndIsTheEnd
  <2> QED BY <2>1, <2>2, NothingSkippedFromInv DEF TransferExact
<1> QED BY <1>1, TransferInvariant, PTL
=============================================================================
