------------------------------ MODULE SdpOffer ------------------------------
(***************************************************************************)
(* The offer of an INVITE: sdp_parse reads it line by line (sdp.c),        *)
(* parase_invite takes from the result what the server needs to know       *)
(* (sip.c).                                                                *)
(*                                                                         *)
(* A line is a record: its type, whether it has the words its type asks    *)
(* for, and what they say.  Lines that may come more than once go to a     *)
(* list whose first entries are in the structure and the others on the     *)
(* heap, which grows by a fixed number of entries.  r= and z= lines are    *)
(* left out.                                                               *)
(***************************************************************************)
EXTENDS NumberSets, Sequences

CONSTANTS
  Lines,       \* the lines an offer is made of
  NInline,     \* entries of a list in the structure: 1, 5 for a=, 3 for m=
  Grow,        \* 8
  FmtTokens,   \* 13: format words sdp_parse_media reads into one variable
  MaxLines,    \* bound: lines of an offer
  NULL

ASSUME OfferAssumption ==
  /\ NInline \in Nat \ {0} /\ Grow \in Nat \ {0} /\ FmtTokens \in Nat
  /\ MaxLines \in Nat /\ NULL \notin Lines

VARIABLES
  text,      \* the lines read so far
  reading,   \* parse, cut, aborted, crashed, read
  sdp,       \* struct sdp_t
  devInfo,   \* SIP_DEV_ARGS_OBJ
  leaked     \* lists whose heap entries nobody freed

offerAll == <<text, reading, sdp, devInfo, leaked>>

-----------------------------------------------------------------------------
\* A list: the pattern of every container of sdp.c

EmptyList == [count |-> 0, own |-> <<>>, ptr |-> <<>>, capacity |-> 0]

FullLate(l) ==                             \* mutant: one entry too late
  l.count - NInline > l.capacity
Full(l) == l.count - NInline >= l.capacity
Capacity1(l) == IF Full(l) THEN l.capacity + Grow ELSE l.capacity
PutLast(l, x) ==
  IF l.count >= NInline
  THEN [l EXCEPT !.capacity = Capacity1(l),
                 !.ptr = [i \in 1 .. Capacity1(l) |->
                            IF i = l.count - NInline + 1 THEN x
                            ELSE IF i \in DOMAIN l.ptr THEN l.ptr[i] ELSE NULL],
                 !.count = l.count + 1]
  ELSE [l EXCEPT !.own = Append(l.own, x), !.count = l.count + 1]

\* the entry with index i, from 1
Entry(l, i) == IF i <= NInline THEN l.own[i] ELSE l.ptr[i - NInline]

SetFirst(l, x) == [l EXCEPT !.own[1] = x]  \* mutant: always the first one
SetLast(l, x) ==
  IF l.count <= NInline THEN [l EXCEPT !.own[l.count] = x]
  ELSE [l EXCEPT !.ptr[l.count - NInline] = x]

-----------------------------------------------------------------------------
\* sdp_parse

NewMedia(l) ==
  [line |-> l, i |-> NULL, k |-> NULL,
   c |-> EmptyList, b |-> EmptyList, a |-> EmptyList]

OfferInit ==
  /\ text = <<>> /\ reading = "parse"
  /\ sdp = [v |-> NULL, o |-> NULL, s |-> NULL, i |-> NULL,
            u |-> NULL, c |-> NULL, k |-> NULL, y |-> NULL,
            e |-> EmptyList, p |-> EmptyList, b |-> EmptyList,
            t |-> EmptyList, a |-> EmptyList, m |-> EmptyList]
  /\ devInfo = [sn |-> NULL, pushIp |-> NULL, ssrc |-> NULL,
                pushPort |-> 0, source |-> <<NULL, NULL, NULL>>, stream |-> 0]
  /\ leaked = {}

SessionFieldsRfc ==                        \* mutant: without the y= of GB28181
  {"v", "o", "s", "i", "u", "c", "k"}
SessionFields == {"v", "o", "s", "i", "u", "c", "k", "y"}
SessionLists  == {"e", "p", "b", "t", "a"}
MediaFields   == {"i", "k"}
MediaLists    == {"a", "b", "c"}
Types == SessionFields \cup SessionLists \cup {"m"}

LastMedia == Entry(sdp.m, sdp.m.count)

\* a line that a media may have belongs to the media read last, if any
ToSession(t) ==
  \/ t \notin MediaFields \cup MediaLists
  \/ sdp.m.count = 0

\* the next line of the offer, with the words it must have
Read(l) ==
  /\ reading = "parse" /\ Len(text) < MaxLines
  /\ text' = Append(text, l)
  /\ UNCHANGED <<devInfo, leaked>>

\* the last line of a kind counts; a second u= is an assertion
SessionField(l) ==
  /\ l.t \in SessionFields /\ ToSession(l.t) /\ l.ok
  /\ l.t = "u" => sdp.u = NULL
  /\ Read(l)
  /\ sdp' = [sdp EXCEPT ![l.t] = l]
  /\ UNCHANGED reading

SessionList(l) ==
  /\ l.t \in SessionLists /\ ToSession(l.t) /\ l.ok
  /\ Read(l)
  /\ sdp' = [sdp EXCEPT ![l.t] = PutLast(@, l)]
  /\ UNCHANGED reading

MediaField(l) ==
  /\ l.t \in MediaFields /\ ~ToSession(l.t) /\ l.ok
  /\ Read(l)
  /\ sdp' = [sdp EXCEPT !.m = SetLast(@, [LastMedia EXCEPT ![l.t] = l])]
  /\ UNCHANGED reading

MediaList(l) ==
  /\ l.t \in MediaLists /\ ~ToSession(l.t) /\ l.ok
  /\ Read(l)
  /\ LET m == [LastMedia EXCEPT ![l.t] = PutLast(@, l)]
     IN  sdp' = [sdp EXCEPT !.m = SetLast(@, m)]
  /\ UNCHANGED reading

\* with more formats than that, the end of a word is written over the next
\* character to be read, and the rest of the offer is not seen
Media(l) ==
  /\ l.t = "m" /\ l.ok /\ Read(l)
  /\ sdp' = [sdp EXCEPT !.m = PutLast(@, NewMedia(l))]
  /\ reading' = IF l.formats > FmtTokens THEN "cut" ELSE "parse"

\* assert(0) on a line of another type, and assert(!sdp->u)
Abort(l) ==
  /\ \/ l.t \notin Types
     \/ l.t = "u" /\ sdp.u # NULL
  /\ Read(l)
  /\ reading' = "aborted"
  /\ UNCHANGED sdp

\* sdp_parse returns NULL, and sdp_media_count reads through it
Refused(l) ==
  /\ l.t \in Types /\ ~(l.t = "u" /\ sdp.u # NULL)
  /\ ~l.ok /\ Read(l)
  /\ reading' = "crashed"
  /\ UNCHANGED sdp

-----------------------------------------------------------------------------
\* parase_invite, with the result of sdp_parse

\* sdp_media_attribute_find
Hits(l, name) == {i \in 1 .. l.count : Entry(l, i).name = name}
FoundLast(l, name) ==                      \* mutant: the last one
  IF Hits(l, name) = {} THEN NULL ELSE Entry(l, LastOf(Hits(l, name))).value
AttributeFind(l, name) ==
  IF Hits(l, name) = {} THEN NULL ELSE Entry(l, FirstOf(Hits(l, name))).value

\* sscanf fills as many of address, port and device as the value has; the
\* port is a local variable that starts empty
ScanSource(old, v) ==
  IF v = NULL THEN old
  ELSE <<IF Len(v) >= 1 THEN v[1] ELSE old[1],
         IF Len(v) >= 2 THEN v[2] ELSE NULL,
         IF Len(v) >= 3 THEN v[3] ELSE old[3]>>

\* one turn of the loop over the media descriptions
TakeMedia(d, m) ==
  IF m.line.media # "video" THEN d
  ELSE [d EXCEPT !.pushPort = m.line.port,
                 !.source = ScanSource(@, AttributeFind(m.a, "sms")),
                 !.stream = IF AttributeFind(m.a, "streamMode") = "SUB" THEN 1 ELSE 0]

\* sdp_destroy: the heap entries it leaves
Freed(l) == l.count > NInline
Kept(l) == l.capacity > 0 /\ ~Freed(l)
HeapLeft ==
  LET media == {Entry(sdp.m, j) : j \in 1 .. sdp.m.count}
  IN  {<<"session", f>> : f \in {g \in SessionLists \cup {"m"} : Kept(sdp[g])}}
      \cup {<<"media", f>> : f \in {g \in {"a", "c"} : \E m \in media : Kept(m[g])}}
      \cup {<<"media", "b">> : m \in {x \in media : x.b.capacity > 0}}

\* strncpy from NULL when there is no o= line, or no c= line before the media
Extract ==
  /\ reading \in {"parse", "cut"}
  /\ LET from == [devInfo EXCEPT !.sn = sdp.o, !.pushIp = sdp.c, !.ssrc = sdp.y]
         take[j \in 0 .. sdp.m.count] ==
           IF j = 0 THEN from ELSE TakeMedia(take[j - 1], Entry(sdp.m, j))
     IN  IF sdp.o = NULL \/ sdp.c = NULL
         THEN reading' = "crashed" /\ UNCHANGED <<devInfo, leaked>>
         ELSE reading' = "read" /\ devInfo' = take[sdp.m.count] /\ leaked' = HeapLeft
  /\ UNCHANGED <<text, sdp>>

OfferNext ==
  \/ \E l \in Lines : \/ SessionField(l) \/ SessionList(l)
                      \/ MediaField(l) \/ MediaList(l) \/ Media(l)
                      \/ Abort(l) \/ Refused(l)
  \/ Extract

OfferSpec == OfferInit /\ [][OfferNext]_offerAll

-----------------------------------------------------------------------------
\* Properties

Fits(l) == l.count <= NInline + l.capacity /\ Len(l.ptr) = l.capacity

OfferTypeOK ==
  /\ text \in Seq(Lines) /\ Len(text) <= MaxLines
  /\ reading \in {"parse", "cut", "aborted", "crashed", "read"}
  /\ \A f \in SessionLists \cup {"m"} : Fits(sdp[f])
  /\ \A i \in 1 .. sdp.m.count, f \in MediaLists : Fits(Entry(sdp.m, i)[f])
  /\ leaked \subseteq {<<"media", "b">>}
  /\ devInfo.stream \in {0, 1} /\ DOMAIN devInfo.source = 1 .. 3

\* The offer as it is written: where its media descriptions begin, and the
\* lines of one; 0 is the session
MediaAt == {i \in 1 .. Len(text) : text[i].t = "m"}
Section(i) ==
  {j \in i + 1 .. Len(text) : \A x \in MediaAt : x <= i \/ j < x}
Of(S, t) == {i \in S : text[i].t = t}
Attributes(i, name) == {j \in Of(Section(i), "a") : text[j].name = name}
Videos == {i \in MediaAt : text[i].media = "video"}
\* what a description says of a name first; a flag says nothing
Said(i, name) ==
  IF Attributes(i, name) = {} THEN NULL ELSE text[FirstOf(Attributes(i, name))].value

\* What the server takes from an offer is what the offer says: the address
\* of the session, not of a media; the port and the stream of its last video;
\* the source of its last video that names one.  None of it is mixed up
\* between descriptions, however many lines there are (sip.c:233-298).
OfferUnderstood ==
  reading = "read" =>
    /\ devInfo.pushIp = text[LastOf(Of(Section(0), "c"))]
    /\ devInfo.ssrc =
         LET ys == Of(1 .. Len(text), "y") IN IF ys = {} THEN NULL ELSE text[LastOf(ys)]
    /\ Videos # {} =>
         /\ devInfo.pushPort = text[LastOf(Videos)].port
         /\ devInfo.stream = 1 <=> Said(LastOf(Videos), "streamMode") = "SUB"
    /\ LET named == {v \in Videos : Said(v, "sms") # NULL}
       IN  named # {} =>
             LET sms == Said(LastOf(named), "sms")
             IN  /\ Len(sms) >= 1 => devInfo.source[1] = sms[1]
                 /\ devInfo.source[2] = IF Len(sms) >= 2 THEN sms[2] ELSE NULL

\* the list has the lines of S, in the order of the offer
HoldsLines(l, S) ==
  /\ l.count = Cardinality(S)
  /\ \A i \in S : Entry(l, Place(S, i)) = text[i]

\* Every line that may come more than once is kept with the description it
\* belongs to, in the order of the offer, on whichever side of the border
\* between structure and heap it comes to lie (sdp.c:962-982).
LinesKept ==
  reading \notin {"aborted", "crashed"} =>
    /\ \A f \in SessionLists :
         HoldsLines(sdp[f], Of(IF f \in MediaLists THEN Section(0) ELSE 1 .. Len(text), f))
    /\ sdp.m.count = Cardinality(MediaAt)
    /\ \A i \in MediaAt :
         LET m == Entry(sdp.m, Place(MediaAt, i))
         IN  /\ m.line = text[i]
             /\ \A f \in MediaLists : HoldsLines(m[f], Of(Section(i), f))

GbTypes == {"v", "o", "s", "i", "u", "e", "p", "c", "b", "t", "k", "a", "m", "y"}

\* An offer with the lines the server needs, and only lines the parser knows,
\* does not end the process (sdp.c:1365, sip.c:242).
GoodOfferAnswered ==
  reading \in {"aborted", "crashed"} =>
    \/ \E i \in 1 .. Len(text) : ~text[i].ok \/ text[i].t \notin GbTypes
    \/ \E i, j \in 1 .. Len(text) : i # j /\ text[i].t = "u" /\ text[j].t = "u"
    \/ Of(1 .. Len(text), "o") = {} \/ Of(Section(0), "c") = {}
=============================================================================
