---------------------------- MODULE MCComponents ----------------------------
(***************************************************************************)
(* The components that share no state with each other, checked in one run: *)
(* which is the component that moves, the others stay in their initial     *)
(* states.                                                                 *)
(***************************************************************************)
EXTENDS BoundedFifo, ClientList, FrameClock, SendPath, PortSearch, SdpOffer,
        TcpTransfer, ConfigFile, StreamIntake

VARIABLE which

MCLines ==
  {[t |-> "o", ok |-> TRUE], [t |-> "c", ok |-> TRUE, v |-> 1],
   [t |-> "c", ok |-> TRUE, v |-> 2], [t |-> "y", ok |-> TRUE],
   [t |-> "y", ok |-> FALSE], [t |-> "b", ok |-> TRUE],
   [t |-> "u", ok |-> TRUE], [t |-> "f", ok |-> TRUE],
   [t |-> "m", ok |-> TRUE, media |-> "video", port |-> 1, formats |-> 2],
   [t |-> "m", ok |-> TRUE, media |-> "video", port |-> 2, formats |-> 4],
   [t |-> "m", ok |-> TRUE, media |-> "audio", port |-> 3, formats |-> 2],
   [t |-> "a", ok |-> TRUE, name |-> "sms", value |-> <<"ip1", "port1", "dev1">>],
   [t |-> "a", ok |-> TRUE, name |-> "sms", value |-> <<"ip2">>],
   [t |-> "a", ok |-> TRUE, name |-> "sms", value |-> NULL],
   [t |-> "a", ok |-> TRUE, name |-> "streamMode", value |-> "SUB"]}

MCLengths == <<2, 3, 2>>

MCDefaultOf == [name \in SettingNames |-> IF name = "UseRtcp" THEN 0 ELSE 100]

Setting(k, set, v) == [kind |-> "key", name |-> k, set |-> set, value |-> v]
MCConfigLines ==
  {[kind |-> "section", name |-> "SERVER_CONFIG"],
   [kind |-> "section", name |-> "BOX_CONFIG"], [kind |-> "comment"],
   Setting("UseRtcp", TRUE, 1), Setting("UseRtcp", FALSE, 2),
   Setting("MaxConnections", TRUE, 500), Setting("MaxConnections", TRUE, 0),
   Setting("MaxConnections", TRUE, NoValue)}

Says(t, f, blocks, s) == [type |-> t, frame |-> f, blocks |-> blocks, success |-> s]
MCReplies ==
  {Says(12, 0, <<1>>, <<1, 1>>), Says(12, 0, <<2>>, <<0, 0>>),
   Says(12, 0, <<1, 1>>, <<2, 1>>)}
MCFrames ==
  {Says(13, 1, <<2, 1>>, <<0, 0>>), Says(13, 1, <<1>>, <<0, 0>>),
   Says(13, 0, <<1>>, <<0, 0>>), Says(13, 4, <<2>>, <<0, 0>>),
   Says(12, 0, <<1>>, <<0, 0>>), Says(13, 2, <<1>>, <<0, 0>>)}

Still(w, name, vars_) == IF w = name THEN TRUE ELSE UNCHANGED vars_

Only(w, next_) ==
  /\ which = w /\ UNCHANGED which
  /\ next_
  /\ Still(w, "fifo", vars)
  /\ Still(w, "list", listAll)
  /\ Still(w, "clock", clockAll)
  /\ Still(w, "path", pathAll)
  /\ Still(w, "ports", portsAll)
  /\ Still(w, "offer", offerAll)
  /\ Still(w, "tcp", transferAll)
  /\ Still(w, "config", configAll)
  /\ Still(w, "intake", intakeAll)

MCInit ==
  /\ which \in {"fifo", "list", "clock", "path", "ports", "offer", "tcp", "config",
              "intake"}
  /\ Init /\ ListInit /\ ClockInit /\ PathInit /\ PortsInit /\ OfferInit
  /\ TransferInit /\ ConfigInit /\ IntakeInit
  /\ which # "ports" => ~useRtcp
  /\ which # "tcp" => waiting = "epoll"

MCNext ==
  \/ Only("fifo", Next)
  \/ Only("list", ListNext)
  \/ Only("clock", ClockNext)
  \/ Only("path", PathNext)
  \/ Only("ports", PortsNext)
  \/ Only("offer", OfferNext)
  \/ Only("tcp", TransferNext)
  \/ Only("config", ConfigNext)
  \/ Only("intake", IntakeNext)

MCAll == <<which, vars, listAll, clockAll, pathAll, portsAll, offerAll,
           transferAll, configAll, intakeAll>>

\* the search for a port is a loop of the event thread
MCSpec ==
  /\ MCInit /\ [][MCNext]_MCAll
  /\ WF_portsAll(Only("ports", Search))

-----------------------------------------------------------------------------
\* Every variable keeps its type: walk and buffer indices stay within what
\* they index, ports and sequence numbers within their width, lists within
\* their capacity, and of an offer only the bandwidths of a media are left on
\* the heap (sdp.c:1251).
TypesOK ==
  /\ TypeOK /\ ListTypeOK /\ ClockTypeOK /\ PathTypeOK
  /\ PortsTypeOK /\ OfferTypeOK /\ TransferTypeOK /\ ConfigTypeOK
  /\ IntakeTypeOK
=============================================================================
