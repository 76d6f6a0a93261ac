---------------------------- MODULE MCSipSession ----------------------------
(***************************************************************************)
(* Instances of SipSession for TLC.                                        *)
(***************************************************************************)
EXTENDS SipSession

World(l, b, r, t) == [late |-> l, breaks |-> b, rtcp |-> r, together |-> t]

\* datagrams in order with RTCP, each thing failing or not; or a network that
\* repeats and reorders, with nothing failing
MCWorlds ==
  {World(FALSE, b, TRUE, t) : b, t \in BOOLEAN} \cup {World(TRUE, FALSE, FALSE, FALSE)}

MCBreaks == {World(FALSE, TRUE, FALSE, FALSE)}
MCLate   == {World(TRUE, FALSE, FALSE, FALSE)}
=============================================================================
