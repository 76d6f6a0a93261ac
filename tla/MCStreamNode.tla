---------------------------- MODULE MCStreamNode ----------------------------
(***************************************************************************)
(* Instances of StreamNode for TLC.                                        *)
(***************************************************************************)
EXTENDS StreamNode

\* every call asks for the same stream
MCOneKey == [k \in Calls |-> CHOOSE s \in Keys : TRUE]

\* calls that ask for one stream can be exchanged
MCSymmetry == Permutations(Calls)

\* as many streams as calls
MCOwnKey == CHOOSE f \in [Calls -> Keys] : \A k, l \in Calls : k # l => f[k] # f[l]
=============================================================================
