----------------------------- MODULE NumberSets -----------------------------
(***************************************************************************)
(* Sets of places in a sequence: the first, the last, and the how-many-th. *)
(***************************************************************************)
EXTENDS Integers, FiniteSets

LastOf(S)  == CHOOSE i \in S : \A j \in S : j <= i
FirstOf(S) == CHOOSE i \in S : \A j \in S : i <= j

\* i is the first, second, ... of S
Place(S, i) == Cardinality({k \in S : k <= i})
=============================================================================
