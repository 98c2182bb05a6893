---------------------------- MODULE MCRelayRooms ----------------------------
(* Small instances of RelayRooms for TLC. *)
EXTENDS RelayProperties, TLC

CONSTANTS c1, c2, c3, n1, n2

ThreeConns == {c1, c2, c3}
TwoConns == {c1, c2}
TwoNames == {n1, n2}
OneName == {n1}

\* Connections and names are interchangeable in RelayRooms.
Symmetry == Permutations(ThreeConns) \cup Permutations(TwoNames)

\* At most one client hangs up by itself, and then everybody asks for one name and
\* no room expires but one that the client made.
FewHangUps ==
    \/ gone = {}
    \/ /\ Cardinality(gone) = 1
       /\ Cardinality({name[c] : c \in Conns} \ {None}) <= 1
       /\ expired \subseteq gone
=============================================================================
