--------------------------- MODULE TransportChoice ---------------------------
(***************************************************************************)
(* What a session promises about the transports of its two pages.  Each    *)
(* chooses once, when it has the key: the data channel only if there is    *)
(* one and it has not fallen back, the relay only if it has.  A page falls *)
(* back because it gave up by itself or because the other one had fallen   *)
(* back before, and never once it has chosen the data channel.             *)
(***************************************************************************)

VARIABLES keyed,     \* the pages that have the session key
          joined,    \* the two peer connections have reached each other
          gaveUp,    \* the pages that fell back by themselves
          fallen,    \* the pages that fell back
          chosen     \* the transport of each page

vars == <<keyed, joined, gaveUp, fallen, chosen>>

Pages == {"sender", "receiver"}
Other(p) == IF p = "sender" THEN "receiver" ELSE "sender"

Init ==
    /\ keyed = {}
    /\ joined = FALSE
    /\ gaveUp = {}
    /\ fallen = {}
    /\ chosen = [p \in Pages |-> "none"]

\* The receiver is the first to have the key.
GetKey(p) ==
    /\ p = "sender" => "receiver" \in keyed
    /\ keyed' = keyed \cup {p}
    /\ UNCHANGED <<joined, gaveUp, fallen, chosen>>

Join ==
    /\ keyed = Pages
    /\ joined' = TRUE
    /\ UNCHANGED <<keyed, gaveUp, fallen, chosen>>

\* A page that knows at once that it will not connect chooses at once.
FallBack(p) ==
    /\ p \in keyed
    /\ chosen[p] # "p2p"
    /\ \/ gaveUp' = gaveUp \cup {p}
       \/ Other(p) \in fallen /\ UNCHANGED gaveUp
    /\ fallen' = fallen \cup {p}
    /\ \/ UNCHANGED chosen
       \/ chosen[p] = "none" /\ chosen' = [chosen EXCEPT ![p] = "relay"]
    /\ UNCHANGED <<keyed, joined>>

Choose(p) ==
    /\ p \in keyed
    /\ chosen[p] = "none"
    /\ p \in fallen \/ joined
    /\ chosen' = [chosen EXCEPT ![p] = IF p \in fallen THEN "relay" ELSE "p2p"]
    /\ UNCHANGED <<keyed, joined, gaveUp, fallen>>

Next == Join \/ \E p \in Pages : GetKey(p) \/ FallBack(p) \/ Choose(p)

Spec == Init /\ [][Next]_vars

=============================================================================
