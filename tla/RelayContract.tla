---------------------------- MODULE RelayContract ----------------------------
(***************************************************************************)
(* What the relay promises its clients, with nothing said of rooms, locks, *)
(* goroutines or sweeps: clients that ask for the same room name are       *)
(* matched two by two, a match is for life, and payload travels only       *)
(* between the two clients of a match.  RelayRooms implements it.          *)
(***************************************************************************)

CONSTANTS Conns,   \* client connections
          Names,   \* room names (hashes of pass codes)
          None

VARIABLES phase,   \* what the relay owes each connection
          wish,    \* the room name each connection asked for
          mate,    \* whom each connection was matched with
          heard    \* the connections whose payload reached each connection

vars == <<phase, wish, mate, heard>>

Phases == {"away", "seeking", "paired", "closed"}

TypeOK ==
    /\ phase \in [Conns -> Phases]
    /\ wish \in [Conns -> Names \cup {None}]
    /\ mate \in [Conns -> Conns \cup {None}]
    /\ heard \in [Conns -> SUBSET Conns]

Init ==
    /\ phase = [c \in Conns |-> "away"]
    /\ wish = [c \in Conns |-> None]
    /\ mate = [c \in Conns |-> None]
    /\ heard = [c \in Conns |-> {}]

Seek(c, n) ==
    /\ phase[c] = "away"
    /\ phase' = [phase EXCEPT ![c] = "seeking"]
    /\ wish' = [wish EXCEPT ![c] = n]
    /\ UNCHANGED <<mate, heard>>

Match(c, d) ==
    /\ c # d
    /\ phase[c] = "seeking"
    /\ phase[d] = "seeking"
    /\ wish[c] = wish[d]
    /\ phase' = [phase EXCEPT ![c] = "paired", ![d] = "paired"]
    /\ mate' = [mate EXCEPT ![c] = d, ![d] = c]
    /\ UNCHANGED <<wish, heard>>

Carry(c, d) ==
    /\ mate[c] = d
    /\ phase[d] = "paired"
    /\ heard' = [heard EXCEPT ![d] = @ \cup {c}]
    /\ UNCHANGED <<phase, wish, mate>>

Drop(S) ==
    /\ phase' = [c \in Conns |-> IF c \in S THEN "closed" ELSE phase[c]]
    /\ UNCHANGED <<wish, mate, heard>>

Next ==
    \/ \E c \in Conns, n \in Names : Seek(c, n)
    \/ \E c, d \in Conns : Match(c, d)
    \/ \E c, d \in Conns : Carry(c, d)
    \/ \E S \in SUBSET Conns : Drop(S)

Spec == Init /\ [][Next]_vars
=============================================================================
