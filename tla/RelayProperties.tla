--------------------------- MODULE RelayProperties ---------------------------
(* What RelayRooms is checked and proved to do. *)
EXTENDS RelayRooms

-----------------------------------------------------------------------------
(* Safety *)

\* getOrCreateRoom checks the limit and inserts under one lock: there are never
\* more rooms in the map than the configured maximum (main.go:211).
RoomLimit == Cardinality(Mapped) <= MaxRooms

\* A client is told of its peer before the first byte of that peer reaches it:
\* pipeConnections starts only after the second client's handler has written
\* both "paired" frames (main.go:415-425).
NoDataBeforePaired ==
    \A c \in Conns : heard[c] # {} => Told(c, "paired") \/ Told(c, "garbled")

\* "closed when second client arrives" (main.go:41): while a room has not
\* expired, ready means two different clients sit in it, each told that it is
\* paired or disconnected meanwhile.
ReadyMeansPaired ==
    \A r \in Conns : ready[r] /\ r \notin expired =>
        /\ first[r] # None /\ second[r] # None
        /\ first[r] # second[r]
        /\ \A c \in {first[r], second[r]} :
              Open(c) => Told(c, "paired") \/ Told(c, "garbled")

\* "pipeConnections owns the reader" (main.go:278): outside expired rooms at
\* most one goroutine reads a connection.
SingleReader ==
    \A c, d, src \in Conns :
        c # d /\ pipes[c][src] # None /\ pipes[d][src] # None
            => {room[c], room[d]} \cap expired # {}

\* "closed when pipeConnections finishes" (main.go:42): once done is closed in a
\* room that has not expired, both of its connections are closed, so the second
\* client's handler that wakes on it leaves no open connection behind.
DoneMeansClosed ==
    \A r \in Conns : done[r] /\ r \notin expired =>
        \A c \in {first[r], second[r]} : ~Open(c)

\* No handler returns and leaves its connection open with nobody reading it,
\* unless the client joined a room that expired (main.go:404-407, 434-439).
NobodyAbandoned ==
    \A c \in Conns : pc[c] = "exit" /\ Open(c) => room[c] \in expired

-----------------------------------------------------------------------------
(* The relay implements the matchmaker of RelayContract: whatever the locks, *)
(* the timers and the sweeps do, payload crosses only between the two        *)
(* clients of one pair, a pair asked for one name, and no client is ever     *)
(* paired twice.                                                             *)

Phase(c) ==
    CASE sock[c] = "unused" -> "away"
      [] sock[c] = "closed" -> "closed"
      [] sock[c] = "open" /\ mate[c] # None -> "paired"
      [] OTHER -> "seeking"

phase == [c \in Conns |-> Phase(c)]

Contract == INSTANCE RelayContract WITH wish <- name

\* The specification of RelayContract, under that mapping (main.go:324-440).
ImplementsContract == Contract!Spec

-----------------------------------------------------------------------------
(* Liveness *)

\* A handler died of overlapping writes and took Room.mu with it.
Wedged == \E r \in Conns : mu[r] # None /\ pc[mu[r]] = "crashed"

\* c's handler pipes src to dst, and src is gone.
LostIn(c, src, dst) ==
    pipes[c][src] = dst /\ src \in gone

\* When one client of a running pipe hangs up, the relay disconnects the other
\* one: each forwarder closes its destination on the way out (main.go:302).
HangupReachesPeer ==
    \A src, dst \in Conns :
        (\E c \in Conns : LostIn(c, src, dst)) ~> ~Open(dst)

\* It also ends the room: both forwarders stop, the first client's handler
\* closes done and returns, and the second one's returns (main.go:318-432).
HangupEndsRoom ==
    \A c \in Conns :
        (\E src, dst \in Conns : LostIn(c, src, dst))
            ~> \/ /\ pc[c] = "exit"
                  /\ room[c] \in {r \in Conns : done[r]}
                  /\ \A d \in Conns : pc[d] = "waitDone" => room[d] # room[c]
               \/ pc[c] = "crashed"
               \/ Wedged

\* A client that waits alone in a mapped room does not wait for ever: it is
\* paired, or the inactivity sweep wakes its handler (main.go:252-275), or the
\* room is taken out of the map by someone else.
IdleWaiterReleased ==
    \A c \in Conns :
        (pc[c] = "wait" /\ rooms[name[c]] = room[c])
            ~> (pc[c] # "wait" \/ Wedged
                \/ (rooms[name[c]] # room[c] /\ room[c] \notin stale \cup expired))

\* cleanupLoop always finishes the sweep it began, and so gives back Relay.mu
\* that every join needs (main.go:257-268), unless a writer died.
SweepEnds == sweeping ~> (~sweeping \/ Wedged)

-----------------------------------------------------------------------------
(* What the repository says and the code does not do.                        *)

\* README.md:3: sender and receiver are paired by their pass code.  A client
\* that waits in a room can be found by the client that asks for its name.
WaiterReachable ==
    \A c \in Conns :
        pc[c] = "wait" /\ Open(c) /\ ~ready[room[c]] =>
            rooms[name[c]] = room[c] \/ room[c] \in stale

=============================================================================
