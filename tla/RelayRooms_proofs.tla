-------------------------- MODULE RelayRooms_proofs --------------------------
(***************************************************************************)
(* What the relay does for any number of connections, any room names and   *)
(* any room limit.                                                         *)
(***************************************************************************)
EXTENDS RelayProperties, FiniteSetTheorems, TLAPS

-----------------------------------------------------------------------------
(* The inductive invariant, one part per question a step can ask.            *)

\* The process died: no goroutine takes a step any more.
Down == \A c \in Conns : pc[c] = "crashed"

\* What a handler holds at each of its steps, and what a sweep has yet to do.
Located ==
    /\ \A c \in Conns :
          /\ pc[c] \notin {"new", "exit", "crashed"} => name[c] # None
          /\ pc[c] \notin {"new", "lookup", "exit", "crashed"} => room[c] # None
          /\ pc[c] = "new" => sock[c] = "unused" /\ name[c] = None
          /\ pc[c] \in {"lookup", "enter"} => Open(c)
          /\ sock[c] = "unused" => pc[c] \in {"new", "crashed"}
    /\ \A n \in todo : rooms[n] # None
    /\ ~sweeping => todo = {}

\* A room is mapped, entered and left under one name.
Named ==
    /\ \A n \in Names : rooms[n] # None => name[rooms[n]] = n
    /\ \A c \in Conns : room[c] # None => name[c] # None /\ name[room[c]] = name[c]

\* Who sits in a room entered it, and the seats are taken in order.
Seated ==
    \A r \in Conns :
        /\ \A c \in {first[r], second[r]} \ {None} :
              /\ room[c] = r
              /\ sock[c] # "unused"
              /\ pc[c] \notin {"new", "lookup", "enter"}
        /\ second[r] # None => first[r] # None /\ first[r] # second[r]

\* The two clients of a room are each other's mates, for life.
Mated ==
    /\ \A r \in Conns :
          IF second[r] = None
          THEN first[r] # None => mate[first[r]] = None /\ (Open(first[r]) \/ Down)
          ELSE mate[first[r]] = second[r] /\ mate[second[r]] = first[r]
    /\ \A c \in Conns :
          mate[c] # None => /\ mate[mate[c]] = c
                            /\ mate[c] # c
                            /\ pc[c] \notin {"new", "lookup", "enter"}
    /\ \A c, s \in Conns : pipes[c][s] # None => mate[s] = pipes[c][s]

SeatInv == TypeOK /\ Located /\ Named /\ Seated /\ Mated

\* Writing a control frame yields sequences of control frames.
LEMMA WriteType ==
    ASSUME TypeOK, NEW c, NEW m \in Frames
    PROVE  Write(c, m) \in [Conns -> Seq(Frames)]
<1>1. CASE Open(c) /\ c \in Conns
  <2>1. Append(out[c], m) \in Seq(Frames)
    BY <1>1 DEF TypeOK
  <2>2. QED
    BY <1>1, <2>1 DEF TypeOK, Write
<1>2. CASE ~Open(c) \/ c \notin Conns
  BY <1>2 DEF TypeOK, Write
<1>3. QED
  BY <1>1, <1>2

\* Every step of a handler, forwarder or sweep keeps the types and the places: who
\* holds which room, seat, lock and mate.
LEMMA SeatNext ==
    SeatInv /\ [Next]_vars => SeatInv'
<1> SUFFICES ASSUME SeatInv, [Next]_vars PROVE SeatInv'
  OBVIOUS
<1> USE RelayAssumption DEF SeatInv, TypeOK, mapVars, roomVars, connVars, traceVars
<1>1. ASSUME NEW c \in Conns, NEW n \in Names, Join(c, n) PROVE SeatInv'
  <2>1. TypeOK'
    BY <1>1 DEF PCs, Frames, Join, GoTo
  <2>2. Located'
    BY <1>1 DEF Located, Open, Join, GoTo
  <2>3. Named'
    BY <1>1 DEF Located, Named, Join, GoTo
  <2>4. Seated'
    BY <1>1 DEF Located, Seated, Join, GoTo
  <2>5. Mated'
    BY <1>1 DEF Located, Seated, Mated, Down, Open, Join, GoTo
  <2>6. QED
    BY <2>1, <2>2, <2>3, <2>4, <2>5
<1>2. ASSUME NEW c \in Conns, RefuseJoin(c) PROVE SeatInv'
  <2>1. TypeOK'
    BY <1>2 DEF PCs, Frames, RefuseJoin, GoTo
  <2>2. Located'
    BY <1>2 DEF Located, Open, RefuseJoin, GoTo
  <2>3. Named'
    BY <1>2 DEF Located, Named, RefuseJoin, GoTo
  <2>4. Seated'
    BY <1>2 DEF Located, Seated, RefuseJoin, GoTo
  <2>5. Mated'
    BY <1>2 DEF Located, Seated, Mated, Down, Open, RefuseJoin, GoTo
  <2>6. QED
    BY <2>1, <2>2, <2>3, <2>4, <2>5
<1>3. ASSUME NEW c \in Conns, HangUp(c) PROVE SeatInv'
  <2>1. TypeOK'
    BY <1>3 DEF PCs, Frames, HangUp
  <2>2. Located'
    BY <1>3 DEF Located, Open, HangUp
  <2>3. Named'
    BY <1>3 DEF Located, Named, HangUp
  <2>4. Seated'
    BY <1>3 DEF Located, Seated, HangUp
  <2>5. Mated'
    BY <1>3 DEF Located, Seated, Mated, Down, Open, HangUp
  <2>6. QED
    BY <2>1, <2>2, <2>3, <2>4, <2>5
<1>4. ASSUME NEW c \in Conns, FindRoom(c) PROVE SeatInv'
  <2>1. TypeOK'
    BY <1>4 DEF PCs, Frames, Located, FindRoom, Lookup, GoTo
  <2>2. Located'
    BY <1>4 DEF Located, Open, FindRoom, Lookup, GoTo
  <2>3. Named'
    BY <1>4 DEF Located, Named, FindRoom, Lookup, GoTo
  <2>4. Seated'
    BY <1>4 DEF Located, Seated, FindRoom, Lookup, GoTo
  <2>5. Mated'
    BY <1>4 DEF Located, Seated, Mated, Down, Open, FindRoom, Lookup, GoTo
  <2>6. QED
    BY <2>1, <2>2, <2>3, <2>4, <2>5
<1>5. ASSUME NEW c \in Conns, CreateRoom(c) PROVE SeatInv'
  <2>1. TypeOK'
    BY <1>5 DEF PCs, Frames, CreateRoom, Lookup, GoTo
  <2>2. Located'
    BY <1>5 DEF Located, Open, CreateRoom, Lookup, GoTo
  <2>3. Named'
    BY <1>5 DEF Located, Named, CreateRoom, Lookup, GoTo
  <2>4. Seated'
    BY <1>5 DEF Located, Seated, CreateRoom, Lookup, GoTo
  <2>5. Mated'
    BY <1>5 DEF Located, Seated, Mated, Down, Open, CreateRoom, Lookup, GoTo
  <2>6. QED
    BY <2>1, <2>2, <2>3, <2>4, <2>5
<1>6. ASSUME NEW c \in Conns, ServerBusy(c) PROVE SeatInv'
  <2>1. TypeOK'
    BY <1>6 DEF PCs, Frames, ServerBusy, Refuse, Write, CloseAll, GoTo
  <2>2. Located'
    BY <1>6 DEF Located, Open, ServerBusy, Refuse, Write, CloseAll, GoTo
  <2>3. Named'
    BY <1>6 DEF Located, Named, ServerBusy, Refuse, Write, CloseAll, GoTo
  <2>4. Seated'
    BY <1>6 DEF Located, Seated, ServerBusy, Refuse, Write, CloseAll, GoTo
  <2>5. Mated'
    BY <1>6 DEF Located, Seated, Mated, Down, Open, ServerBusy, Refuse, Write, CloseAll, GoTo
  <2>6. QED
    BY <2>1, <2>2, <2>3, <2>4, <2>5
<1>7. ASSUME NEW c \in Conns, TakeFirst(c) PROVE SeatInv'
  <2>1. TypeOK'
    BY <1>7 DEF PCs, Frames, TakeFirst, GoTo
  <2>2. Located'
    BY <1>7 DEF Located, Open, TakeFirst, GoTo
  <2>3. Named'
    BY <1>7 DEF Located, Named, TakeFirst, GoTo
  <2>4. Seated'
    BY <1>7 DEF Located, Seated, TakeFirst, GoTo
  <2>5. Mated'
    BY <1>7 DEF Located, Seated, Mated, Down, Open, TakeFirst, GoTo
  <2>6. QED
    BY <2>1, <2>2, <2>3, <2>4, <2>5
<1>8. ASSUME NEW c \in Conns, TakeSecond(c) PROVE SeatInv'
  <2>1. TypeOK'
    BY ZenonT(60), <1>8 DEF PCs, Frames, Located, TakeSecond, GoTo
  <2>2. Located'
    BY <1>8 DEF Located, Open, TakeSecond, GoTo
  <2>3. Named'
    BY <1>8 DEF Located, Named, TakeSecond, GoTo
  <2>4. Seated'
    BY <1>8 DEF Located, Seated, TakeSecond, GoTo
  <2>5. Mated'
    BY <1>8 DEF Located, Seated, Mated, Down, Open, TakeSecond, GoTo
  <2>6. QED
    BY <2>1, <2>2, <2>3, <2>4, <2>5
<1>9. ASSUME NEW c \in Conns, RoomFull(c) PROVE SeatInv'
  <2>1. TypeOK'
    BY <1>9, WriteType DEF PCs, Frames, Located, RoomFull, Refuse, CloseAll, GoTo
  <2>2. Located'
    BY <1>9 DEF Located, Open, RoomFull, Refuse, Write, CloseAll, GoTo
  <2>3. Named'
    BY <1>9 DEF Located, Named, RoomFull, Refuse, Write, CloseAll, GoTo
  <2>4. Seated'
    BY <1>9 DEF Located, Seated, RoomFull, Refuse, Write, CloseAll, GoTo
  <2>5. Mated'
    BY <1>9 DEF Located, Seated, Mated, Down, Open, RoomFull, Refuse, Write, CloseAll, GoTo
  <2>6. QED
    BY <2>1, <2>2, <2>3, <2>4, <2>5
<1>10. ASSUME NEW c \in Conns, BeginGreeting(c) PROVE SeatInv'
  <2>1. TypeOK'
    BY <1>10 DEF PCs, Frames, BeginGreeting, GoTo
  <2>2. Located'
    BY <1>10 DEF Located, Open, BeginGreeting, GoTo
  <2>3. Named'
    BY <1>10 DEF Located, Named, BeginGreeting, GoTo
  <2>4. Seated'
    BY <1>10 DEF Located, Seated, BeginGreeting, GoTo
  <2>5. Mated'
    BY <1>10 DEF Located, Seated, Mated, Down, Open, BeginGreeting, GoTo
  <2>6. QED
    BY <2>1, <2>2, <2>3, <2>4, <2>5
<1>11. ASSUME NEW c \in Conns, EndGreeting(c) PROVE SeatInv'
  <2>1. TypeOK'
    BY <1>11 DEF PCs, Frames, EndGreeting, FramesOf, Write, GoTo
  <2>2. Located'
    BY <1>11 DEF Located, Open, EndGreeting, FramesOf, Write, GoTo
  <2>3. Named'
    BY <1>11 DEF Located, Named, EndGreeting, FramesOf, Write, GoTo
  <2>4. Seated'
    BY <1>11 DEF Located, Seated, EndGreeting, FramesOf, Write, GoTo
  <2>5. Mated'
    BY <1>11 DEF Located, Seated, Mated, Down, Open, EndGreeting, FramesOf, Write, GoTo
  <2>6. QED
    BY <2>1, <2>2, <2>3, <2>4, <2>5
<1>12. ASSUME NEW c \in Conns, GreetingPanics(c) PROVE SeatInv'
  <2>1. TypeOK'
    BY <1>12 DEF PCs, Frames, GreetingPanics, GoTo
  <2>2. Located'
    BY <1>12 DEF Located, Open, GreetingPanics, GoTo
  <2>3. Named'
    BY <1>12 DEF Located, Named, GreetingPanics, GoTo
  <2>4. Seated'
    BY <1>12 DEF Located, Seated, GreetingPanics, GoTo
  <2>5. Mated'
    BY <1>12 DEF Located, Seated, Mated, Down, Open, GreetingPanics, GoTo
  <2>6. QED
    BY <2>1, <2>2, <2>3, <2>4, <2>5
<1>13. ASSUME NEW c \in Conns, StartPipe(c) PROVE SeatInv'
  <2>1. TypeOK'
    BY ZenonT(60), <1>13 DEF PCs, Frames, Located, StartPipe, Awake, GoTo
  <2>2. Located'
    BY <1>13 DEF Located, Open, StartPipe, Awake, GoTo
  <2>3. Named'
    BY <1>13 DEF Located, Named, StartPipe, Awake, GoTo
  <2>4. Seated'
    BY <1>13 DEF Located, Seated, StartPipe, Awake, GoTo
  <2>5. Mated'
    BY <1>13 DEF Located, Seated, Mated, Down, Open, StartPipe, Awake, GoTo
  <2>6. QED
    BY <2>1, <2>2, <2>3, <2>4, <2>5
<1>14. ASSUME NEW c \in Conns, FindRoomEmptied(c) PROVE SeatInv'
  <2>1. TypeOK'
    BY <1>14 DEF PCs, Frames, FindRoomEmptied, Awake, GoTo
  <2>2. Located'
    BY <1>14 DEF Located, Open, FindRoomEmptied, Awake, GoTo
  <2>3. Named'
    BY <1>14 DEF Located, Named, FindRoomEmptied, Awake, GoTo
  <2>4. Seated'
    BY <1>14 DEF Located, Seated, FindRoomEmptied, Awake, GoTo
  <2>5. Mated'
    BY <1>14 DEF Located, Seated, Mated, Down, Open, FindRoomEmptied, Awake, GoTo
  <2>6. QED
    BY <2>1, <2>2, <2>3, <2>4, <2>5
<1>15. ASSUME NEW c \in Conns, FinishFirst(c) PROVE SeatInv'
  <2>1. TypeOK'
    BY <1>15 DEF PCs, Frames, FinishFirst, Piped, Unmap, CloseDone, GoTo
  <2>2. Located'
    BY <1>15 DEF Located, Open, FinishFirst, Piped, Unmap, CloseDone, GoTo
  <2>3. Named'
    BY <1>15 DEF Located, Named, FinishFirst, Piped, Unmap, CloseDone, GoTo
  <2>4. Seated'
    BY <1>15 DEF Located, Seated, FinishFirst, Piped, Unmap, CloseDone, GoTo
  <2>5. Mated'
    BY <1>15 DEF Located, Seated, Mated, Down, Open, FinishFirst, Piped, Unmap, CloseDone, GoTo
  <2>6. QED
    BY <2>1, <2>2, <2>3, <2>4, <2>5
<1>16. ASSUME NEW c \in Conns, EndPairing(c) PROVE SeatInv'
  <2>1. TypeOK'
    <3>1. PICK m \in Frames : out' = Write(first[room[c]], m)
      BY <1>16 DEF EndPairing, FramesOf, Frames
    <3>2. out' \in [Conns -> Seq(Frames)]
      BY <3>1, WriteType DEF TypeOK
    <3>3. QED
      BY <1>16, <3>2 DEF EndPairing, PCs, GoTo
  <2>2. Located'
    BY <1>16 DEF Located, Open, EndPairing, FramesOf, Write, GoTo
  <2>3. Named'
    BY <1>16 DEF Located, Named, EndPairing, FramesOf, Write, GoTo
  <2>4. Seated'
    BY <1>16 DEF Located, Seated, EndPairing, FramesOf, Write, GoTo
  <2>5. Mated'
    BY <1>16 DEF Located, Seated, Mated, Down, Open, EndPairing, FramesOf, Write, GoTo
  <2>6. QED
    BY <2>1, <2>2, <2>3, <2>4, <2>5
<1>17. ASSUME NEW c \in Conns, PairingPanics(c) PROVE SeatInv'
  <2>1. TypeOK'
    BY <1>17 DEF PCs, Frames, PairingPanics, GoTo
  <2>2. Located'
    BY <1>17 DEF Located, Open, PairingPanics, GoTo
  <2>3. Named'
    BY <1>17 DEF Located, Named, PairingPanics, GoTo
  <2>4. Seated'
    BY <1>17 DEF Located, Seated, PairingPanics, GoTo
  <2>5. Mated'
    BY <1>17 DEF Located, Seated, Mated, Down, Open, PairingPanics, GoTo
  <2>6. QED
    BY <2>1, <2>2, <2>3, <2>4, <2>5
<1>18. ASSUME NEW c \in Conns, PairSecond(c) PROVE SeatInv'
  <2>1. TypeOK'
    BY <1>18, WriteType DEF PCs, Frames, Located, PairSecond, GoTo
  <2>2. Located'
    BY <1>18 DEF Located, Open, PairSecond, Write, GoTo
  <2>3. Named'
    BY <1>18 DEF Located, Named, PairSecond, Write, GoTo
  <2>4. Seated'
    BY <1>18 DEF Located, Seated, PairSecond, Write, GoTo
  <2>5. Mated'
    BY <1>18 DEF Located, Seated, Mated, Down, Open, PairSecond, Write, GoTo
  <2>6. QED
    BY <2>1, <2>2, <2>3, <2>4, <2>5
<1>19. ASSUME NEW c \in Conns, SecondWakes(c) PROVE SeatInv'
  <2>1. TypeOK'
    BY <1>19 DEF PCs, Frames, SecondWakes, Unmap, GoTo
  <2>2. Located'
    BY <1>19 DEF Located, Open, SecondWakes, Unmap, GoTo
  <2>3. Named'
    BY <1>19 DEF Located, Named, SecondWakes, Unmap, GoTo
  <2>4. Seated'
    BY <1>19 DEF Located, Seated, SecondWakes, Unmap, GoTo
  <2>5. Mated'
    BY <1>19 DEF Located, Seated, Mated, Down, Open, SecondWakes, Unmap, GoTo
  <2>6. QED
    BY <2>1, <2>2, <2>3, <2>4, <2>5
<1>20. ASSUME NEW c \in Conns, SecondTimesOut(c) PROVE SeatInv'
  <2>1. TypeOK'
    BY <1>20 DEF PCs, Frames, SecondTimesOut, Unmap, GoTo
  <2>2. Located'
    BY <1>20 DEF Located, Open, SecondTimesOut, Unmap, GoTo
  <2>3. Named'
    BY <1>20 DEF Located, Named, SecondTimesOut, Unmap, GoTo
  <2>4. Seated'
    BY <1>20 DEF Located, Seated, SecondTimesOut, Unmap, GoTo
  <2>5. Mated'
    BY <1>20 DEF Located, Seated, Mated, Down, Open, SecondTimesOut, Unmap, GoTo
  <2>6. QED
    BY <2>1, <2>2, <2>3, <2>4, <2>5
<1>21. ASSUME NEW c \in Conns, NEW src \in Conns, Forward(c, src) PROVE SeatInv'
  <2>1. TypeOK'
    BY <1>21 DEF PCs, Frames, Forward, Forwarding
  <2>2. Located'
    BY <1>21 DEF Located, Open, Forward, Forwarding
  <2>3. Named'
    BY <1>21 DEF Located, Named, Forward, Forwarding
  <2>4. Seated'
    BY <1>21 DEF Located, Seated, Forward, Forwarding
  <2>5. Mated'
    BY <1>21 DEF Located, Seated, Mated, Down, Open, Forward, Forwarding
  <2>6. QED
    BY <2>1, <2>2, <2>3, <2>4, <2>5
<1>22. ASSUME NEW c \in Conns, NEW src \in Conns, ReadFails(c, src) PROVE SeatInv'
  <2>1. TypeOK'
    BY <1>22 DEF PCs, Frames, ReadFails, Forwarding, EndForward, CloseAll
  <2>2. Located'
    BY <1>22 DEF Located, Seated, Mated, Open, ReadFails, Forwarding, EndForward, CloseAll
  <2>3. Named'
    BY <1>22 DEF Located, Named, ReadFails, Forwarding, EndForward, CloseAll
  <2>4. Seated'
    BY <1>22 DEF Located, Seated, ReadFails, Forwarding, EndForward, CloseAll
  <2>5. Mated'
    BY <1>22 DEF Located, Seated, Mated, Down, Open, ReadFails, Forwarding, EndForward, CloseAll
  <2>6. QED
    BY <2>1, <2>2, <2>3, <2>4, <2>5
<1>23. ASSUME NEW c \in Conns, NEW src \in Conns, WriteFails(c, src) PROVE SeatInv'
  <2>1. TypeOK'
    BY <1>23 DEF PCs, Frames, WriteFails, Forwarding, EndForward, CloseAll
  <2>2. Located'
    BY <1>23 DEF Located, Seated, Mated, Open, WriteFails, Forwarding, EndForward, CloseAll
  <2>3. Named'
    BY <1>23 DEF Located, Named, WriteFails, Forwarding, EndForward, CloseAll
  <2>4. Seated'
    BY <1>23 DEF Located, Seated, WriteFails, Forwarding, EndForward, CloseAll
  <2>5. Mated'
    BY <1>23 DEF Located, Seated, Mated, Down, Open, WriteFails, Forwarding, EndForward, CloseAll
  <2>6. QED
    BY <2>1, <2>2, <2>3, <2>4, <2>5
<1>24. ASSUME NEW c \in Conns, NEW src \in Conns, WatchedClose(c, src) PROVE SeatInv'
  <2> DEFINE r == room[c]
             d == pipes[c][src]
  <2>a. pc[c] = "pipe" /\ d # None /\ src # None
    BY <1>24 DEF WatchedClose, Forwarding
  <2>b. r \in Conns
    BY <1>24, <2>a DEF Located
  <2>d. d \in Conns
    BY <1>24, <2>a
  <2>c. mate[src] = d /\ mate[d] = src /\ pc[d] \notin {"new", "lookup", "enter"}
    BY <1>24, <2>a, <2>d DEF Mated
  <2>1. TypeOK'
    BY <1>24, <2>a, <2>b, <2>c, <2>d DEF PCs, Frames, Located, Seated, Mated, WatchedClose, Forwarding, Expire, CloseAll
  <2>2. Located'
    BY <1>24, <2>a, <2>b, <2>c, <2>d DEF Located, Seated, Mated, Open, WatchedClose, Forwarding, Expire, CloseAll
  <2>3. Named'
    BY <1>24, <2>a, <2>b, <2>c, <2>d DEF Located, Named, WatchedClose, Forwarding, Expire, CloseAll
  <2>4. Seated'
    BY <1>24, <2>a, <2>b, <2>c, <2>d DEF Located, Seated, WatchedClose, Forwarding, Expire, CloseAll
  <2>5. Mated'
    BY <1>24, <2>a, <2>b, <2>c, <2>d DEF Located, Seated, Mated, Down, Open, WatchedClose, Forwarding, Expire, CloseAll
  <2>6. QED
    BY <2>1, <2>2, <2>3, <2>4, <2>5
<1>25. ASSUME NEW r \in Conns, GoIdle(r) PROVE SeatInv'
  <2>1. TypeOK'
    BY <1>25 DEF PCs, Frames, GoIdle
  <2>2. Located'
    BY <1>25 DEF Located, Open, GoIdle
  <2>3. Named'
    BY <1>25 DEF Located, Named, GoIdle
  <2>4. Seated'
    BY <1>25 DEF Located, Seated, GoIdle
  <2>5. Mated'
    BY <1>25 DEF Located, Seated, Mated, Down, Open, GoIdle
  <2>6. QED
    BY <2>1, <2>2, <2>3, <2>4, <2>5
<1>26. ASSUME ForwardersCollide PROVE SeatInv'
  <2>1. TypeOK'
    BY <1>26 DEF PCs, Frames, ForwardersCollide
  <2>2. Located'
    BY <1>26 DEF Located, Open, ForwardersCollide
  <2>3. Named'
    BY <1>26 DEF Located, Named, ForwardersCollide
  <2>4. Seated'
    BY <1>26 DEF Located, Seated, ForwardersCollide
  <2>5. Mated'
    BY <1>26 DEF Located, Seated, Mated, Down, Open, ForwardersCollide
  <2>6. QED
    BY <2>1, <2>2, <2>3, <2>4, <2>5
<1>27. ASSUME SweepStart PROVE SeatInv'
  <2>1. TypeOK'
    BY <1>27 DEF PCs, Frames, SweepStart, Mapped
  <2>2. Located'
    BY <1>27 DEF Located, Open, SweepStart, Mapped
  <2>3. Named'
    BY <1>27 DEF Located, Named, SweepStart, Mapped
  <2>4. Seated'
    BY <1>27 DEF Located, Seated, SweepStart, Mapped
  <2>5. Mated'
    BY <1>27 DEF Located, Seated, Mated, Down, Open, SweepStart, Mapped
  <2>6. QED
    BY <2>1, <2>2, <2>3, <2>4, <2>5
<1>28. ASSUME NEW n \in Names, SweepVisit(n) PROVE SeatInv'
  <2> rooms[n] \in Conns
    BY <1>28 DEF SweepVisit, Located
  <2>1. TypeOK'
    <3>1. CASE idle[rooms[n]]
      <4>1. rooms' \in [Names -> Conns \cup {None}]
        BY ZenonT(60), <1>28, <3>1 DEF SweepVisit
      <4>2. todo' \subseteq Names /\ stale' \subseteq Conns
        BY <1>28, <3>1 DEF SweepVisit
      <4>3. QED
        BY <1>28, <4>1, <4>2 DEF SweepVisit
    <3>2. CASE ~idle[rooms[n]]
      BY <1>28, <3>2 DEF SweepVisit
    <3>3. QED
      BY <3>1, <3>2
  <2>2. Located'
    BY <1>28 DEF Located, Open, SweepVisit
  <2>3. Named'
    <3>1. CASE idle[rooms[n]]
      BY ZenonT(60), <1>28, <3>1 DEF SweepVisit, Named
    <3>2. CASE ~idle[rooms[n]]
      BY <1>28, <3>2 DEF SweepVisit, Named
    <3>3. QED
      BY <3>1, <3>2
  <2>4. Seated'
    BY <1>28 DEF Located, Seated, SweepVisit
  <2>5. Mated'
    BY <1>28 DEF Located, Seated, Mated, Down, Open, SweepVisit
  <2>6. QED
    BY <2>1, <2>2, <2>3, <2>4, <2>5
<1>29. ASSUME SweepRelease PROVE SeatInv'
  <2>1. TypeOK'
    BY <1>29 DEF PCs, Frames, SweepRelease
  <2>2. Located'
    BY <1>29 DEF Located, Open, SweepRelease
  <2>3. Named'
    BY <1>29 DEF Located, Named, SweepRelease
  <2>4. Seated'
    BY <1>29 DEF Located, Seated, SweepRelease
  <2>5. Mated'
    BY <1>29 DEF Located, Seated, Mated, Down, Open, SweepRelease
  <2>6. QED
    BY <2>1, <2>2, <2>3, <2>4, <2>5
<1>30. ASSUME NEW r \in Conns, ExpireRoom(r) PROVE SeatInv'
  <2>1. TypeOK'
    BY <1>30 DEF PCs, Frames, ExpireRoom, Expire, CloseAll
  <2>2. Located'
    BY <1>30 DEF Located, Seated, Open, ExpireRoom, Expire, CloseAll
  <2>3. Named'
    BY <1>30 DEF Located, Named, ExpireRoom, Expire, CloseAll
  <2>4. Seated'
    BY <1>30 DEF Located, Seated, ExpireRoom, Expire, CloseAll
  <2>5. Mated'
    BY <1>30 DEF Located, Seated, Mated, Down, Open, ExpireRoom, Expire, CloseAll
  <2>6. QED
    BY <2>1, <2>2, <2>3, <2>4, <2>5
<1>31. ASSUME UNCHANGED vars PROVE SeatInv'
  <2>1. TypeOK'
    BY <1>31 DEF PCs, Frames, vars
  <2>2. Located'
    BY <1>31 DEF Located, Open, vars
  <2>3. Named'
    BY <1>31 DEF Located, Named, vars
  <2>4. Seated'
    BY <1>31 DEF Located, Seated, vars
  <2>5. Mated'
    BY <1>31 DEF Located, Seated, Mated, Down, Open, vars
  <2>6. QED
    BY <2>1, <2>2, <2>3, <2>4, <2>5
<1>32. QED
  BY <1>1, <1>2, <1>3, <1>4, <1>5, <1>6, <1>7, <1>8, <1>9, <1>10, <1>11, <1>12, <1>13, <1>14, <1>15, <1>16, <1>17, <1>18, <1>19, <1>20, <1>21, <1>22, <1>23, <1>24, <1>25, <1>26, <1>27, <1>28, <1>29, <1>30, <1>31 DEF Next, Client, Handler, Pipe, Sweep

\* No room exists and no handler has a place at the start.
LEMMA SeatInit == Init => SeatInv
<1> SUFFICES ASSUME Init PROVE SeatInv
  OBVIOUS
<1> USE RelayAssumption DEF Init
<1>1. TypeOK
  <2>1. out \in [Conns -> Seq(Frames)]
    BY <<>> \in Seq(Frames)
  <2>2. pipes \in [Conns -> [Conns -> Conns \cup {None}]]
    OBVIOUS
  <2>3. pc \in [Conns -> PCs]
    BY DEF PCs
  <2>4. QED
    BY <2>1, <2>2, <2>3 DEF TypeOK
<1>2. Located
  BY DEF Located, Open
<1>3. Named
  BY DEF Named
<1>4. Seated
  BY DEF Seated
<1>5. Mated
  BY DEF Mated
<1>6. QED
  BY <1>1, <1>2, <1>3, <1>4, <1>5 DEF SeatInv

\* Every variable keeps its type and every handler, room and pair its place, for
\* any number of connections and any names.
THEOREM SeatCorrect == Spec => []SeatInv
<1>1. Init => SeatInv
  BY SeatInit
<1>2. SeatInv /\ [Next]_vars => SeatInv'
  BY SeatNext
<1>3. QED
  BY <1>1, <1>2, PTL DEF Spec

\* The type invariant, for any number of connections: it needs the places too,
\* since a handler indexes rooms and pipes by what it holds.
THEOREM TypeCorrect == Spec => []TypeOK
<1>1. SeatInv => TypeOK
  BY DEF SeatInv
<1>2. QED
  BY <1>1, SeatCorrect, PTL

-----------------------------------------------------------------------------
(* The relay implements RelayContract.                                       *)

\* A step that moves no connection, no name, no mate and no payload.
LEMMA Quiet ==
    ASSUME sock' = sock, name' = name, mate' = mate, heard' = heard
    PROVE  UNCHANGED Contract!vars
  BY DEF Contract!vars, phase, Phase

\* A step that only closes connections.
LEMMA Closing ==
    ASSUME TypeOK, NEW S, sock' = CloseAll(S),
           name' = name, mate' = mate, heard' = heard
    PROVE  Contract!Next
<1>1. Contract!Drop(S \cap Conns)
  BY DEF Contract!Drop, phase, Phase, CloseAll, TypeOK
<1>2. S \cap Conns \in SUBSET Conns
  OBVIOUS
<1>3. QED
  BY <1>1, <1>2 DEF Contract!Next

\* Every step of the relay is a step of the matchmaker or changes nothing it sees.
LEMMA ContractStep ==
    SeatInv /\ [Next]_vars => [Contract!Next]_(Contract!vars)
<1> SUFFICES ASSUME SeatInv, [Next]_vars
             PROVE  Contract!Next \/ UNCHANGED Contract!vars
  OBVIOUS
<1> USE RelayAssumption DEF SeatInv, mapVars, roomVars, connVars, traceVars
<1>1. ASSUME NEW c \in Conns, NEW n \in Names, Join(c, n) PROVE Contract!Next
  <2>1. sock[c] = "unused" /\ mate[c] = None
    BY <1>1 DEF Join, Located, Mated, TypeOK
  <2>2. Contract!Seek(c, n)
    BY <1>1, <2>1 DEF Join, Contract!Seek, phase, Phase, TypeOK
  <2>3. QED
    BY <2>2 DEF Contract!Next
<1>2. ASSUME NEW c \in Conns, TakeSecond(c) PROVE Contract!Next
  <2> DEFINE f == first[room[c]]
  <2>1. room[c] \in Conns /\ f \in Conns /\ pc[c] = "enter"
    BY ZenonT(60), <1>2 DEF TakeSecond, Located, TypeOK
  <2>2. mate[f] = None /\ Open(f)
    BY <1>2, <2>1 DEF TakeSecond, Mated, Down
  <2>3. mate[c] = None /\ Open(c)
    BY <1>2, <2>1 DEF Mated, Located
  <2>4. f # c /\ name[f] = name[c]
    BY <1>2, <2>1 DEF Seated, Named
  <2>5. Contract!Match(c, f)
    BY <1>2, <2>1, <2>2, <2>3, <2>4
    DEF TakeSecond, Contract!Match, phase, Phase, Open, TypeOK
  <2>6. QED
    BY <1>2, <2>1, <2>5 DEF Contract!Next
<1>3. ASSUME NEW c \in Conns, NEW src \in Conns, Forward(c, src)
      PROVE  Contract!Next
  <2> DEFINE d == pipes[c][src]
  <2>1. d \in Conns
    BY <1>3 DEF Forward, Forwarding, TypeOK
  <2>2. mate[src] = d /\ mate[d] = src /\ Open(d)
    BY <1>3, <2>1 DEF Forward, Mated
  <2>3. Contract!Carry(src, d)
    BY <1>3, <2>1, <2>2 DEF Forward, Contract!Carry, phase, Phase, Open
  <2>4. QED
    BY <1>3, <2>1, <2>3 DEF Contract!Next
<1>4. ASSUME NEW c \in Conns, RefuseJoin(c) PROVE Contract!Next
  BY <1>4, Closing, sock' = CloseAll({c}) DEF RefuseJoin, CloseAll, TypeOK
<1>5. ASSUME NEW c \in Conns, ServerBusy(c) \/ RoomFull(c) PROVE Contract!Next
  BY <1>5, Closing DEF ServerBusy, RoomFull, Refuse
<1>6. ASSUME NEW c \in Conns, NEW src \in Conns,
             ReadFails(c, src) \/ WriteFails(c, src) \/ WatchedClose(c, src)
      PROVE  Contract!Next
  BY <1>6, Closing DEF ReadFails, WriteFails, WatchedClose, EndForward, Expire
<1>7. ASSUME NEW r \in Conns, ExpireRoom(r) PROVE Contract!Next
  BY <1>7, Closing DEF ExpireRoom, Expire
<1>8. CASE ForwardersCollide
  <2>1. sock' = CloseAll({c \in Conns : Open(c)})
    BY <1>8 DEF ForwardersCollide, CloseAll
  <2>2. QED
    BY <1>8, <2>1, Closing DEF ForwardersCollide
<1>9. ASSUME NEW c \in Conns,
             \/ HangUp(c) \/ FindRoom(c) \/ CreateRoom(c) \/ TakeFirst(c)
             \/ BeginGreeting(c) \/ EndGreeting(c) \/ GreetingPanics(c)
             \/ StartPipe(c) \/ FindRoomEmptied(c) \/ FinishFirst(c)
             \/ EndPairing(c) \/ PairingPanics(c) \/ PairSecond(c)
             \/ SecondWakes(c) \/ SecondTimesOut(c) \/ GoIdle(c)
      PROVE  UNCHANGED Contract!vars
  BY <1>9, Quiet
  DEF HangUp, FindRoom, CreateRoom, TakeFirst, BeginGreeting, EndGreeting,
      GreetingPanics, StartPipe, FindRoomEmptied, FinishFirst, EndPairing,
      PairingPanics, PairSecond, SecondWakes, SecondTimesOut, GoIdle
<1>10. CASE SweepStart \/ SweepRelease \/ \E n \in Names : SweepVisit(n)
  BY <1>10, Quiet DEF SweepStart, SweepRelease, SweepVisit
<1>11. CASE UNCHANGED vars
  BY <1>11, Quiet DEF vars
<1>12. QED
  BY <1>1, <1>2, <1>3, <1>4, <1>5, <1>6, <1>7, <1>8, <1>9, <1>10, <1>11
  DEF Next, Client, Handler, Pipe, Sweep

\* Every behaviour of the relay is one of the matchmaker, for any number of
\* clients: payload crosses only between two clients that asked for the same
\* name and were matched with each other, and no match is ever changed.
THEOREM ContractImplemented == Spec => ImplementsContract
<1>1. Init => Contract!Init
  BY RelayAssumption DEF Init, Contract!Init, phase, Phase
<1>2. SeatInv /\ [Next]_vars => [Contract!Next]_(Contract!vars)
  BY ContractStep
<1>3. QED
  BY <1>1, <1>2, SeatCorrect, PTL DEF Spec, ImplementsContract, Contract!Spec

-----------------------------------------------------------------------------
(* The room limit.                                                           *)

\* The limit is kept by every step: only CreateRoom adds a room, and it compares
\* the size of the map with the limit first (getOrCreateRoom).
LEMMA LimitStep ==
    ASSUME SeatInv, RoomLimit, [Next]_vars
    PROVE  RoomLimit'
<1> USE RelayAssumption DEF RoomLimit, mapVars, roomVars, connVars, traceVars
<1>1. IsFiniteSet(Mapped) /\ Cardinality(Mapped) \in Nat
  BY FS_Subset, FS_CardinalityType DEF Mapped
<1>2. ASSUME NEW c \in Conns, CreateRoom(c) PROVE RoomLimit'
  <2>1. name[c] \in Names /\ name[c] \notin Mapped
    BY <1>2 DEF CreateRoom, Lookup, Mapped, SeatInv, TypeOK, Located
  <2>2. Mapped' = Mapped \cup {name[c]}
    BY <1>2, <2>1 DEF CreateRoom, Mapped, SeatInv, TypeOK
  <2>3. Cardinality(Mapped') = Cardinality(Mapped) + 1
    BY <1>1, <2>1, <2>2, FS_AddElement
  <2>4. QED
    BY <1>1, <1>2, <2>3 DEF CreateRoom, NoRoomLeft
<1>3. ASSUME Mapped' \subseteq Mapped PROVE RoomLimit'
  <2>1. Cardinality(Mapped') \in Nat /\ Cardinality(Mapped') <= Cardinality(Mapped)
    BY <1>1, <1>3, FS_Subset, FS_CardinalityType
  <2>2. QED
    BY <1>1, <2>1
<1>4. ASSUME rooms' = rooms PROVE RoomLimit'
  BY <1>3, <1>4 DEF Mapped
<1>5. ASSUME NEW c \in Conns, rooms' = Unmap(c) PROVE RoomLimit'
  <2>1. Mapped' \subseteq Mapped
    BY <1>5 DEF Mapped, Unmap, SeatInv, TypeOK
  <2>2. QED
    BY <1>3, <2>1
<1>6. CASE ForwardersCollide \/ \E n \in Names : SweepVisit(n)
  <2>1. Mapped' \subseteq Mapped
    BY <1>6 DEF ForwardersCollide, SweepVisit, Mapped, SeatInv, TypeOK
  <2>2. QED
    BY <1>3, <2>1
<1>7. ASSUME NEW c \in Conns,
             \/ FindRoom(c) \/ ServerBusy(c) \/ TakeFirst(c) \/ TakeSecond(c)
             \/ RoomFull(c) \/ BeginGreeting(c) \/ EndGreeting(c)
             \/ GreetingPanics(c) \/ StartPipe(c) \/ FindRoomEmptied(c)
             \/ EndPairing(c) \/ PairingPanics(c) \/ PairSecond(c)
             \/ Client(c) \/ Pipe(c) \/ GoIdle(c) \/ ExpireRoom(c)
      PROVE  RoomLimit'
  BY <1>4, <1>7
  DEF FindRoom, ServerBusy, TakeFirst, TakeSecond, RoomFull, BeginGreeting,
      EndGreeting, GreetingPanics, StartPipe, FindRoomEmptied, EndPairing,
      PairingPanics, PairSecond, Client, Join, RefuseJoin, HangUp, Pipe, Forward,
      ReadFails, WriteFails, WatchedClose, GoIdle, ExpireRoom
<1>8. CASE SweepStart \/ SweepRelease \/ UNCHANGED vars
  BY <1>4, <1>8 DEF SweepStart, SweepRelease, vars
<1>9. QED
  BY <1>2, <1>5, <1>6, <1>7, <1>8
  DEF Next, Handler, Sweep, FinishFirst, SecondWakes, SecondTimesOut

\* The map never holds more rooms than configured, for any limit, any number of
\* clients and any finite set of names: the check and the insertion are one
\* step, and every other step only removes rooms.
THEOREM RoomLimitHolds == Spec => []RoomLimit
<1>1. Init => RoomLimit
  <2>1. Init => Mapped = {}
    BY DEF Init, Mapped
  <2>2. Cardinality({}) = 0
    BY FS_EmptySet
  <2>3. QED
    BY <2>1, <2>2, RelayAssumption DEF RoomLimit
<1>2. SeatInv /\ RoomLimit /\ [Next]_vars => RoomLimit'
  BY LimitStep
<1>3. QED
  BY <1>1, <1>2, SeatCorrect, PTL DEF Spec

=============================================================================
