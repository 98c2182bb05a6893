----------------------- MODULE RelayPairing_proofs -----------------------
(***************************************************************************)
(* Two clients are told that they are paired before anything else can      *)
(* happen to the pair: no payload, and no ready room, comes first.  Then,  *)
(* while a room has not expired, one handler pipes it, and what the pipe   *)
(* and the two handlers leave behind is closed.                            *)
(***************************************************************************)
EXTENDS RelayRooms_proofs

\* The clients that need no more telling.
PairTold == {c \in Conns : Told(c, "paired") \/ Told(c, "garbled")}
Informed == {c \in Conns : sock[c] = "closed"} \cup PairTold

\* Room.mu is held across steps by the second client's handler only.
Locked ==
    /\ \A r \in Conns : mu[r] # None =>
          /\ second[r] = mu[r]
          /\ pc[mu[r]] \in {"pairing", "pairSecond", "crashed"}
    /\ \A c \in Conns : pc[c] \in {"pairing", "pairSecond"} => mu[room[c]] = c

\* Nobody finds two clients seated and the lock free before both are informed.
Telling ==
    /\ \A c \in Conns : pc[c] = "pairSecond" => first[room[c]] \in Informed
    /\ \A r \in Conns : second[r] # None /\ mu[r] = None =>
          {first[r], second[r]} \subseteq Informed
    /\ \A c, s \in Conns : pipes[c][s] # None =>
          {s, pipes[c][s]} \subseteq Informed

\* ready is closed by the second client's handler or by an expiry.
Readied ==
    \A r \in Conns : ready[r] /\ r \notin expired => second[r] # None /\ mu[r] = None

Heard == \A c \in Conns : heard[c] # {} => c \in PairTold

TellInv == Locked /\ Telling /\ Readied /\ Heard

-----------------------------------------------------------------------------
(* What was said stays said.                                                 *)

\* A control frame written to some connection does not unsay an earlier one.
LEMMA WriteKeeps ==
    ASSUME TypeOK, NEW c, NEW m \in Frames, out' = Write(c, m), NEW d \in PairTold
    PROVE  d \in PairTold'
<1>1. out[d] \in Seq(Frames)
  BY DEF TypeOK, PairTold
<1>2. out'[d] = out[d] \/ out'[d] = Append(out[d], m)
  BY DEF Write, TypeOK, PairTold
<1>3. QED
  BY <1>1, <1>2 DEF PairTold, Told

\* A client that a pairing frame was written to was told, or is disconnected
\* (the ignored errors of WriteMessage).
LEMMA WriteInforms ==
    ASSUME TypeOK, NEW m \in {"paired", "garbled"}, NEW c \in Conns,
           sock[c] # "unused", out' = Write(c, m), sock' = sock
    PROVE  c \in Informed'
<1>1. CASE Open(c)
  <2>1. out[c] \in Seq(Frames) /\ out'[c] = Append(out[c], m)
    BY <1>1 DEF TypeOK, Write
  <2>2. c \in PairTold'
    BY <2>1 DEF PairTold, Told
  <2>3. QED
    BY <2>2 DEF Informed
<1>2. CASE ~Open(c)
  BY <1>2 DEF Informed, Open, TypeOK
<1>3. QED
  BY <1>1, <1>2

\* No step of the relay reopens a connection it has closed.
LEMMA ClosedForGood ==
    ASSUME SeatInv, [Next]_vars, NEW d \in Conns, sock[d] = "closed"
    PROVE  sock'[d] = "closed"
<1> USE DEF SeatInv, mapVars, roomVars, connVars, traceVars
<1>1. ASSUME sock' = sock PROVE sock'[d] = "closed"
  BY <1>1
<1>2. ASSUME NEW S, sock' = CloseAll(S) PROVE sock'[d] = "closed"
  BY <1>2 DEF CloseAll
<1>3. ASSUME NEW c \in Conns, RefuseJoin(c) \/ \E n \in Names : Join(c, n)
      PROVE  sock'[d] = "closed"
  BY <1>3 DEF Join, RefuseJoin, Located, TypeOK
<1>4. CASE ForwardersCollide
  BY <1>4 DEF ForwardersCollide, Open
<1>5. ASSUME NEW c \in Conns, NEW s \in Conns,
             \/ ServerBusy(c) \/ RoomFull(c) \/ ExpireRoom(c)
             \/ ReadFails(c, s) \/ WriteFails(c, s) \/ WatchedClose(c, s)
      PROVE  sock'[d] = "closed"
  BY <1>5, <1>2 DEF ServerBusy, RoomFull, Refuse, ExpireRoom, Expire, ReadFails,
                   WriteFails, WatchedClose, EndForward
<1>6. ASSUME NEW c \in Conns,
             \/ HangUp(c) \/ GoIdle(c) \/ (\E s \in Conns : Forward(c, s))
             \/ FindRoom(c) \/ CreateRoom(c) \/ TakeFirst(c) \/ TakeSecond(c)
             \/ BeginGreeting(c) \/ EndGreeting(c) \/ GreetingPanics(c)
             \/ StartPipe(c) \/ FindRoomEmptied(c) \/ FinishFirst(c)
             \/ EndPairing(c) \/ PairingPanics(c) \/ PairSecond(c)
             \/ SecondWakes(c) \/ SecondTimesOut(c)
      PROVE  sock' = sock
  BY <1>6
  DEF HangUp, GoIdle, Forward, FindRoom, CreateRoom, TakeFirst, TakeSecond,
      BeginGreeting, EndGreeting, GreetingPanics, StartPipe, FindRoomEmptied,
      FinishFirst, EndPairing, PairingPanics, PairSecond, SecondWakes,
      SecondTimesOut
<1>7. ASSUME \/ SweepStart \/ SweepRelease \/ UNCHANGED vars
             \/ \E n \in Names : SweepVisit(n)
      PROVE  sock' = sock
  BY <1>7 DEF SweepStart, SweepRelease, SweepVisit, vars
<1>8. ASSUME NEW c \in Conns, Client(c) PROVE sock'[d] = "closed"
  BY <1>3, <1>6, <1>8 DEF Client
<1>9. ASSUME NEW c \in Conns, Handler(c) PROVE sock'[d] = "closed"
  BY <1>5, <1>6, <1>9 DEF Handler
<1>10. ASSUME NEW c \in Conns, Pipe(c) PROVE sock'[d] = "closed"
  BY <1>5, <1>6, <1>10 DEF Pipe
<1>11. CASE Sweep
  BY <1>5, <1>7, <1>11 DEF Sweep
<1>12. QED
  BY <1>4, <1>6, <1>7, <1>8, <1>9, <1>10, <1>11 DEF Next

\* Whoever was told of its peer, or was disconnected, remains so.
LEMMA InformedStays ==
    ASSUME SeatInv, [Next]_vars
    PROVE  PairTold \subseteq PairTold' /\ Informed \subseteq Informed'
<1> USE DEF SeatInv, mapVars, roomVars, connVars, traceVars
<1>1. PairTold \subseteq PairTold'
  <2>1. ASSUME out' = out PROVE PairTold \subseteq PairTold'
    BY <2>1 DEF PairTold, Told
  <2>2. ASSUME NEW c \in Conns,
               \/ ServerBusy(c) \/ RoomFull(c) \/ EndGreeting(c)
               \/ EndPairing(c) \/ PairSecond(c)
        PROVE  PairTold \subseteq PairTold'
    <3>1. \E e \in Conns \cup {None}, m \in Frames : out' = Write(e, m)
      BY <2>2 DEF ServerBusy, RoomFull, Refuse, EndGreeting, EndPairing,
                  PairSecond, FramesOf, Frames, TypeOK, Located
    <3>2. QED
      BY <3>1, WriteKeeps
  <2>3. ASSUME NEW c \in Conns,
               \/ Client(c) \/ Pipe(c) \/ GoIdle(c) \/ ExpireRoom(c)
               \/ FindRoom(c) \/ CreateRoom(c) \/ TakeFirst(c) \/ TakeSecond(c)
               \/ BeginGreeting(c) \/ GreetingPanics(c) \/ StartPipe(c)
               \/ FindRoomEmptied(c) \/ FinishFirst(c) \/ PairingPanics(c)
               \/ SecondWakes(c) \/ SecondTimesOut(c)
        PROVE  out' = out
    BY <2>3
    DEF Client, Join, RefuseJoin, HangUp, Pipe, Forward, ReadFails, WriteFails,
        WatchedClose, GoIdle, ExpireRoom, FindRoom, CreateRoom, TakeFirst,
        TakeSecond, BeginGreeting, GreetingPanics, StartPipe, FindRoomEmptied,
        FinishFirst, PairingPanics, SecondWakes, SecondTimesOut
  <2>4. ASSUME \/ ForwardersCollide \/ SweepStart \/ SweepRelease
               \/ UNCHANGED vars \/ \E n \in Names : SweepVisit(n)
        PROVE  out' = out
    BY <2>4 DEF ForwardersCollide, SweepStart, SweepRelease, SweepVisit, vars
  <2>5. QED
    BY <2>1, <2>2, <2>3, <2>4 DEF Next, Handler, Sweep
<1>2. \A d \in Conns : sock[d] = "closed" => sock'[d] = "closed"
  BY ClosedForGood
<1>3. QED
  BY <1>1, <1>2 DEF Informed

-----------------------------------------------------------------------------

\* Every step keeps the order of the pairing: first frame, second frame, ready,
\* pipe, payload (handleWebSocket).
LEMMA TellNext ==
    SeatInv /\ SeatInv' /\ TellInv /\ [Next]_vars => TellInv'
<1> SUFFICES ASSUME SeatInv, SeatInv', TellInv, [Next]_vars PROVE TellInv'
  OBVIOUS
<1> USE RelayAssumption DEF SeatInv, TypeOK, TellInv, mapVars, roomVars, connVars,
        traceVars
<1>a. PairTold \subseteq PairTold' /\ Informed \subseteq Informed'
  BY InformedStays DEF SeatInv
<1>1. ASSUME NEW c \in Conns, NEW n \in Names, Join(c, n) PROVE TellInv'
  <2>1. Locked'
    BY <1>1 DEF Located, Seated, Locked, Join, GoTo
  <2>2. Telling'
    BY <1>1, <1>a DEF Located, Seated, Locked, Telling, Join, GoTo
  <2>3. Readied'
    BY <1>1 DEF Located, Seated, Locked, Readied, Join, GoTo
  <2>4. Heard'
    BY <1>1, <1>a DEF Heard, Telling, Informed, Join, GoTo
  <2>5. QED
    BY <2>1, <2>2, <2>3, <2>4
<1>2. ASSUME NEW c \in Conns, RefuseJoin(c) PROVE TellInv'
  <2>1. Locked'
    BY <1>2 DEF Located, Seated, Locked, RefuseJoin, GoTo
  <2>2. Telling'
    BY <1>2, <1>a DEF Located, Seated, Locked, Telling, RefuseJoin, GoTo
  <2>3. Readied'
    BY <1>2 DEF Located, Seated, Locked, Readied, RefuseJoin, GoTo
  <2>4. Heard'
    BY <1>2, <1>a DEF Heard, Telling, Informed, RefuseJoin, GoTo
  <2>5. QED
    BY <2>1, <2>2, <2>3, <2>4
<1>3. ASSUME NEW c \in Conns, HangUp(c) PROVE TellInv'
  <2>1. Locked'
    BY <1>3 DEF Located, Seated, Locked, HangUp
  <2>2. Telling'
    BY <1>3, <1>a DEF Located, Seated, Locked, Telling, HangUp
  <2>3. Readied'
    BY <1>3 DEF Located, Seated, Locked, Readied, HangUp
  <2>4. Heard'
    BY <1>3, <1>a DEF Heard, Telling, Informed, HangUp
  <2>5. QED
    BY <2>1, <2>2, <2>3, <2>4
<1>4. ASSUME NEW c \in Conns, FindRoom(c) PROVE TellInv'
  <2>1. Locked'
    BY <1>4 DEF Located, Seated, Locked, FindRoom, Lookup, GoTo
  <2>2. Telling'
    BY <1>4, <1>a DEF Located, Seated, Locked, Telling, FindRoom, Lookup, GoTo
  <2>3. Readied'
    BY <1>4 DEF Located, Seated, Locked, Readied, FindRoom, Lookup, GoTo
  <2>4. Heard'
    BY <1>4, <1>a DEF Heard, Telling, Informed, FindRoom, Lookup, GoTo
  <2>5. QED
    BY <2>1, <2>2, <2>3, <2>4
<1>5. ASSUME NEW c \in Conns, CreateRoom(c) PROVE TellInv'
  <2>1. Locked'
    BY <1>5 DEF Located, Seated, Locked, CreateRoom, Lookup, GoTo
  <2>2. Telling'
    BY <1>5, <1>a DEF Located, Seated, Locked, Telling, CreateRoom, Lookup, GoTo
  <2>3. Readied'
    BY <1>5 DEF Located, Seated, Locked, Readied, CreateRoom, Lookup, GoTo
  <2>4. Heard'
    BY <1>5, <1>a DEF Heard, Telling, Informed, CreateRoom, Lookup, GoTo
  <2>5. QED
    BY <2>1, <2>2, <2>3, <2>4
<1>6. ASSUME NEW c \in Conns, ServerBusy(c) PROVE TellInv'
  <2>1. Locked'
    BY <1>6 DEF Located, Seated, Locked, ServerBusy, Refuse, CloseAll, GoTo
  <2>2. Telling'
    BY <1>6, <1>a DEF Located, Seated, Locked, Telling, ServerBusy, Refuse, CloseAll, GoTo
  <2>3. Readied'
    BY <1>6 DEF Located, Seated, Locked, Readied, ServerBusy, Refuse, CloseAll, GoTo
  <2>4. Heard'
    BY <1>6, <1>a DEF Heard, Telling, Informed, ServerBusy, Refuse, CloseAll, GoTo
  <2>5. QED
    BY <2>1, <2>2, <2>3, <2>4
<1>7. ASSUME NEW c \in Conns, TakeFirst(c) PROVE TellInv'
  <2>1. Locked'
    BY <1>7 DEF Located, Seated, Locked, TakeFirst, GoTo
  <2>2. Telling'
    BY <1>7, <1>a DEF Located, Seated, Locked, Telling, TakeFirst, GoTo
  <2>3. Readied'
    BY <1>7 DEF Located, Seated, Locked, Readied, TakeFirst, GoTo
  <2>4. Heard'
    BY <1>7, <1>a DEF Heard, Telling, Informed, TakeFirst, GoTo
  <2>5. QED
    BY <2>1, <2>2, <2>3, <2>4
<1>8. ASSUME NEW c \in Conns, TakeSecond(c) PROVE TellInv'
  <2>1. Locked'
    BY <1>8 DEF Located, Seated, Locked, TakeSecond, GoTo
  <2>2. Telling'
    BY <1>8, <1>a DEF Located, Seated, Locked, Telling, TakeSecond, GoTo
  <2>3. Readied'
    BY <1>8 DEF Located, Seated, Locked, Readied, TakeSecond, GoTo
  <2>4. Heard'
    BY <1>8, <1>a DEF Heard, Telling, Informed, TakeSecond, GoTo
  <2>5. QED
    BY <2>1, <2>2, <2>3, <2>4
<1>9. ASSUME NEW c \in Conns, RoomFull(c) PROVE TellInv'
  <2>1. Locked'
    BY <1>9 DEF Located, Seated, Locked, RoomFull, Refuse, CloseAll, GoTo
  <2>2. Telling'
    BY <1>9, <1>a DEF Located, Seated, Locked, Telling, RoomFull, Refuse, CloseAll, GoTo
  <2>3. Readied'
    BY <1>9 DEF Located, Seated, Locked, Readied, RoomFull, Refuse, CloseAll, GoTo
  <2>4. Heard'
    BY <1>9, <1>a DEF Heard, Telling, Informed, RoomFull, Refuse, CloseAll, GoTo
  <2>5. QED
    BY <2>1, <2>2, <2>3, <2>4
<1>10. ASSUME NEW c \in Conns, BeginGreeting(c) PROVE TellInv'
  <2>1. Locked'
    BY <1>10 DEF Located, Seated, Locked, BeginGreeting, GoTo
  <2>2. Telling'
    BY <1>10, <1>a DEF Located, Seated, Locked, Telling, BeginGreeting, GoTo
  <2>3. Readied'
    BY <1>10 DEF Located, Seated, Locked, Readied, BeginGreeting, GoTo
  <2>4. Heard'
    BY <1>10, <1>a DEF Heard, Telling, Informed, BeginGreeting, GoTo
  <2>5. QED
    BY <2>1, <2>2, <2>3, <2>4
<1>11. ASSUME NEW c \in Conns, EndGreeting(c) PROVE TellInv'
  <2>1. Locked'
    BY <1>11 DEF Located, Seated, Locked, EndGreeting, FramesOf, GoTo
  <2>2. Telling'
    BY <1>11, <1>a DEF Located, Seated, Locked, Telling, EndGreeting, FramesOf, GoTo
  <2>3. Readied'
    BY <1>11 DEF Located, Seated, Locked, Readied, EndGreeting, FramesOf, GoTo
  <2>4. Heard'
    BY <1>11, <1>a DEF Heard, Telling, Informed, EndGreeting, FramesOf, GoTo
  <2>5. QED
    BY <2>1, <2>2, <2>3, <2>4
<1>12. ASSUME NEW c \in Conns, GreetingPanics(c) PROVE TellInv'
  <2>1. Locked'
    BY <1>12 DEF Located, Seated, Locked, GreetingPanics, GoTo
  <2>2. Telling'
    BY <1>12, <1>a DEF Located, Seated, Locked, Telling, GreetingPanics, GoTo
  <2>3. Readied'
    BY <1>12 DEF Located, Seated, Locked, Readied, GreetingPanics, GoTo
  <2>4. Heard'
    BY <1>12, <1>a DEF Heard, Telling, Informed, GreetingPanics, GoTo
  <2>5. QED
    BY <2>1, <2>2, <2>3, <2>4
<1>13. ASSUME NEW c \in Conns, StartPipe(c) PROVE TellInv'
  <2>1. Locked'
    BY <1>13 DEF Located, Seated, Locked, StartPipe, Awake, GoTo
  <2>2. Telling'
    BY <1>13, <1>a DEF Located, Seated, Locked, Telling, StartPipe, Awake, GoTo
  <2>3. Readied'
    BY <1>13 DEF Located, Seated, Locked, Readied, StartPipe, Awake, GoTo
  <2>4. Heard'
    BY <1>13, <1>a DEF Heard, Telling, Informed, StartPipe, Awake, GoTo
  <2>5. QED
    BY <2>1, <2>2, <2>3, <2>4
<1>14. ASSUME NEW c \in Conns, FindRoomEmptied(c) PROVE TellInv'
  <2>1. Locked'
    BY <1>14 DEF Located, Seated, Locked, FindRoomEmptied, Awake, GoTo
  <2>2. Telling'
    BY <1>14, <1>a DEF Located, Seated, Locked, Telling, FindRoomEmptied, Awake, GoTo
  <2>3. Readied'
    BY <1>14 DEF Located, Seated, Locked, Readied, FindRoomEmptied, Awake, GoTo
  <2>4. Heard'
    BY <1>14, <1>a DEF Heard, Telling, Informed, FindRoomEmptied, Awake, GoTo
  <2>5. QED
    BY <2>1, <2>2, <2>3, <2>4
<1>15. ASSUME NEW c \in Conns, FinishFirst(c) PROVE TellInv'
  <2>1. Locked'
    BY <1>15 DEF Located, Seated, Locked, FinishFirst, Piped, Unmap, CloseDone, GoTo
  <2>2. Telling'
    BY <1>15, <1>a DEF Located, Seated, Locked, Telling, FinishFirst, Piped, Unmap, CloseDone, GoTo
  <2>3. Readied'
    BY <1>15 DEF Located, Seated, Locked, Readied, FinishFirst, Piped, Unmap, CloseDone, GoTo
  <2>4. Heard'
    BY <1>15, <1>a DEF Heard, Telling, Informed, FinishFirst, Piped, Unmap, CloseDone, GoTo
  <2>5. QED
    BY <2>1, <2>2, <2>3, <2>4
<1>16. ASSUME NEW c \in Conns, EndPairing(c) PROVE TellInv'
  <2>1. Locked'
    BY <1>16 DEF Located, Seated, Locked, EndPairing, FramesOf, GoTo
  <2>2. Telling'
    <3> DEFINE f == first[room[c]]
    <3>a. pc[c] = "pairing" /\ room[c] \in Conns
      BY <1>16 DEF EndPairing, Located
    <3>1. room[c] \in Conns /\ pc[c] = "pairing" /\ second[room[c]] = c
      BY <1>16, <3>a DEF Locked
    <3>2. f \in Conns /\ sock[f] # "unused"
      BY <1>16, <3>1 DEF Seated
    <3>3. PICK m \in {"paired", "garbled"} : out' = Write(f, m)
      BY <1>16 DEF EndPairing, FramesOf
    <3>4. sock' = sock
      BY <1>16 DEF EndPairing
    <3>5. f \in Informed'
      BY <3>2, <3>3, <3>4, WriteInforms DEF Frames
    <3>6. QED
      BY <1>16, <1>a, <3>1, <3>5 DEF Locked, Telling, EndPairing, GoTo
  <2>3. Readied'
    BY <1>16 DEF Located, Seated, Locked, Readied, EndPairing, FramesOf, GoTo
  <2>4. Heard'
    BY <1>16, <1>a DEF Heard, Telling, Informed, EndPairing, FramesOf, GoTo
  <2>5. QED
    BY <2>1, <2>2, <2>3, <2>4
<1>17. ASSUME NEW c \in Conns, PairingPanics(c) PROVE TellInv'
  <2>1. Locked'
    BY <1>17 DEF Located, Seated, Locked, PairingPanics, GoTo
  <2>2. Telling'
    BY <1>17, <1>a DEF Located, Seated, Locked, Telling, PairingPanics, GoTo
  <2>3. Readied'
    BY <1>17 DEF Located, Seated, Locked, Readied, PairingPanics, GoTo
  <2>4. Heard'
    BY <1>17, <1>a DEF Heard, Telling, Informed, PairingPanics, GoTo
  <2>5. QED
    BY <2>1, <2>2, <2>3, <2>4
<1>18. ASSUME NEW c \in Conns, PairSecond(c) PROVE TellInv'
  <2>a. room[c] \in Conns /\ pc[c] = "pairSecond" /\ mu[room[c]] = c
    BY <1>18 DEF PairSecond, Located, Locked
  <2>1. Locked'
    BY <1>18 DEF Located, Seated, Locked, PairSecond, GoTo
  <2>2. Telling'
    <3>1. second[room[c]] = c /\ first[room[c]] \in Informed
      BY <2>a DEF Locked, Telling
    <3>2. c \in Informed'
      BY <1>18, <2>a, WriteInforms DEF PairSecond, Frames, Located
    <3>3. QED
      BY <1>18, <1>a, <2>a, <3>1, <3>2 DEF Locked, Telling, PairSecond, GoTo
  <2>3. Readied'
    <3>1. second[room[c]] = c
      BY <1>18, <2>a DEF Locked
    <3>2. QED
      BY <1>18, <2>a, <3>1 DEF Readied, PairSecond
  <2>4. Heard'
    BY <1>18, <1>a DEF Heard, Telling, Informed, PairSecond, GoTo
  <2>5. QED
    BY <2>1, <2>2, <2>3, <2>4
<1>19. ASSUME NEW c \in Conns, SecondWakes(c) PROVE TellInv'
  <2>1. Locked'
    BY <1>19 DEF Located, Seated, Locked, SecondWakes, Unmap, GoTo
  <2>2. Telling'
    BY <1>19, <1>a DEF Located, Seated, Locked, Telling, SecondWakes, Unmap, GoTo
  <2>3. Readied'
    BY <1>19 DEF Located, Seated, Locked, Readied, SecondWakes, Unmap, GoTo
  <2>4. Heard'
    BY <1>19, <1>a DEF Heard, Telling, Informed, SecondWakes, Unmap, GoTo
  <2>5. QED
    BY <2>1, <2>2, <2>3, <2>4
<1>20. ASSUME NEW c \in Conns, SecondTimesOut(c) PROVE TellInv'
  <2>1. Locked'
    BY <1>20 DEF Located, Seated, Locked, SecondTimesOut, Unmap, GoTo
  <2>2. Telling'
    BY <1>20, <1>a DEF Located, Seated, Locked, Telling, SecondTimesOut, Unmap, GoTo
  <2>3. Readied'
    BY <1>20 DEF Located, Seated, Locked, Readied, SecondTimesOut, Unmap, GoTo
  <2>4. Heard'
    BY <1>20, <1>a DEF Heard, Telling, Informed, SecondTimesOut, Unmap, GoTo
  <2>5. QED
    BY <2>1, <2>2, <2>3, <2>4
<1>21. ASSUME NEW c \in Conns, NEW src \in Conns, Forward(c, src) PROVE TellInv'
  <2>1. Locked'
    BY <1>21 DEF Located, Seated, Locked, Forward, Forwarding
  <2>2. Telling'
    BY <1>21, <1>a DEF Located, Seated, Locked, Telling, Forward, Forwarding
  <2>3. Readied'
    BY <1>21 DEF Located, Seated, Locked, Readied, Forward, Forwarding
  <2>4. Heard'
    BY <1>21, <1>a DEF Heard, Telling, Informed, Open, Forward, Forwarding
  <2>5. QED
    BY <2>1, <2>2, <2>3, <2>4
<1>22. ASSUME NEW c \in Conns, NEW src \in Conns, ReadFails(c, src) PROVE TellInv'
  <2>1. Locked'
    BY <1>22 DEF Located, Seated, Locked, ReadFails, Forwarding, EndForward, CloseAll
  <2>2. Telling'
    BY <1>22, <1>a DEF Located, Seated, Locked, Telling, ReadFails, Forwarding, EndForward, CloseAll
  <2>3. Readied'
    BY <1>22 DEF Located, Seated, Locked, Readied, ReadFails, Forwarding, EndForward, CloseAll
  <2>4. Heard'
    BY <1>22, <1>a DEF Heard, Telling, Informed, ReadFails, Forwarding, EndForward, CloseAll
  <2>5. QED
    BY <2>1, <2>2, <2>3, <2>4
<1>23. ASSUME NEW c \in Conns, NEW src \in Conns, WriteFails(c, src) PROVE TellInv'
  <2>1. Locked'
    BY <1>23 DEF Located, Seated, Locked, WriteFails, Forwarding, EndForward, CloseAll
  <2>2. Telling'
    BY <1>23, <1>a DEF Located, Seated, Locked, Telling, WriteFails, Forwarding, EndForward, CloseAll
  <2>3. Readied'
    BY <1>23 DEF Located, Seated, Locked, Readied, WriteFails, Forwarding, EndForward, CloseAll
  <2>4. Heard'
    BY <1>23, <1>a DEF Heard, Telling, Informed, WriteFails, Forwarding, EndForward, CloseAll
  <2>5. QED
    BY <2>1, <2>2, <2>3, <2>4
<1>24. ASSUME NEW c \in Conns, NEW src \in Conns, WatchedClose(c, src) PROVE TellInv'
  <2>1. Locked'
    BY <1>24 DEF Located, Seated, Locked, WatchedClose, Forwarding, Expire, CloseAll
  <2>2. Telling'
    BY <1>24, <1>a DEF Located, Seated, Locked, Telling, WatchedClose, Forwarding, Expire, CloseAll
  <2>3. Readied'
    BY <1>24 DEF Located, Seated, Locked, Readied, WatchedClose, Forwarding, Expire, CloseAll
  <2>4. Heard'
    BY <1>24, <1>a DEF Heard, Telling, Informed, WatchedClose, Forwarding, Expire, CloseAll
  <2>5. QED
    BY <2>1, <2>2, <2>3, <2>4
<1>25. ASSUME NEW r \in Conns, GoIdle(r) PROVE TellInv'
  <2>1. Locked'
    BY <1>25 DEF Located, Seated, Locked, GoIdle
  <2>2. Telling'
    BY <1>25, <1>a DEF Located, Seated, Locked, Telling, GoIdle
  <2>3. Readied'
    BY <1>25 DEF Located, Seated, Locked, Readied, GoIdle
  <2>4. Heard'
    BY <1>25, <1>a DEF Heard, Telling, Informed, GoIdle
  <2>5. QED
    BY <2>1, <2>2, <2>3, <2>4
<1>26. ASSUME ForwardersCollide PROVE TellInv'
  <2>1. Locked'
    BY <1>26 DEF Located, Seated, Locked, ForwardersCollide
  <2>2. Telling'
    <3>1. \A r \in Conns : \A d \in {first[r], second[r]} \ {None} : d \in Informed'
      BY <1>26 DEF Seated, ForwardersCollide, Informed, Open
    <3>2. QED
      BY <1>26, <3>1 DEF Seated, Telling, ForwardersCollide
  <2>3. Readied'
    BY <1>26 DEF Located, Seated, Locked, Readied, ForwardersCollide
  <2>4. Heard'
    BY <1>26, <1>a DEF Heard, Telling, Informed, ForwardersCollide
  <2>5. QED
    BY <2>1, <2>2, <2>3, <2>4
<1>27. ASSUME SweepStart PROVE TellInv'
  <2>1. Locked'
    BY <1>27 DEF Located, Seated, Locked, SweepStart, Mapped
  <2>2. Telling'
    BY <1>27, <1>a DEF Located, Seated, Locked, Telling, SweepStart, Mapped
  <2>3. Readied'
    BY <1>27 DEF Located, Seated, Locked, Readied, SweepStart, Mapped
  <2>4. Heard'
    BY <1>27, <1>a DEF Heard, Telling, Informed, SweepStart, Mapped
  <2>5. QED
    BY <2>1, <2>2, <2>3, <2>4
<1>28. ASSUME NEW n \in Names, SweepVisit(n) PROVE TellInv'
  <2>1. Locked'
    BY <1>28 DEF Located, Seated, Locked, SweepVisit
  <2>2. Telling'
    BY <1>28, <1>a DEF Located, Seated, Locked, Telling, SweepVisit
  <2>3. Readied'
    BY <1>28 DEF Located, Seated, Locked, Readied, SweepVisit
  <2>4. Heard'
    BY <1>28, <1>a DEF Heard, Telling, Informed, SweepVisit
  <2>5. QED
    BY <2>1, <2>2, <2>3, <2>4
<1>29. ASSUME SweepRelease PROVE TellInv'
  <2>1. Locked'
    BY <1>29 DEF Located, Seated, Locked, SweepRelease
  <2>2. Telling'
    BY <1>29, <1>a DEF Located, Seated, Locked, Telling, SweepRelease
  <2>3. Readied'
    BY <1>29 DEF Located, Seated, Locked, Readied, SweepRelease
  <2>4. Heard'
    BY <1>29, <1>a DEF Heard, Telling, Informed, SweepRelease
  <2>5. QED
    BY <2>1, <2>2, <2>3, <2>4
<1>30. ASSUME NEW r \in Conns, ExpireRoom(r) PROVE TellInv'
  <2>1. Locked'
    BY <1>30 DEF Located, Seated, Locked, ExpireRoom, Expire, CloseAll
  <2>2. Telling'
    BY <1>30, <1>a DEF Located, Seated, Locked, Telling, ExpireRoom, Expire, CloseAll
  <2>3. Readied'
    BY <1>30 DEF Located, Seated, Locked, Readied, ExpireRoom, Expire, CloseAll
  <2>4. Heard'
    BY <1>30, <1>a DEF Heard, Telling, Informed, ExpireRoom, Expire, CloseAll
  <2>5. QED
    BY <2>1, <2>2, <2>3, <2>4
<1>31. ASSUME UNCHANGED vars PROVE TellInv'
  <2>1. Locked'
    BY <1>31 DEF Located, Seated, Locked, vars
  <2>2. Telling'
    BY <1>31, <1>a DEF Located, Seated, Locked, Telling, vars
  <2>3. Readied'
    BY <1>31 DEF Located, Seated, Locked, Readied, vars
  <2>4. Heard'
    BY <1>31, <1>a DEF Heard, Telling, Informed, vars
  <2>5. QED
    BY <2>1, <2>2, <2>3, <2>4
<1>32. QED
  BY <1>1, <1>2, <1>3, <1>4, <1>5, <1>6, <1>7, <1>8, <1>9, <1>10, <1>11, <1>12, <1>13, <1>14, <1>15, <1>16, <1>17, <1>18, <1>19, <1>20, <1>21, <1>22, <1>23, <1>24, <1>25, <1>26, <1>27, <1>28, <1>29, <1>30, <1>31 DEF Next, Client, Handler, Pipe, Sweep

\* Nobody was told anything and nothing was heard at the start.
LEMMA TellInit == Init => TellInv
  BY RelayAssumption DEF Init, TellInv, Locked, Telling, Readied, Heard

\* The order of the pairing holds throughout.
LEMMA TellCorrect == Spec => []TellInv
<1>1. Init => TellInv
  BY TellInit
<1>2. SeatInv /\ SeatInv' /\ TellInv /\ [Next]_vars => TellInv'
  BY TellNext
<1>3. QED
  BY <1>1, <1>2, SeatCorrect, PTL DEF Spec

\* No byte of a peer reaches a client that has not been told of the peer, for any
\* number of clients, rooms and expiries: "paired" is written before ready is
\* closed, and a pipe starts only after both.
THEOREM PairedComesFirst == Spec => []NoDataBeforePaired
<1>1. TellInv => NoDataBeforePaired
  BY DEF TellInv, Heard, NoDataBeforePaired, PairTold
<1>2. QED
  BY <1>1, TellCorrect, PTL

\* ready means that two different clients sit in the room and both know, for any
\* number of clients: the seats are only emptied by an expiry.
THEOREM ReadyIsPaired == Spec => []ReadyMeansPaired
<1>1. SeatInv /\ TellInv => ReadyMeansPaired
  <2> SUFFICES ASSUME SeatInv, TellInv, NEW r \in Conns, ready[r], r \notin expired
               PROVE  /\ first[r] # None /\ second[r] # None
                      /\ first[r] # second[r]
                      /\ \A c \in {first[r], second[r]} :
                            Open(c) => Told(c, "paired") \/ Told(c, "garbled")
    BY DEF ReadyMeansPaired
  <2>1. second[r] # None /\ mu[r] = None
    BY DEF TellInv, Readied
  <2>2. first[r] # None /\ first[r] # second[r]
    BY <2>1 DEF SeatInv, Seated
  <2>3. {first[r], second[r]} \subseteq Informed
    BY <2>1 DEF TellInv, Telling
  <2>4. QED
    BY <2>1, <2>2, <2>3 DEF Informed, PairTold, Open
<1>2. QED
  BY <1>1, TellCorrect, SeatCorrect, PTL

-----------------------------------------------------------------------------
(* The pipe of a pair                                                        *)

\* Whose handler does what in a room that has not expired.
Roles ==
    /\ \A c \in Conns : pc[c] = "unmap" => room[c] \in expired
    /\ \A c \in Conns : pc[c] \in {"greet", "greeting", "wait", "pipe"} =>
          room[c] \in expired \/ first[room[c]] = c
    /\ \A c \in Conns : pc[c] \in {"pairing", "pairSecond", "waitDone"} =>
          room[c] \in expired \/ second[room[c]] = c
    /\ \A c, s \in Conns : pipes[c][s] # None => pc[c] = "pipe" /\ room[s] = room[c]

Shut == {c \in Conns : sock[c] = "closed"}

\* A goroutine that has stopped left its destination closed.
Stopped ==
    \A c \in Conns : pc[c] = "pipe" /\ room[c] \notin expired =>
        /\ second[room[c]] # None
        /\ \A s \in Conns :
              s \in {first[room[c]], second[room[c]]} /\ pipes[c][s] = None
                  => mate[s] \in Shut

Over ==
    \A r \in Conns : done[r] /\ r \notin expired =>
        second[r] # None /\ {first[r], second[r]} \subseteq Shut

PipeInv == Roles /\ Stopped /\ Over /\ NobodyAbandoned

-----------------------------------------------------------------------------

\* The set of closed connections only grows.
LEMMA ShutStays ==
    ASSUME SeatInv, [Next]_vars
    PROVE  Shut \subseteq Shut'
  BY ClosedForGood DEF Shut

\* Every step keeps who pipes what, what a stopped forwarder has closed, and what
\* closed done means (pipeConnections, closeDone).
LEMMA PipeNext ==
    SeatInv /\ SeatInv' /\ TellInv /\ PipeInv /\ [Next]_vars => PipeInv'
<1> SUFFICES ASSUME SeatInv, SeatInv', TellInv, PipeInv, [Next]_vars PROVE PipeInv'
  OBVIOUS
<1> USE RelayAssumption DEF SeatInv, TypeOK, PipeInv, mapVars, roomVars, connVars,
        traceVars
<1>a. Shut \subseteq Shut'
  BY ShutStays DEF SeatInv
<1>1. ASSUME NEW c \in Conns, NEW n \in Names, Join(c, n) PROVE PipeInv'
  <2>1. Roles'
    BY <1>1 DEF Located, Seated, Roles, Join, GoTo
  <2>2. Stopped'
    BY <1>1, <1>a DEF Located, Seated, Roles, Stopped, Join, GoTo
  <2>3. Over'
    BY <1>1, <1>a DEF Located, Seated, Over, Roles, Stopped, Join, GoTo
  <2>4. NobodyAbandoned'
    BY <1>1 DEF Located, Over, NobodyAbandoned, Shut, Open, Join, GoTo
  <2>5. QED
    BY <2>1, <2>2, <2>3, <2>4
<1>2. ASSUME NEW c \in Conns, RefuseJoin(c) PROVE PipeInv'
  <2>1. Roles'
    BY <1>2 DEF Located, Seated, Roles, RefuseJoin, GoTo
  <2>2. Stopped'
    BY <1>2, <1>a DEF Located, Seated, Roles, Stopped, RefuseJoin, GoTo
  <2>3. Over'
    BY <1>2, <1>a DEF Located, Seated, Over, Roles, Stopped, RefuseJoin, GoTo
  <2>4. NobodyAbandoned'
    BY <1>2 DEF Located, Over, NobodyAbandoned, Shut, Open, RefuseJoin, GoTo
  <2>5. QED
    BY <2>1, <2>2, <2>3, <2>4
<1>3. ASSUME NEW c \in Conns, HangUp(c) PROVE PipeInv'
  <2>1. Roles'
    BY <1>3 DEF Located, Seated, Roles, HangUp
  <2>2. Stopped'
    BY <1>3, <1>a DEF Located, Seated, Roles, Stopped, HangUp
  <2>3. Over'
    BY <1>3, <1>a DEF Located, Seated, Over, Roles, Stopped, HangUp
  <2>4. NobodyAbandoned'
    BY <1>3 DEF Located, Over, NobodyAbandoned, Shut, Open, HangUp
  <2>5. QED
    BY <2>1, <2>2, <2>3, <2>4
<1>4. ASSUME NEW c \in Conns, FindRoom(c) PROVE PipeInv'
  <2>1. Roles'
    BY <1>4 DEF Located, Seated, Mated, Roles, FindRoom, Lookup, GoTo
  <2>2. Stopped'
    BY <1>4, <1>a DEF Located, Seated, Roles, Stopped, FindRoom, Lookup, GoTo
  <2>3. Over'
    BY <1>4, <1>a DEF Located, Seated, Over, Roles, Stopped, FindRoom, Lookup, GoTo
  <2>4. NobodyAbandoned'
    BY <1>4 DEF Located, Over, NobodyAbandoned, Shut, Open, FindRoom, Lookup, GoTo
  <2>5. QED
    BY <2>1, <2>2, <2>3, <2>4
<1>5. ASSUME NEW c \in Conns, CreateRoom(c) PROVE PipeInv'
  <2>1. Roles'
    BY <1>5 DEF Located, Seated, Mated, Roles, CreateRoom, Lookup, GoTo
  <2>2. Stopped'
    BY <1>5, <1>a DEF Located, Seated, Roles, Stopped, CreateRoom, Lookup, GoTo
  <2>3. Over'
    BY <1>5, <1>a DEF Located, Seated, Over, Roles, Stopped, CreateRoom, Lookup, GoTo
  <2>4. NobodyAbandoned'
    BY <1>5 DEF Located, Over, NobodyAbandoned, Shut, Open, CreateRoom, Lookup, GoTo
  <2>5. QED
    BY <2>1, <2>2, <2>3, <2>4
<1>6. ASSUME NEW c \in Conns, ServerBusy(c) PROVE PipeInv'
  <2>1. Roles'
    BY <1>6 DEF Located, Seated, Roles, ServerBusy, Refuse, CloseAll, GoTo
  <2>2. Stopped'
    BY <1>6, <1>a DEF Located, Seated, Roles, Stopped, ServerBusy, Refuse, CloseAll, GoTo
  <2>3. Over'
    BY <1>6, <1>a DEF Located, Seated, Over, Roles, Stopped, ServerBusy, Refuse, CloseAll, GoTo
  <2>4. NobodyAbandoned'
    BY <1>6 DEF Located, Over, NobodyAbandoned, Shut, Open, ServerBusy, Refuse, CloseAll, GoTo
  <2>5. QED
    BY <2>1, <2>2, <2>3, <2>4
<1>7. ASSUME NEW c \in Conns, TakeFirst(c) PROVE PipeInv'
  <2>1. Roles'
    BY <1>7 DEF Located, Seated, Roles, TakeFirst, GoTo
  <2>2. Stopped'
    BY <1>7, <1>a DEF Located, Seated, Roles, Stopped, TakeFirst, GoTo
  <2>3. Over'
    BY <1>7, <1>a DEF Located, Seated, Over, Roles, Stopped, TakeFirst, GoTo
  <2>4. NobodyAbandoned'
    BY <1>7 DEF Located, Over, NobodyAbandoned, Shut, Open, TakeFirst, GoTo
  <2>5. QED
    BY <2>1, <2>2, <2>3, <2>4
<1>8. ASSUME NEW c \in Conns, TakeSecond(c) PROVE PipeInv'
  <2>1. Roles'
    BY <1>8 DEF Located, Seated, Roles, TakeSecond, GoTo
  <2>2. Stopped'
    <3> DEFINE r == room[c]
    <3>1. r \in Conns /\ first[r] \in Conns /\ second[r] = None /\ pc[c] = "enter"
      BY <1>8 DEF TakeSecond, Located
    <3>2. \A d \in Conns : pc'[d] = "pipe" /\ room'[d] \notin expired' =>
             pc[d] = "pipe" /\ room[d] # r /\ room[d] \in Conns
      <4> SUFFICES ASSUME NEW d \in Conns, pc'[d] = "pipe", room'[d] \notin expired'
                   PROVE  pc[d] = "pipe" /\ room[d] # r /\ room[d] \in Conns
        OBVIOUS
      <4>1. pc[d] = "pipe" /\ room[d] \notin expired
        BY <1>8 DEF TakeSecond, GoTo
      <4>2. room[d] \in Conns
        BY <4>1 DEF Located
      <4>3. second[room[d]] # None
        BY <4>1 DEF Stopped
      <4>4. QED
        BY <3>1, <4>1, <4>2, <4>3
    <3>3. \A q \in Conns : q # r => first'[q] = first[q] /\ second'[q] = second[q]
      BY <1>8, <3>1 DEF TakeSecond
    <3>4. \A q, s \in Conns : q # r /\ s \in {first[q], second[q]} => mate'[s] = mate[s]
      BY <1>8, <3>1 DEF TakeSecond, Seated
    <3>5. pipes' = pipes /\ room' = room /\ expired' = expired
      BY <1>8 DEF TakeSecond
    <3>6. QED
      BY <1>a, <3>2, <3>3, <3>4, <3>5 DEF Stopped
  <2>3. Over'
    BY <1>8, <1>a DEF Located, Seated, Over, Roles, Stopped, TakeSecond, GoTo
  <2>4. NobodyAbandoned'
    BY <1>8 DEF Located, Over, NobodyAbandoned, Shut, Open, TakeSecond, GoTo
  <2>5. QED
    BY <2>1, <2>2, <2>3, <2>4
<1>9. ASSUME NEW c \in Conns, RoomFull(c) PROVE PipeInv'
  <2>1. Roles'
    BY <1>9 DEF Located, Seated, Roles, RoomFull, Refuse, CloseAll, GoTo
  <2>2. Stopped'
    BY <1>9, <1>a DEF Located, Seated, Roles, Stopped, RoomFull, Refuse, CloseAll, GoTo
  <2>3. Over'
    BY <1>9, <1>a DEF Located, Seated, Over, Roles, Stopped, RoomFull, Refuse, CloseAll, GoTo
  <2>4. NobodyAbandoned'
    BY <1>9 DEF Located, Over, NobodyAbandoned, Shut, Open, RoomFull, Refuse, CloseAll, GoTo
  <2>5. QED
    BY <2>1, <2>2, <2>3, <2>4
<1>10. ASSUME NEW c \in Conns, BeginGreeting(c) PROVE PipeInv'
  <2>1. Roles'
    BY <1>10 DEF Located, Seated, Roles, BeginGreeting, GoTo
  <2>2. Stopped'
    BY <1>10, <1>a DEF Located, Seated, Roles, Stopped, BeginGreeting, GoTo
  <2>3. Over'
    BY <1>10, <1>a DEF Located, Seated, Over, Roles, Stopped, BeginGreeting, GoTo
  <2>4. NobodyAbandoned'
    BY <1>10 DEF Located, Over, NobodyAbandoned, Shut, Open, BeginGreeting, GoTo
  <2>5. QED
    BY <2>1, <2>2, <2>3, <2>4
<1>11. ASSUME NEW c \in Conns, EndGreeting(c) PROVE PipeInv'
  <2>1. Roles'
    BY <1>11 DEF Located, Seated, Roles, EndGreeting, GoTo
  <2>2. Stopped'
    BY <1>11, <1>a DEF Located, Seated, Roles, Stopped, EndGreeting, GoTo
  <2>3. Over'
    BY <1>11, <1>a DEF Located, Seated, Over, Roles, Stopped, EndGreeting, GoTo
  <2>4. NobodyAbandoned'
    BY <1>11 DEF Located, Over, NobodyAbandoned, Shut, Open, EndGreeting, GoTo
  <2>5. QED
    BY <2>1, <2>2, <2>3, <2>4
<1>12. ASSUME NEW c \in Conns, GreetingPanics(c) PROVE PipeInv'
  <2>1. Roles'
    BY <1>12 DEF Located, Seated, Roles, GreetingPanics, GoTo
  <2>2. Stopped'
    BY <1>12, <1>a DEF Located, Seated, Roles, Stopped, GreetingPanics, GoTo
  <2>3. Over'
    BY <1>12, <1>a DEF Located, Seated, Over, Roles, Stopped, GreetingPanics, GoTo
  <2>4. NobodyAbandoned'
    BY <1>12 DEF Located, Over, NobodyAbandoned, Shut, Open, GreetingPanics, GoTo
  <2>5. QED
    BY <2>1, <2>2, <2>3, <2>4
<1>13. ASSUME NEW c \in Conns, StartPipe(c) PROVE PipeInv'
  <2>1. Roles'
    BY <1>13 DEF Located, Seated, Roles, StartPipe, Awake, GoTo
  <2>2. Stopped'
    BY <1>13, <1>a DEF Located, Seated, Roles, Stopped, StartPipe, Awake, GoTo
  <2>3. Over'
    BY <1>13, <1>a DEF Located, Seated, Over, Roles, Stopped, StartPipe, Awake, GoTo
  <2>4. NobodyAbandoned'
    BY <1>13 DEF Located, Over, NobodyAbandoned, Shut, Open, StartPipe, Awake, GoTo
  <2>5. QED
    BY <2>1, <2>2, <2>3, <2>4
<1>14. ASSUME NEW c \in Conns, FindRoomEmptied(c) PROVE PipeInv'
  <2>1. Roles'
    BY <1>14 DEF Located, Seated, Roles, TellInv, Readied, FindRoomEmptied, Awake, GoTo
  <2>2. Stopped'
    BY <1>14, <1>a DEF Located, Seated, Roles, Stopped, FindRoomEmptied, Awake, GoTo
  <2>3. Over'
    BY <1>14, <1>a DEF Located, Seated, Over, Roles, Stopped, FindRoomEmptied, Awake, GoTo
  <2>4. NobodyAbandoned'
    BY <1>14 DEF Located, Over, NobodyAbandoned, Shut, Open, FindRoomEmptied, Awake, GoTo
  <2>5. QED
    BY <2>1, <2>2, <2>3, <2>4
<1>15. ASSUME NEW c \in Conns, FinishFirst(c) PROVE PipeInv'
  <2>1. Roles'
    BY <1>15 DEF Located, Seated, Roles, FinishFirst, Piped, Unmap, CloseDone, GoTo
  <2>2. Stopped'
    BY <1>15, <1>a DEF Located, Seated, Roles, Stopped, FinishFirst, Piped, Unmap, CloseDone, GoTo
  <2>3. Over'
    BY <1>15, <1>a DEF Located, Seated, Mated, Over, Roles, Stopped, FinishFirst, Piped, Unmap, CloseDone, GoTo
  <2>4. NobodyAbandoned'
    BY <1>15 DEF Located, Seated, Mated, Roles, Stopped, Over, NobodyAbandoned, Shut, Open, FinishFirst, Piped, Unmap, CloseDone, GoTo
  <2>5. QED
    BY <2>1, <2>2, <2>3, <2>4
<1>16. ASSUME NEW c \in Conns, EndPairing(c) PROVE PipeInv'
  <2>1. Roles'
    BY <1>16 DEF Located, Seated, Roles, EndPairing, GoTo
  <2>2. Stopped'
    BY <1>16, <1>a DEF Located, Seated, Roles, Stopped, EndPairing, GoTo
  <2>3. Over'
    BY <1>16, <1>a DEF Located, Seated, Over, Roles, Stopped, EndPairing, GoTo
  <2>4. NobodyAbandoned'
    BY <1>16 DEF Located, Over, NobodyAbandoned, Shut, Open, EndPairing, GoTo
  <2>5. QED
    BY <2>1, <2>2, <2>3, <2>4
<1>17. ASSUME NEW c \in Conns, PairingPanics(c) PROVE PipeInv'
  <2>1. Roles'
    BY <1>17 DEF Located, Seated, Roles, PairingPanics, GoTo
  <2>2. Stopped'
    BY <1>17, <1>a DEF Located, Seated, Roles, Stopped, PairingPanics, GoTo
  <2>3. Over'
    BY <1>17, <1>a DEF Located, Seated, Over, Roles, Stopped, PairingPanics, GoTo
  <2>4. NobodyAbandoned'
    BY <1>17 DEF Located, Over, NobodyAbandoned, Shut, Open, PairingPanics, GoTo
  <2>5. QED
    BY <2>1, <2>2, <2>3, <2>4
<1>18. ASSUME NEW c \in Conns, PairSecond(c) PROVE PipeInv'
  <2>1. Roles'
    BY <1>18 DEF Located, Seated, Roles, PairSecond, GoTo
  <2>2. Stopped'
    BY <1>18, <1>a DEF Located, Seated, Roles, Stopped, PairSecond, GoTo
  <2>3. Over'
    BY <1>18, <1>a DEF Located, Seated, Over, Roles, Stopped, PairSecond, GoTo
  <2>4. NobodyAbandoned'
    BY <1>18 DEF Located, Over, NobodyAbandoned, Shut, Open, PairSecond, GoTo
  <2>5. QED
    BY <2>1, <2>2, <2>3, <2>4
<1>19. ASSUME NEW c \in Conns, SecondWakes(c) PROVE PipeInv'
  <2>1. Roles'
    BY <1>19 DEF Located, Seated, Roles, SecondWakes, Unmap, GoTo
  <2>2. Stopped'
    BY <1>19, <1>a DEF Located, Seated, Roles, Stopped, SecondWakes, Unmap, GoTo
  <2>3. Over'
    BY <1>19, <1>a DEF Located, Seated, Over, Roles, Stopped, SecondWakes, Unmap, GoTo
  <2>4. NobodyAbandoned'
    BY <1>19 DEF Located, Roles, Over, NobodyAbandoned, Shut, Open, SecondWakes, Unmap, GoTo
  <2>5. QED
    BY <2>1, <2>2, <2>3, <2>4
<1>20. ASSUME NEW c \in Conns, SecondTimesOut(c) PROVE PipeInv'
  <2>1. Roles'
    BY <1>20 DEF Located, Seated, Roles, SecondTimesOut, Unmap, GoTo
  <2>2. Stopped'
    BY <1>20, <1>a DEF Located, Seated, Roles, Stopped, SecondTimesOut, Unmap, GoTo
  <2>3. Over'
    BY <1>20, <1>a DEF Located, Seated, Over, Roles, Stopped, SecondTimesOut, Unmap, GoTo
  <2>4. NobodyAbandoned'
    BY <1>20 DEF Located, Over, NobodyAbandoned, Shut, Open, SecondTimesOut, Unmap, GoTo
  <2>5. QED
    BY <2>1, <2>2, <2>3, <2>4
<1>21. ASSUME NEW c \in Conns, NEW src \in Conns, Forward(c, src) PROVE PipeInv'
  <2>1. Roles'
    BY <1>21 DEF Located, Seated, Roles, Forward, Forwarding
  <2>2. Stopped'
    BY <1>21, <1>a DEF Located, Seated, Roles, Stopped, Forward, Forwarding
  <2>3. Over'
    BY <1>21, <1>a DEF Located, Seated, Over, Roles, Stopped, Forward, Forwarding
  <2>4. NobodyAbandoned'
    BY <1>21 DEF Located, Over, NobodyAbandoned, Shut, Open, Forward, Forwarding
  <2>5. QED
    BY <2>1, <2>2, <2>3, <2>4
<1>22. ASSUME NEW c \in Conns, NEW src \in Conns, ReadFails(c, src) PROVE PipeInv'
  <2>1. Roles'
    BY <1>22 DEF Located, Seated, Roles, ReadFails, Forwarding, EndForward, CloseAll
  <2>2. Stopped'
    BY <1>22, <1>a DEF Located, Seated, Mated, Roles, Stopped, Shut, ReadFails, Forwarding, EndForward, CloseAll
  <2>3. Over'
    BY <1>22, <1>a DEF Located, Seated, Over, Roles, Stopped, ReadFails, Forwarding, EndForward, CloseAll
  <2>4. NobodyAbandoned'
    BY <1>22 DEF Located, Over, NobodyAbandoned, Shut, Open, ReadFails, Forwarding, EndForward, CloseAll
  <2>5. QED
    BY <2>1, <2>2, <2>3, <2>4
<1>23. ASSUME NEW c \in Conns, NEW src \in Conns, WriteFails(c, src) PROVE PipeInv'
  <2>1. Roles'
    BY <1>23 DEF Located, Seated, Roles, WriteFails, Forwarding, EndForward, CloseAll
  <2>2. Stopped'
    BY <1>23, <1>a DEF Located, Seated, Mated, Roles, Stopped, Shut, WriteFails, Forwarding, EndForward, CloseAll
  <2>3. Over'
    BY <1>23, <1>a DEF Located, Seated, Over, Roles, Stopped, WriteFails, Forwarding, EndForward, CloseAll
  <2>4. NobodyAbandoned'
    BY <1>23 DEF Located, Over, NobodyAbandoned, Shut, Open, WriteFails, Forwarding, EndForward, CloseAll
  <2>5. QED
    BY <2>1, <2>2, <2>3, <2>4
<1>24. ASSUME NEW c \in Conns, NEW src \in Conns, WatchedClose(c, src) PROVE PipeInv'
  <2>1. Roles'
    BY <1>24 DEF Located, Seated, Roles, WatchedClose, Forwarding, Expire, CloseAll
  <2>2. Stopped'
    BY <1>24, <1>a DEF Located, Seated, Mated, Roles, Stopped, Shut, WatchedClose, Forwarding, Expire, CloseAll
  <2>3. Over'
    BY <1>24, <1>a DEF Located, Seated, Over, Roles, Stopped, WatchedClose, Forwarding, Expire, CloseAll
  <2>4. NobodyAbandoned'
    BY <1>24 DEF Located, Over, NobodyAbandoned, Shut, Open, WatchedClose, Forwarding, Expire, CloseAll
  <2>5. QED
    BY <2>1, <2>2, <2>3, <2>4
<1>25. ASSUME NEW r \in Conns, GoIdle(r) PROVE PipeInv'
  <2>1. Roles'
    BY <1>25 DEF Located, Seated, Roles, GoIdle
  <2>2. Stopped'
    BY <1>25, <1>a DEF Located, Seated, Roles, Stopped, GoIdle
  <2>3. Over'
    BY <1>25, <1>a DEF Located, Seated, Over, Roles, Stopped, GoIdle
  <2>4. NobodyAbandoned'
    BY <1>25 DEF Located, Over, NobodyAbandoned, Shut, Open, GoIdle
  <2>5. QED
    BY <2>1, <2>2, <2>3, <2>4
<1>26. ASSUME ForwardersCollide PROVE PipeInv'
  <2>1. Roles'
    BY <1>26 DEF Located, Seated, Roles, ForwardersCollide
  <2>2. Stopped'
    BY <1>26, <1>a DEF Located, Seated, Roles, Stopped, ForwardersCollide
  <2>3. Over'
    BY <1>26, <1>a DEF Located, Seated, Over, Roles, Stopped, ForwardersCollide
  <2>4. NobodyAbandoned'
    BY <1>26 DEF Located, Over, NobodyAbandoned, Shut, Open, ForwardersCollide
  <2>5. QED
    BY <2>1, <2>2, <2>3, <2>4
<1>27. ASSUME SweepStart PROVE PipeInv'
  <2>1. Roles'
    BY <1>27 DEF Located, Seated, Roles, SweepStart, Mapped
  <2>2. Stopped'
    BY <1>27, <1>a DEF Located, Seated, Roles, Stopped, SweepStart, Mapped
  <2>3. Over'
    BY <1>27, <1>a DEF Located, Seated, Over, Roles, Stopped, SweepStart, Mapped
  <2>4. NobodyAbandoned'
    BY <1>27 DEF Located, Over, NobodyAbandoned, Shut, Open, SweepStart, Mapped
  <2>5. QED
    BY <2>1, <2>2, <2>3, <2>4
<1>28. ASSUME NEW n \in Names, SweepVisit(n) PROVE PipeInv'
  <2>1. Roles'
    BY <1>28 DEF Located, Seated, Roles, SweepVisit
  <2>2. Stopped'
    BY <1>28, <1>a DEF Located, Seated, Roles, Stopped, SweepVisit
  <2>3. Over'
    BY <1>28, <1>a DEF Located, Seated, Over, Roles, Stopped, SweepVisit
  <2>4. NobodyAbandoned'
    BY <1>28 DEF Located, Over, NobodyAbandoned, Shut, Open, SweepVisit
  <2>5. QED
    BY <2>1, <2>2, <2>3, <2>4
<1>29. ASSUME SweepRelease PROVE PipeInv'
  <2>1. Roles'
    BY <1>29 DEF Located, Seated, Roles, SweepRelease
  <2>2. Stopped'
    BY <1>29, <1>a DEF Located, Seated, Roles, Stopped, SweepRelease
  <2>3. Over'
    BY <1>29, <1>a DEF Located, Seated, Over, Roles, Stopped, SweepRelease
  <2>4. NobodyAbandoned'
    BY <1>29 DEF Located, Over, NobodyAbandoned, Shut, Open, SweepRelease
  <2>5. QED
    BY <2>1, <2>2, <2>3, <2>4
<1>30. ASSUME NEW r \in Conns, ExpireRoom(r) PROVE PipeInv'
  <2>1. Roles'
    BY <1>30 DEF Located, Seated, Roles, ExpireRoom, Expire, CloseAll
  <2>2. Stopped'
    BY <1>30, <1>a DEF Located, Seated, Roles, Stopped, ExpireRoom, Expire, CloseAll
  <2>3. Over'
    BY <1>30, <1>a DEF Located, Seated, Over, Roles, Stopped, ExpireRoom, Expire, CloseAll
  <2>4. NobodyAbandoned'
    BY <1>30 DEF Located, Over, NobodyAbandoned, Shut, Open, ExpireRoom, Expire, CloseAll
  <2>5. QED
    BY <2>1, <2>2, <2>3, <2>4
<1>31. ASSUME UNCHANGED vars PROVE PipeInv'
  <2>1. Roles'
    BY <1>31 DEF Located, Seated, Roles, vars
  <2>2. Stopped'
    BY <1>31, <1>a DEF Located, Seated, Roles, Stopped, vars
  <2>3. Over'
    BY <1>31, <1>a DEF Located, Seated, Over, Roles, Stopped, vars
  <2>4. NobodyAbandoned'
    BY <1>31 DEF Located, Over, NobodyAbandoned, Shut, Open, vars
  <2>5. QED
    BY <2>1, <2>2, <2>3, <2>4
<1>32. QED
  BY <1>1, <1>2, <1>3, <1>4, <1>5, <1>6, <1>7, <1>8, <1>9, <1>10, <1>11, <1>12, <1>13, <1>14, <1>15, <1>16, <1>17, <1>18, <1>19, <1>20, <1>21, <1>22, <1>23, <1>24, <1>25, <1>26, <1>27, <1>28, <1>29, <1>30, <1>31 DEF Next, Client, Handler, Pipe, Sweep

\* No pipe runs and no handler has returned at the start.
LEMMA PipeInit == Init => PipeInv
  BY RelayAssumption DEF Init, PipeInv, Roles, Stopped, Over, NobodyAbandoned, Open

\* The invariant of the pipes holds throughout.
LEMMA PipeCorrect == Spec => []PipeInv
<1>1. Init => PipeInv
  BY PipeInit
<1>2. SeatInv /\ SeatInv' /\ TellInv /\ PipeInv /\ [Next]_vars => PipeInv'
  BY PipeNext
<1>3. QED
  BY <1>1, <1>2, SeatCorrect, TellCorrect, PTL DEF Spec

\* Outside expired rooms no connection has two readers, for any number of clients:
\* only the handler that took the first seat pipes the room.
THEOREM OneReader == Spec => []SingleReader
<1>1. SeatInv /\ PipeInv => SingleReader
  <2> SUFFICES ASSUME SeatInv, PipeInv,
                      NEW c \in Conns, NEW d \in Conns, NEW s \in Conns,
                      pipes[c][s] # None, pipes[d][s] # None,
                      room[c] \notin expired, room[d] \notin expired
               PROVE  c = d
    BY DEF SingleReader
  <2>1. pc[c] = "pipe" /\ pc[d] = "pipe" /\ room[c] = room[d]
    BY DEF PipeInv, Roles
  <2>2. QED
    BY <2>1 DEF PipeInv, Roles
<1>2. QED
  BY <1>1, SeatCorrect, PipeCorrect, PTL

\* When done is closed in a room that has not expired, both clients have been
\* disconnected: the wait group ends after both deferred closes.
THEOREM DoneIsClosed == Spec => []DoneMeansClosed
<1>1. PipeInv => DoneMeansClosed
  BY DEF PipeInv, Over, DoneMeansClosed, Shut, Open
<1>2. QED
  BY <1>1, PipeCorrect, PTL

\* No handler returns from an unexpired room and leaves its client connected.
THEOREM NobodyLeftBehind == Spec => []NobodyAbandoned
<1>1. PipeInv => NobodyAbandoned
  BY DEF PipeInv
<1>2. QED
  BY <1>1, PipeCorrect, PTL

=============================================================================
