----------------------------- MODULE RelayRooms -----------------------------
(***************************************************************************)
(* The room manager of the WebSocket relay (src/relay/main.go): one        *)
(* handleWebSocket goroutine per client connection, the two forwarding     *)
(* goroutines of every pipe, the cleanupLoop goroutine, the map of rooms   *)
(* under Relay.mu and the fields of every room under Room.mu.              *)
(*                                                                         *)
(* A handler creates at most one room, so a *Room is named by the          *)
(* connection whose handler made it.  Time is abstract: a room may be      *)
(* found inactive, and the 35-minute timer of a second client may fire, at *)
(* any moment.                                                             *)
(*                                                                         *)
(* The close handler that watchFirstClientDisconnect installs only runs    *)
(* inside a ReadMessage call, and nobody reads a waiting connection; when  *)
(* its own handler's pipe reads it the watcher's context is already        *)
(* cancelled.  A client that hangs up while it waits is therefore noticed  *)
(* by the sweep alone; the one exception is WatchedClose below.            *)
(***************************************************************************)
EXTENDS Naturals, Sequences, FiniteSets

CONSTANTS Conns,     \* client connections
          Names,     \* room names
          MaxRooms,  \* server.max_rooms
          None

ASSUME RelayAssumption ==
    /\ None \notin Conns
    /\ None \notin Names
    /\ IsFiniteSet(Names)
    /\ MaxRooms \in Nat \ {0}

VARIABLES
    rooms,     \* Relay.rooms: the room each name is mapped to
    sweeping,  \* cleanupLoop holds Relay.mu
    todo,      \* the names cleanupLoop has yet to visit in this sweep
    stale,     \* the rooms it unmapped and has yet to expire
    first,     \* Room.first
    second,    \* Room.second
    ready,     \* Room.ready is closed
    done,      \* Room.done is closed
    idle,      \* Room.lastActivity is older than the inactivity limit
    mu,        \* the handler that holds Room.mu between two of its steps
    sock,      \* the relay's end of each connection
    gone,      \* the clients that hung up
    pc,        \* where each connection's handler is
    name,      \* joinMsg.Room
    room,      \* the room the handler got from getOrCreateRoom
    pipes,     \* pipes[c][s]: where a goroutine of c's handler forwards s to
    out,       \* the control frames the relay wrote to each connection
    torn,      \* the handlers whose WriteMessage overlapped another one
    mate,      \* history: whom a connection was seated with
    heard,     \* history: whose payload was forwarded to a connection
    expired    \* history: the rooms expire() ran on

mapVars   == <<rooms, sweeping, todo, stale>>
roomVars  == <<first, second, ready, done, idle, mu>>
connVars  == <<sock, gone, pc, name, room>>
traceVars == <<out, torn, mate, heard, expired>>
vars == <<mapVars, roomVars, connVars, pipes, traceVars>>

PCs == {"new", "lookup", "enter", "greet", "greeting", "wait", "pipe", "unmap",
        "pairing", "pairSecond", "waitDone", "exit", "timedout", "crashed"}
Frames == {"waiting", "paired", "full", "busy", "garbled"}

TypeOK ==
    /\ rooms \in [Names -> Conns \cup {None}]
    /\ sweeping \in BOOLEAN
    /\ todo \subseteq Names
    /\ stale \subseteq Conns
    /\ first \in [Conns -> Conns \cup {None}]
    /\ second \in [Conns -> Conns \cup {None}]
    /\ ready \in [Conns -> BOOLEAN]
    /\ done \in [Conns -> BOOLEAN]
    /\ idle \in [Conns -> BOOLEAN]
    /\ mu \in [Conns -> Conns \cup {None}]
    /\ sock \in [Conns -> {"unused", "open", "closed"}]
    /\ gone \subseteq Conns
    /\ pc \in [Conns -> PCs]
    /\ name \in [Conns -> Names \cup {None}]
    /\ room \in [Conns -> Conns \cup {None}]
    /\ pipes \in [Conns -> [Conns -> Conns \cup {None}]]
    /\ out \in [Conns -> Seq(Frames)]
    /\ torn \subseteq Conns
    /\ mate \in [Conns -> Conns \cup {None}]
    /\ heard \in [Conns -> SUBSET Conns]
    /\ expired \subseteq Conns

Init ==
    /\ rooms = [n \in Names |-> None]
    /\ sweeping = FALSE
    /\ todo = {}
    /\ stale = {}
    /\ first = [r \in Conns |-> None]
    /\ second = [r \in Conns |-> None]
    /\ ready = [r \in Conns |-> FALSE]
    /\ done = [r \in Conns |-> FALSE]
    /\ idle = [r \in Conns |-> FALSE]
    /\ mu = [r \in Conns |-> None]
    /\ sock = [c \in Conns |-> "unused"]
    /\ gone = {}
    /\ pc = [c \in Conns |-> "new"]
    /\ name = [c \in Conns |-> None]
    /\ room = [c \in Conns |-> None]
    /\ pipes = [c \in Conns |-> [s \in Conns |-> None]]
    /\ out = [c \in Conns |-> <<>>]
    /\ torn = {}
    /\ mate = [c \in Conns |-> None]
    /\ heard = [c \in Conns |-> {}]
    /\ expired = {}

-----------------------------------------------------------------------------
(* Helpers *)

Open(c) == sock[c] = "open"
Told(c, m) == \E i \in 1..Len(out[c]) : out[c][i] = m
Mapped == {n \in Names : rooms[n] # None}

\* WriteMessage on a connection the relay has closed fails, and none of the
\* handler's control writes looks at the error.
Write(c, m) == [out EXCEPT ![c] = IF Open(c) THEN Append(@, m) ELSE @]

CloseAll(S) == [c \in Conns |-> IF c \in S THEN "closed" ELSE sock[c]]

GoTo(c, label) == pc' = [pc EXCEPT ![c] = label]

\* A frame written while another goroutine was writing to the same connection
\* shares its buffer with that one: it may come out as something else.
FramesOf(c, m) == IF c \in torn THEN {m, "garbled"} ELSE {m}

\* Mutant: ">" for ">=".
NoRoomLeft_OffByOne == Cardinality(Mapped) > MaxRooms
NoRoomLeft == Cardinality(Mapped) >= MaxRooms

\* Mutant: the lookup answers with whatever room there is.
Lookup_AnyName(n) == IF Mapped = {} THEN None ELSE rooms[CHOOSE m \in Mapped : TRUE]
Lookup(n) == rooms[n]

\* Mutant: the refused connection is left open.
Refuse_NoClose(c, m) == out' = Write(c, m) /\ sock' = sock /\ GoTo(c, "exit")
\* Mutant: an error the clients do not know.
Refuse_OtherError(c, m) == out' = Write(c, "error") /\ sock' = CloseAll({c}) /\ GoTo(c, "exit")
\* An error frame, Close, return.
Refuse(c, m) == out' = Write(c, m) /\ sock' = CloseAll({c}) /\ GoTo(c, "exit")

\* Mutant: expire leaves ready open.
Expire_NotReady(r, alsoClosed) ==
    /\ ready' = ready
    /\ sock' = CloseAll({first[r], second[r]} \cup alsoClosed)
    /\ first' = [first EXCEPT ![r] = None]
    /\ second' = [second EXCEPT ![r] = None]
    /\ done' = [done EXCEPT ![r] = TRUE]
    /\ expired' = expired \cup {r}
\* Room.expire and the closeDone that follows each call of it.
Expire(r, alsoClosed) ==
    /\ ready' = [ready EXCEPT ![r] = TRUE]
    /\ sock' = CloseAll({first[r], second[r]} \cup alsoClosed)
    /\ first' = [first EXCEPT ![r] = None]
    /\ second' = [second EXCEPT ![r] = None]
    /\ done' = [done EXCEPT ![r] = TRUE]
    /\ expired' = expired \cup {r}

-----------------------------------------------------------------------------
(* handleWebSocket: the join *)

Join(c, n) ==
    /\ pc[c] = "new"
    /\ sock' = [sock EXCEPT ![c] = "open"]
    /\ name' = [name EXCEPT ![c] = n]
    /\ GoTo(c, "lookup")
    /\ UNCHANGED <<mapVars, roomVars, gone, room, pipes, traceVars>>

\* No join message, a malformed one, or one over the rate limit.
RefuseJoin(c) ==
    /\ pc[c] = "new"
    /\ sock' = [sock EXCEPT ![c] = "closed"]
    /\ GoTo(c, "exit")
    /\ UNCHANGED <<mapVars, roomVars, gone, name, room, pipes, traceVars>>

FindRoom(c) ==
    /\ pc[c] = "lookup"
    /\ ~sweeping
    /\ Lookup(name[c]) # None
    /\ room' = [room EXCEPT ![c] = Lookup(name[c])]
    /\ idle' = [idle EXCEPT ![Lookup(name[c])] = FALSE]
    /\ GoTo(c, "enter")
    /\ UNCHANGED <<mapVars, first, second, ready, done, mu, sock, gone, name,
                   pipes, traceVars>>

CreateRoom(c) ==
    /\ pc[c] = "lookup"
    /\ ~sweeping
    /\ Lookup(name[c]) = None
    /\ ~NoRoomLeft
    /\ rooms' = [rooms EXCEPT ![name[c]] = c]
    /\ room' = [room EXCEPT ![c] = c]
    /\ GoTo(c, "enter")
    /\ UNCHANGED <<sweeping, todo, stale, roomVars, sock, gone, name, pipes,
                   traceVars>>

ServerBusy(c) ==
    /\ pc[c] = "lookup"
    /\ ~sweeping
    /\ Lookup(name[c]) = None
    /\ NoRoomLeft
    /\ Refuse(c, "busy")
    /\ UNCHANGED <<mapVars, roomVars, gone, name, room, pipes, torn, mate,
                   heard, expired>>

-----------------------------------------------------------------------------
(* handleWebSocket: the seat in the room, taken under Room.mu.  The          *)
(* touchActivity call before it is part of the step.                         *)

TakeFirst(c) ==
    /\ pc[c] = "enter"
    /\ mu[room[c]] = None
    /\ first[room[c]] = None
    /\ first' = [first EXCEPT ![room[c]] = c]
    /\ idle' = [idle EXCEPT ![room[c]] = FALSE]
    /\ GoTo(c, "greet")
    /\ UNCHANGED <<mapVars, second, ready, done, mu, sock, gone, name, room,
                   pipes, traceVars>>

\* Keeps Room.mu while it writes "paired" to the two clients, and starts the
\* first of these writes.
TakeSecond(c) ==
    LET r == room[c]
        f == first[r]
    IN  /\ pc[c] = "enter"
        /\ mu[r] = None
        /\ f # None
        /\ second[r] = None
        /\ second' = [second EXCEPT ![r] = c]
        /\ mu' = [mu EXCEPT ![r] = c]
        /\ idle' = [idle EXCEPT ![r] = FALSE]
        /\ mate' = [mate EXCEPT ![f] = c, ![c] = f]
        /\ torn' = IF pc[f] = "greeting" THEN torn \cup {f, c} ELSE torn
        /\ GoTo(c, "pairing")
        /\ UNCHANGED <<mapVars, first, ready, done, sock, gone, name, room,
                       pipes, out, heard, expired>>

RoomFull(c) ==
    /\ pc[c] = "enter"
    /\ mu[room[c]] = None
    /\ first[room[c]] # None
    /\ second[room[c]] # None
    /\ idle' = [idle EXCEPT ![room[c]] = FALSE]
    /\ Refuse(c, "full")
    /\ UNCHANGED <<mapVars, first, second, ready, done, mu, gone, name, room,
                   pipes, torn, mate, heard, expired>>

-----------------------------------------------------------------------------
(* handleWebSocket: the first client.  Its "waiting" frame is written after  *)
(* Room.mu is released, so it can overlap the "paired" frame of the second   *)
(* client's handler.  gorilla/websocket answers overlapping writes with a    *)
(* panic in one of the writers, or with a mixed-up buffer.                   *)

BeginGreeting(c) ==
    LET rivals == {d \in Conns : pc[d] = "pairing" /\ first[room[d]] = c}
    IN  /\ pc[c] = "greet"
        /\ torn' = IF rivals = {} THEN torn ELSE torn \cup rivals \cup {c}
        /\ GoTo(c, "greeting")
        /\ UNCHANGED <<mapVars, roomVars, sock, gone, name, room, pipes, out,
                       mate, heard, expired>>

EndGreeting(c) ==
    /\ pc[c] = "greeting"
    /\ \E m \in FramesOf(c, "waiting") : out' = Write(c, m)
    /\ GoTo(c, "wait")
    /\ UNCHANGED <<mapVars, roomVars, sock, gone, name, room, pipes, torn,
                   mate, heard, expired>>

\* net/http recovers the panic: the goroutine is gone, its defers have run,
\* and its connection stays open.
GreetingPanics(c) ==
    /\ pc[c] = "greeting"
    /\ c \in torn
    /\ GoTo(c, "crashed")
    /\ UNCHANGED <<mapVars, roomVars, sock, gone, name, room, pipes, traceVars>>

Awake(c) == pc[c] = "wait" /\ ready[room[c]] /\ mu[room[c]] = None

StartPipe(c) ==
    LET r == room[c]
    IN  /\ Awake(c)
        /\ first[r] # None
        /\ second[r] # None
        /\ pipes' = [pipes EXCEPT ![c] = [@ EXCEPT ![first[r]] = second[r],
                                                  ![second[r]] = first[r]]]
        /\ GoTo(c, "pipe")
        /\ UNCHANGED <<mapVars, roomVars, sock, gone, name, room, traceVars>>

FindRoomEmptied(c) ==
    /\ Awake(c)
    /\ None \in {first[room[c]], second[room[c]]}
    /\ GoTo(c, "unmap")
    /\ UNCHANGED <<mapVars, roomVars, sock, gone, name, room, pipes, traceVars>>

\* deleteRoom takes a name: whatever room it is mapped to by now goes.
Unmap(c) == [rooms EXCEPT ![name[c]] = None]

\* Mutant: pipeConnections returns without waiting for its goroutines.
Piped_NoWaitGroup(c) == pc[c] = "pipe"
Piped(c) == pc[c] = "pipe" /\ \A s \in Conns : pipes[c][s] = None

\* Mutant: no deferred closeDone.
CloseDone_Missing(c) == done' = done
CloseDone(c) == done' = [done EXCEPT ![room[c]] = TRUE]

\* deleteRoom and the deferred closeDone; the handler closes no connection.
FinishFirst(c) ==
    /\ pc[c] = "unmap" \/ Piped(c)
    /\ ~sweeping
    /\ rooms' = Unmap(c)
    /\ CloseDone(c)
    /\ GoTo(c, "exit")
    /\ UNCHANGED <<sweeping, todo, stale, first, second, ready, idle, mu, sock,
                   gone, name, room, pipes, traceVars>>

-----------------------------------------------------------------------------
(* handleWebSocket: the second client                                        *)

\* Mutant: ready is closed before the second client is told.
EndPairing_ReadyEarly(c) ==
    /\ pc[c] = "pairing"
    /\ \E m \in FramesOf(c, "paired") : out' = Write(first[room[c]], m)
    /\ ready' = [ready EXCEPT ![room[c]] = TRUE]
    /\ GoTo(c, "pairSecond")
    /\ UNCHANGED <<mapVars, first, second, done, idle, mu, sock, gone, name, room,
                   pipes, torn, mate, heard, expired>>
EndPairing(c) ==
    /\ pc[c] = "pairing"
    /\ \E m \in FramesOf(c, "paired") : out' = Write(first[room[c]], m)
    /\ GoTo(c, "pairSecond")
    /\ UNCHANGED <<mapVars, roomVars, sock, gone, name, room, pipes, torn,
                   mate, heard, expired>>

\* No deferred unlock: Room.mu stays locked.
PairingPanics(c) ==
    /\ pc[c] = "pairing"
    /\ c \in torn
    /\ GoTo(c, "crashed")
    /\ UNCHANGED <<mapVars, roomVars, sock, gone, name, room, pipes, traceVars>>

\* Mutant: the second client's handler goes on to pipe as well.
PairSecond_AlsoPipes(c) ==
    /\ pc[c] = "pairSecond"
    /\ out' = Write(c, "paired")
    /\ ready' = [ready EXCEPT ![room[c]] = TRUE]
    /\ mu' = [mu EXCEPT ![room[c]] = None]
    /\ GoTo(c, "wait")
    /\ UNCHANGED <<mapVars, first, second, done, idle, sock, gone, name, room,
                   pipes, torn, mate, heard, expired>>

\* Mutant: only the first client is told.
PairSecond_Untold(c) ==
    /\ pc[c] = "pairSecond"
    /\ ready' = [ready EXCEPT ![room[c]] = TRUE]
    /\ mu' = [mu EXCEPT ![room[c]] = None]
    /\ GoTo(c, "waitDone")
    /\ UNCHANGED <<mapVars, first, second, done, idle, sock, gone, name, room,
                   pipes, out, torn, mate, heard, expired>>

\* Mutant: no unlock.
PairSecond_StaysLocked(c) ==
    /\ pc[c] = "pairSecond"
    /\ out' = Write(c, "paired")
    /\ ready' = [ready EXCEPT ![room[c]] = TRUE]
    /\ GoTo(c, "waitDone")
    /\ UNCHANGED <<mapVars, first, second, done, idle, mu, sock, gone, name, room,
                   pipes, torn, mate, heard, expired>>

PairSecond(c) ==
    /\ pc[c] = "pairSecond"
    /\ out' = Write(c, "paired")
    /\ ready' = [ready EXCEPT ![room[c]] = TRUE]
    /\ mu' = [mu EXCEPT ![room[c]] = None]
    /\ GoTo(c, "waitDone")
    /\ UNCHANGED <<mapVars, first, second, done, idle, sock, gone, name, room,
                   pipes, torn, mate, heard, expired>>

SecondWakes(c) ==
    /\ pc[c] = "waitDone"
    /\ done[room[c]]
    /\ ~sweeping
    /\ rooms' = Unmap(c)
    /\ GoTo(c, "exit")
    /\ UNCHANGED <<sweeping, todo, stale, roomVars, sock, gone, name, room,
                   pipes, traceVars>>

\* roomDoneWait, whatever the pipe is doing.
SecondTimesOut(c) ==
    /\ pc[c] = "waitDone"
    /\ ~done[room[c]]
    /\ ~sweeping
    /\ rooms' = Unmap(c)
    /\ GoTo(c, "timedout")
    /\ UNCHANGED <<sweeping, todo, stale, roomVars, sock, gone, name, room,
                   pipes, traceVars>>

-----------------------------------------------------------------------------
(* pipeConnections: one forwarding goroutine per direction                   *)

Forwarding(c, src) == pc[c] = "pipe" /\ pipes[c][src] # None

Forward(c, src) ==
    LET dst == pipes[c][src]
    IN  /\ Forwarding(c, src)
        /\ Open(src) /\ src \notin gone
        /\ mu[room[c]] = None
        /\ Open(dst)
        /\ idle' = [idle EXCEPT ![room[c]] = FALSE]
        /\ heard' = [heard EXCEPT ![dst] = @ \cup {src}]
        /\ UNCHANGED <<mapVars, first, second, ready, done, mu, connVars,
                       pipes, out, torn, mate, expired>>

\* Mutant: the deferred call closes the connection that was read.
EndForward_ClosesSource(c, src) ==
    /\ sock' = CloseAll({src})
    /\ pipes' = [pipes EXCEPT ![c][src] = None]
\* "defer dst.Close()", whatever ended the loop.
EndForward(c, src) ==
    /\ sock' = CloseAll({pipes[c][src]})
    /\ pipes' = [pipes EXCEPT ![c][src] = None]

ReadFails(c, src) ==
    /\ Forwarding(c, src)
    /\ ~Open(src) \/ src \in gone
    /\ EndForward(c, src)
    /\ UNCHANGED <<mapVars, roomVars, gone, pc, name, room, traceVars>>

WriteFails(c, src) ==
    LET dst == pipes[c][src]
    IN  /\ Forwarding(c, src)
        /\ mu[room[c]] = None
        /\ Open(src)
        /\ ~Open(dst) \/ dst \in gone
        /\ idle' = [idle EXCEPT ![room[c]] = FALSE]
        /\ EndForward(c, src)
        /\ UNCHANGED <<mapVars, first, second, ready, done, mu, gone, pc, name,
                       room, traceVars>>

\* A client that sits in an expired room can be read by the pipe of the first
\* client's handler while its own handler has yet to wake up and cancel the
\* watcher: its close handler then expires the room.
WatchedClose(c, src) ==
    LET r == room[c]
    IN  /\ Forwarding(c, src)
        /\ src # c
        /\ Open(src) /\ src \in gone
        /\ pc[src] = "wait"
        /\ mu[r] = None
        /\ Expire(r, {pipes[c][src]})
        /\ pipes' = [pipes EXCEPT ![c][src] = None]
        /\ UNCHANGED <<mapVars, idle, mu, gone, pc, name, room, out, torn, mate,
                       heard>>

\* A forwarding goroutine writes to a connection while another one does, or
\* while the handler of a late client greets it.  Nobody recovers a panic of
\* that goroutine: the process is gone.
ForwardersCollide ==
    /\ \E c, s, dst \in Conns :
          /\ pipes[c][s] = dst
          /\ Open(dst)
          /\ \/ pc[dst] = "greeting"
             \/ \E d, t \in Conns : d # c /\ pipes[d][t] = dst
    /\ rooms' = [n \in Names |-> None]
    /\ sweeping' = FALSE
    /\ todo' = {}
    /\ stale' = {}
    /\ mu' = [r \in Conns |-> None]
    /\ sock' = [c \in Conns |-> IF Open(c) THEN "closed" ELSE sock[c]]
    /\ pc' = [c \in Conns |-> "crashed"]
    /\ pipes' = [c \in Conns |-> [s \in Conns |-> None]]
    /\ UNCHANGED <<first, second, ready, done, idle, gone, name, room, traceVars>>

-----------------------------------------------------------------------------
(* The clients and the clock                                                 *)

HangUp(c) ==
    /\ Open(c)
    /\ c \notin gone
    /\ gone' = gone \cup {c}
    /\ UNCHANGED <<mapVars, roomVars, sock, pc, name, room, pipes, traceVars>>

GoIdle(r) ==
    /\ \E n \in Names : rooms[n] = r
    /\ ~idle[r]
    /\ idle' = [idle EXCEPT ![r] = TRUE]
    /\ UNCHANGED <<mapVars, first, second, ready, done, mu, connVars, pipes,
                   traceVars>>

-----------------------------------------------------------------------------
(* cleanupLoop.  A tick that finds no room does nothing.                     *)

SweepStart ==
    /\ ~sweeping
    /\ stale = {}
    /\ Mapped # {}
    /\ sweeping' = TRUE
    /\ todo' = Mapped
    /\ UNCHANGED <<rooms, stale, roomVars, connVars, pipes, traceVars>>

SweepVisit(n) ==
    /\ sweeping
    /\ n \in todo
    /\ mu[rooms[n]] = None
    /\ todo' = todo \ {n}
    /\ IF idle[rooms[n]]
       THEN /\ rooms' = [rooms EXCEPT ![n] = None]
            /\ stale' = stale \cup {rooms[n]}
       ELSE UNCHANGED <<rooms, stale>>
    /\ UNCHANGED <<sweeping, roomVars, connVars, pipes, traceVars>>

SweepRelease ==
    /\ sweeping
    /\ todo = {}
    /\ sweeping' = FALSE
    /\ UNCHANGED <<rooms, todo, stale, roomVars, connVars, pipes, traceVars>>

ExpireRoom(r) ==
    /\ ~sweeping
    /\ r \in stale
    /\ mu[r] = None
    /\ Expire(r, {})
    /\ stale' = stale \ {r}
    /\ UNCHANGED <<rooms, sweeping, todo, idle, mu, gone, pc, name, room,
                   pipes, out, torn, mate, heard>>

-----------------------------------------------------------------------------

Handler(c) ==
    \/ FindRoom(c) \/ CreateRoom(c) \/ ServerBusy(c)
    \/ TakeFirst(c) \/ TakeSecond(c) \/ RoomFull(c)
    \/ BeginGreeting(c) \/ EndGreeting(c) \/ GreetingPanics(c)
    \/ StartPipe(c) \/ FindRoomEmptied(c) \/ FinishFirst(c)
    \/ EndPairing(c) \/ PairingPanics(c) \/ PairSecond(c)
    \/ SecondWakes(c) \/ SecondTimesOut(c)

Pipe(c) ==
    \E src \in Conns :
        \/ Forward(c, src)
        \/ ReadFails(c, src)
        \/ WriteFails(c, src)
        \/ WatchedClose(c, src)

Sweep ==
    \/ SweepStart
    \/ \E n \in Names : SweepVisit(n)
    \/ SweepRelease
    \/ \E r \in Conns : ExpireRoom(r)

Client(c) ==
    \/ \E n \in Names : Join(c, n)
    \/ RefuseJoin(c)
    \/ HangUp(c)

Next ==
    \/ \E c \in Conns : Client(c) \/ Handler(c) \/ Pipe(c) \/ GoIdle(c)
    \/ ForwardersCollide
    \/ Sweep

Spec == Init /\ [][Next]_vars

\* Mutexes are handed over in order once a waiter has starved for a
\* millisecond, so a handler that is runnable again and again does run.  The
\* inactivity of a room nobody touches and a sweep's next step always come; no
\* client owes anybody a step.
Fairness ==
    /\ \A c \in Conns :
          /\ SF_vars(Handler(c))
          /\ WF_vars(GoIdle(c))
          /\ WF_vars(\E src \in Conns : ReadFails(c, src))
    /\ WF_vars(Sweep)

FairSpec == Spec /\ Fairness

=============================================================================
