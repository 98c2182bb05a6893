# Formal models of shanchuan

shanchuan sends files or a text from one browser to another. Both browsers join
a room of a WebSocket relay (Go, `src/relay`), agree on a key with PAKE (Go
compiled to WASM, `src/wasm`, run in a worker), try to open a WebRTC data
channel, and transfer encrypted chunks over the data channel or through the
relay (`src/public`).

This directory models the parts of that system whose behaviour depends on the
order of events or on limits, checks them with TLC on small instances, and proves
with TLAPS, for every instance, every safety property and every refinement that
the runs check.

## 1. Inventory

| Component | State | Operations | Models |
|---|---|---|---|
| Room manager of the relay, `relay/main.go` | `Relay.rooms` under `Relay.mu`; per room `first`, `second`, `ready`, `done`, `lastActivity` under `Room.mu`; the two sockets | `handleWebSocket`, `getOrCreateRoom`, `deleteRoom`, `expire`, `pipeConnections`, `watchFirstClientDisconnect`, `cleanupLoop` | `RelayRooms`, `RelayContract` |
| Rate limiter, `relay/ratelimit.go` | `counters` under a mutex | `allow`, `cleanupLoop` | `RateLimiter` |
| Batch transfer, `public/app.js`, `transport.js`, `transfer-policy.js` | the page's `state` object, the promise chain of each page, the transport's buffers, both WebSockets | `sendAllFiles`, `sendOneFile`, `handleReceivedData`, `finishCurrentFile`, `bindReceiverTransport`, `ws.onmessage`, `ws.onclose` | `FileTransfer`, `BatchDelivery` |
| Session, `app.js` `connectAndTransfer` | `pakeState`, `pendingRelayBinary`, `pendingSignaling`, `negotiator`, `chain` | `runPAKEInit`, `handleBinary`, the text frames, `setupSenderTransport`, `setupReceiverTransport` | `Session`, `TransportChoice` |
| P2P negotiation, `public/p2p.js` | `_resolved`, `_timeout`, `pendingCandidates` of each side | `start`, `handleMessage`, `_resolve`, the connect timeout | `Negotiation` |
| WASM worker bridge, `public/worker.js`, `wasmCall`; the PAKE in `wasm/main.go` | `reqId`, `pending`; `wasmQueue`, `wasmReady`, `wasmLoading`; `currentPake` | `wasmCall`, `worker.onmessage`; `ensureWasm`, the queue, `fatal`; `initPAKE` and the functions on it | `WasmWorker`, `RemoteCalls`; `Session` keeps only that calls take time and may fail |
| Size limits, `public/security.js` | none (pure) | `validateSendFiles`, `prepareTextFile`, `validateMetadata`, chunk counts | `TransferLimits`, used by `FileTransfer` |
| File names and codes, `security.js` | none (pure) | `sanitizeFilename`, `dedupeFilename`, `deriveRoomId` | not modelled: strings, hashing, randomness |
| Configuration, TURN credentials, HTTP, static files | configuration, immutable after start | parsing, headers, HMAC | not modelled: stateless, with unit tests |
| User interface, scene, log; deployment scripts | presentation | | not modelled |

**How they interact.** A page opens a WebSocket, sends `join` with a hash of the
pass code, and gets `waiting`, then `paired`; or `error`. From `paired` on the
relay forwards every frame of one client to the other: two binary PAKE
messages, text frames for the negotiation (`webrtc-offer`, `webrtc-answer`,
`ice-candidate`, `transport-mode`), and in relay mode the encrypted metadata and
chunks, `transfer-done` and `transfer-ack`. In P2P mode metadata and chunks use
the data channel. When either WebSocket closes, the relay closes the other.

**What is hard.** In the relay: one goroutine per client, two per pipe and the
sweep, with two kinds of mutexes, channels that are closed once, writes outside
any lock and timers. In the browser: everything is one thread, but every
`await` is a point where other events run; decryption is asynchronous and is put
in order by a promise chain; frames may come before anybody listens; the end of
a transfer is a race between the last chunk, the acknowledgement and the two
closing sockets. A worker that fails to load tells it twice, and its module has one
PAKE while a page may start two sessions.

**What makes each part correct.**

- Room manager: payload only between the two clients of a match, both of the
  same name, never rematched; nobody hears its peer before it is told it is
  paired; one reader per connection; the room limit; nobody is left connected
  without a goroutine; hang-ups propagate; idle waiters are released.
- Rate limiter: bursts are bounded, refusals are deserved, a running window is
  never forgotten.
- Transfer: the files saved are those of the batch, whole and in order, and an
  acknowledgement or a success means all of them; what is buffered stays bounded;
  the shutdown cuts nothing short; progress never goes back; a receiver refuses
  no file that its sender may send; a transfer in which nothing breaks ends.
- Session and negotiation: both pages derive the key; nothing that comes early is
  forgotten or taken for something else; an announced fallback is shared; if nothing
  goes wrong the data channel is used; a session ends, but for the exceptions section 3 names.

- Worker bridge: calls run in order, each at most once, and are settled in order,
  each once and all of them; no load wipes a key exchange; a session's key is that
  of its own exchange.

The hazards, each at its source line and with the properties that cover it or
the reason why none does, are listed in `PROJECT.json`.

## 2. Modules

| Module | Role |
|---|---|
| `RelayContract` | Abstract: a matchmaker that pairs clients by name and carries payload within pairs |
| `RelayRooms` | The room manager, one action per critical section or blocking call |
| `RelayProperties` | Its properties; the refinement mapping to `RelayContract` |
| `RelayRooms_proofs`, `RelayPairing_proofs` | Proofs for any number of connections: seats and the matchmaker; pairing and piping |
| `RateLimiter`, `RateLimiter_proofs` | The limiter, its properties and proofs |
| `BatchDelivery` | Abstract: whole files arrive one after the other, an acknowledgement only after the last |
| `TransferLimits` | The limits, the cutting of files into chunks, what a receiver accepts |
| `FileTransfer` | Sender's pipeline, transport, receiver's chain, sinks, shutdown |
| `TransferProperties` | Its properties; the refinement mapping to `BatchDelivery` |
| `FileTransfer_proofs` | The arithmetic of the limits for every size; the inductive invariant of a transfer, kept by every step: frames and files |
| `FileDelivery_proofs` | The rest of it, about the end of a transfer, and the theorems, for any batch, limits and threshold |
| `Negotiation` | The two `P2pNegotiator`s, WebRTC and the frames between the pages |
| `Session` | A session of two pages up to the transport, on top of `Negotiation` |
| `TransportChoice` | Abstract: each page chooses a transport once, when it has the key, and falls back only for a reason |
| `SessionProperties` | The properties of a session; the refinement mapping to `TransportChoice` |
| `Session_proofs` | Their proofs |
| `SumTheorems` | Sums over finite sets and induction over a finite set, for the proofs about the limiter, the transfer and the session |
| `RemoteCalls` | Abstract: calls to another thread run and are settled in order, each once |
| `WasmWorker` | The page's calls, the worker's queue and loads, the one PAKE; its properties and the refinement mapping to `RemoteCalls` |
| `WasmWorker_proofs` | Proofs for any number of calls |
| `MCRelayRooms`, `MCRateLimiter`, `MCFileTransfer` | Small instances for TLC |

Definitions named `X_Something` next to a definition `X`, with a comment that
begins with "Mutant", are broken variants of `X`: they are used by no
specification. Putting one of them in the place of `X` makes TLC find the
property violated that `PROJECT.json` pairs it with.

### RelayRooms

A handler creates at most one room, so a `*Room` is named by the connection
whose handler made it: the fields of `Room` are functions on connections, and a
room that left the map lives on as long as somebody points to it. `pc[c]` says
where the handler of `c` is:

| `pc` | code (main.go) |
|---|---|
| `new`, `lookup` | before and after the join message, 325-372 |
| `enter` | has the room, waits for `room.mu`, 380-382 |
| `greet`, `greeting`, `wait` | first client: unlocked, writing `waiting`, blocked on `ready`, 386-395 |
| `pipe` | in `pipeConnections`; `pipes[c][s]` is the destination of the goroutine that reads `s` |
| `unmap` | found its seats emptied, 404-406 |
| `pairing`, `pairSecond`, `waitDone` | second client: writing the two `paired` frames under `room.mu`, then blocked on `done` or the timer, 412-431 |
| `timedout` | returned through the 35-minute timer |
| `exit`, `crashed` | returned; gone after a panic |

Every acquisition of a mutex with what follows under it is one step, except
where the code keeps the mutex over something that other goroutines can observe
or that can block: the sweep keeps `Relay.mu` while it takes every `room.mu`
(`sweeping`, `todo`), and the second client's handler keeps `room.mu` while it
writes (`mu`). Writes have a beginning and an end where two of them may meet, and
overlapping writes may garble a frame or panic, as gorilla/websocket does: a
panic in a handler is recovered by net/http and leaves a `room.mu` without a
deferred unlock locked, a panic in a forwarding goroutine ends the process
(`ForwardersCollide`). Time is abstract: a room becomes idle, and the timer
fires, at any moment. Data is abstract: a forwarded message is remembered as
"`d` heard `c`". The history variables `mate`, `heard`, `expired` and `torn`
guard nothing except that `torn` decides which writes may fail.

### RateLimiter

`allow` and `cleanupLoop` read the clock before they take the mutex, so reading
and deciding are two steps and the clock may move in between. `until`, `grants`
and `lagged` are history. How the address is found in a request is left out.

### FileTransfer

From the established key to the end. A file is its size in bytes; `TransferLimits`
says how many chunks it has over each transport, how many bytes each of them holds
and what the metadata says of it. `Init` takes only batches that
`validateSendFiles` or `prepareTextFile` let through. A frame is
the (file, sequence) pair its additional data binds; opening a frame under
another pair fails, which is all that is taken from AES-GCM. The metadata of
every file is bound to one and the same pair, as in the code. `wire` is what the
transport has taken and not delivered, `buffered` how many frames at its end are still in
the send buffer (`bufferedAmount`, in frames; `Flush` puts one on its way), `pending` what arrived before
`bindReceiverTransport` (the code keeps it in `pendingRelayBinary` and in the
transport's `_pending`, one after the other), `chain` the tasks not finished,
`task` where the first one is between its awaits. `tail` is what is special
about `await chain` in `onclose`: it waits for the chain as it was when the
WebSocket closed, not for tasks that come later.

Where a file goes (`Sinks`) depends on the receiver's browser (`pickers`), on
whether it is a text, on a directory that was chosen with the first file, and on
pickers that throw: a file picker that throws anything but `AbortError` leaves the
file in memory. `refused` records the two limits that end a transfer from the
receiver's side: its `validateMetadata`, and a file that would have to be kept
in memory and is too large for it. `downloads` is what `showDownloads` has offered.
Faults: a picker is cancelled or a write fails, a chunk cannot be read, encrypted or
decrypted (`EncryptFails`, `FileFails`), both WebSockets break, the data channel breaks; each at
any moment and all recorded in `fault`. A promise is `rejected` by the chain or by
`onclose`, and ends as `error` if the error event of the WebSocket rejected it: the two are
kept apart because only the former are decisions of the code. Both pages have the same transport here;
how they may come to differ is the subject of `Session`.

### WasmWorker

One page and its worker, each of which runs one event with its microtasks at a
time, and the two queues between them. A page may start one session of each role,
since a card is hidden only when its own session starts; `step[s]` is the function a
session's chain awaits, or where it rests: `joined` (not yet paired), `peer` (waits for the
peer's message), `keyed` (encrypts and decrypts at will), `failed`.

| Action | code |
|---|---|
| `Start` | `startSend`, `startReceive`, app.js 436-486, 488-505 |
| `CallNext`, `WasmCall` | the chain's next `wasmCall`, app.js 232-245 with 682-722 |
| `OnFatal`, `OnError`, `OnResult`, `OnLateAnswer` | `worker.onmessage`; the chain goes on in the same event (`Continue`) |
| `Begin`, `Run` | the head of `wasmQueue`: up to `await ensureWasm()`, and after it |
| `Loaded`, `LoadFails` | the end of a load; whoever awaits it posts in the order in which it began to wait |

`pake` says by whose call and in which role `currentPake` was initialised. The other
page is not modelled: its message may come at any time and may be wrong, in
which case a function throws. What is computed is left out except for whose exchange a key comes
from. That the script of the worker itself loads is assumed: the page has no
`worker.onerror`, so without it every call would stay outstanding.

### Negotiation and Session

`nego[p]` is the negotiator of page `p`: `pc` and `described` are the fields of the
same meaning (`none` before there is a negotiator), `outcome` is what `_resolve`
was first called with, `timer` whether the connect timeout is armed, `job` the
await in which the `handleMessage` of the offer or the answer is suspended (`flush` is the one in
`_flushCandidates`), `candidate` whether the peer's candidate was kept, is being added or was
added. One candidate stands for all of a page's. What
WebRTC does is external: an operation takes a while, and when the connection is
closed under it, it throws or never ends, because browsers differ
(`Orphaned`, `OfferOrphaned`). `connected` says that the connections have reached
each other; from then on each data channel may open, at its own time.

`step[p]` is the await in which the task at the head of the page's promise chain is
suspended; before the transport there is at most one such task.

| `step` | code |
|---|---|
| `idle` | the chain is empty |
| `loading`, `message` | `runPAKEInit`: `wasmInitPAKE`, `wasmGetPAKEMessage`, app.js 690-694 |
| `processing`, `keying` | `handleBinary`: `wasmProcessPAKEMessage`, then the session key and the transfer id, 710-719 |
| `precheck` | `waitForStunPrecheck`, 385 and 408 |
| `offering` | the sender's `start()`, 415 |
| `negotiating` | `waitReady`, 398 and 417 |
| `done`, `failed`, `stuck` | the transport is chosen; the task threw; it awaits what never comes |

Frames reach a page in the order in which they were sent, since one goroutine of the
relay forwards them; only `waiting` and `paired`, which two handlers write, start
in either order, as `RelayRooms` shows (`Greetings`). The two WebSockets close one after the
other (`up[p]`, `WsLost`), and what the relay still had for the page is lost with its own only;
what a page sends is lost as soon as either is closed. `OnClose` resolves the promise of a receiver
whose `isBatchComplete()` holds, which it does before the first metadata, and rejects it
otherwise; the counters that decide are those of the page, not of the session, so an earlier
transfer that was cut short can make it false. Of the transfer only the first
frame over the relay is followed (`payload`), up to the receiver's dispatch. The
history variables `gaveUp` (who fell back by itself) and `lost` (binary frames
that reached nobody) guard nothing.

## 3. Runs

| Run | Instance | What it shows |
|---|---|---|
| `relay_safety` | 3 connections, 2 names, limit 1, at most one client hangs up | type, order of pairing and payload, one reader, `done`, nobody abandoned, room limit; the relay implements `RelayContract` |
| `relay_live` | 2 connections, 1 name, any hang-ups, fair | hang-ups reach the peer and end the room, idle waiters are released, sweeps end |
| `relay_reachable` | 3 connections | finding: `deleteRoom` removes a newer room |
| `limiter_window` | 2 addresses, 2 callers, limit 2, window 1, 5 ticks, waits of at most 1 tick | bursts, refusals, windows |
| `transfer` | 8 batches that may be sent and 3 that may not, both transports, files and text, with and without pickers, threshold of one frame, fair | delivery, success, shutdown, backpressure, progress, refusals, offered files, termination |
| `transfer_unreported` | the same | finding: the error of the last task is not reported |
| `transfer_direct` | the same | finding: a good direct transfer is reported as failed |
| `transfer_limits` | the same | finding: a file within the limit is refused over a data channel |
| `session` | two pages, one candidate each, timers, STUN, ICE and the worker fail at any moment, fair | pages split only where a page fell back by itself, the session implements `TransportChoice`, early frames are not forgotten, a quiet session goes direct; a page that has its key, or whose pair lost a WebSocket, gets a transport or reports an error, with three exceptions: a receiver without the key that the code dismisses in silence, a task that failed, and one that awaits what never comes |
| `session_firstmessage` | the same | finding: the first PAKE message can be dropped |
| `worker` | two sessions of a page, up to 11 calls, loads fail any number of times, fair | calls run and settle in order, once and all of them; no load wipes an exchange; own keys |
| `worker_exchange` | the same | finding: two sessions of a page share one role and one PAKE |

**Why the bounds are enough.** Three connections are the fewest for everything
the room manager distinguishes: a pair and a third client that meets a full
room, a room that was expired, or a newer room of the same name. A forwarder,
a seat and a lock concern two connections and one room. Two names with a limit
of one make the limit matter. The hang-ups are bounded by a state constraint
(`FewHangUps`: one client at most hangs up by itself, and only while all ask for
one name and no room but its own has expired) in the safety run only; the expiry of a room, which closes
connections as a hang-up makes the forwarders do, stays possible, and the
liveness run is unbounded. The proofs need none of these bounds.
The limiter's run lasts for several windows and holds more requests than two
windows grant; `MaxTime` ends it, so that run disables no deadlock check: reading
the clock remains possible.
The limits of a transfer are scaled down together: chunks of 3 bytes (2 over a data
channel), at most 4 of them, files of at most 12 bytes, batches of 15 bytes and 3
files, 6 bytes of memory and 2 of text. They keep the relations of the code's values: the size limit is
exactly the chunk limit over the relay, a little more than it over a data channel,
and more than the memory limit. The batches have empty files in every position, a file of
one chunk, files longer than the pipeline and the threshold together, one that
memory does not hold, one with too many chunks for a data channel, and three
files in a row; a chunk beyond those repeats a state of the pipeline.
A session always has two pages, and nothing in it is repeated: no bound is needed,
the wire is finite by itself, so this run explores all there is, and its theorems say
why what it finds is so. In `WasmWorker`, `MaxCalls` stops encryption and
decryption after eleven calls, which are enough for both exchanges (at most four calls each)
and for further calls of a session around each load of the module; nothing bounds how often a load fails,
except that each failure takes a call with it.

**Symmetry** (connections, names, addresses, callers) is used only in runs
without liveness properties. **Deadlock** checking is off for the relay, the
transfer, the session and the worker: all clients may be gone, a transfer or a
session ends, and a page that makes no call gets no answer.

**Fairness.** `RelayRooms!Fairness` is strong for the steps of a handler,
because Go hands a starving mutex to its waiter after a millisecond, so a
handler that can run again and again does run; weak for a failing read, for a
room that nobody touches to become idle, and for the sweep, whose ticker
never stops. The 35-minute timer of a second client is a step of its handler
(`SecondTimesOut`) and fair like the others: a client that hears nothing of its room does
time out. Nothing obliges a client to join or hang up or a write to fail. `FileTransfer!Fairness` says that the sender's loop runs,
the worker answers, the network delivers what it has while the link is up, the
user answers the pickers, send buffers empty, and close events come; no fault is fair, so liveness
says what happens when faults stop coming or never come. `Session!Fairness` is weak:
pages read what the relay delivers, the worker and the STUN probe answer (the
latter has a timeout of its own), WebRTC goes on as far as it can, and when the WebSocket of one
page is gone the relay closes the other's (`HangupReachesPeer` of the relay's run). That the connect
timeouts fire is no part of it, or the data channel would have to beat them: it is
the premise `TimersFire` of `SessionEnds` alone. `DirectWithoutTrouble` asks for no
premise: a session in which nothing gave up, failed or was lost cannot wait.
`WasmWorker!Fairness` is weak: both event loops turn, and a load ends one way or the
other, as `fetch` and `instantiateStreaming` do; nothing obliges a page to call.

## 4. Findings

Each is a run that violates a statement of the repository; the text with its
quotes is in `PROJECT.json`.

1. `WaiterReachable`: a handler that ends deletes the room its *name* is mapped
   to, which may be a newer room: the client waiting there cannot be found.
2. `ChainErrorReported`: a failure in the last task of the receiver's chain,
   followed by the close of the WebSocket, is never shown to the user.
3. `DirectNotRejected`: in P2P mode the sender closes its WebSocket after its last
   chunk; the receiver's `onclose` awaits the tasks it knows of and rejects, although the file
   still arrives and is saved. Only that rejection counts: what an error event of the
   WebSocket reports is another outcome.
4. `LimitsAgree`: a file of more than 8192 x 262052 bytes, which is 753664 bytes less than the
   2 GiB that the sender's page accepts, has more chunks over a data channel
   than the receiver's page accepts. `RefusedOnlyForP2pChunks` and the theorem
   `RelayFilesTaken` say that there is no other disagreement.
5. `FirstMessageAwaited`: a PAKE message that arrives while the receiver's WASM module
   loads is dropped; it is never repeated, and both pages wait.
6. `OneExchangeAtATime`: a page whose send session waits for its peer may start a
   receive session, which takes over `state.role` and the one PAKE.
   `OwnKeyUnlessOverlapped` says that this overlap is the only way to a foreign key.

More things a reader of the models meets, without a run of their own:

- `waiting` is written after `room.mu` is released and can overlap `paired` on the same
  connection (main.go:389, 420). gorilla/websocket panics on such writes; a panic in the
  second client's handler leaves `room.mu` locked for ever. These are
  `GreetingPanics` and `PairingPanics`, and why several liveness
  properties have the exception `Wedged`.
- A page whose data channel is open ignores the other's fallback, and a receiver
  without STUN does not announce its own: the pages may end on different
  transports. `SplitByOwnFallback` says in which cases.
- A client that was handed a room just before the sweep expired it takes the first seat,
  finds `ready` closed and returns with its connection open (main.go:404-407):
  `NobodyAbandoned` and `SingleReader` speak of rooms that are not expired.
- `getOrCreateRoom` writes `lastActivity` under `Relay.mu`, everybody else under `room.mu`
  (main.go:208): a data race, whose outcomes are all among those of `GoIdle` and the touch.
- The limiter's window is fixed, not sliding as ratelimit.go:11 calls it,
  so `BurstBound` bounds what is granted within a window's length by twice the limit.
- If the last file of a batch went to disk, files that went to memory are
  never offered (app.js:934); `FilesOffered` holds with that exception.
- A receiver whose WebSocket closes before it has the key, while it waits for its peer for
  instance, is taken for one that has received a complete batch (app.js:328-333, 672-675):
  its promise is resolved and its page shows neither a transfer nor an error. It is the exception
  `Dismissed` of `SessionEnds`, and before the first metadata that of `SuccessMeansSaved`.
- A direct send whose WebSocket broke goes on while the page lets its user start a
  receive; both count in the same fields of `state` (app.js:94). `FileTransfer`
  has one session to a page.

## 5. Proofs

All proofs are for every value of the constants. Assumptions:
`RelayAssumption` (`None` is no connection or name, finitely many names, a
positive limit; the number of connections is not bounded),
`LimiterAssumption` (positive limit and window, `None` distinct),
`LimitsAssumption` (positive limits, the size limit is within the chunk limit of the
relay) and `TransferAssumption` (a batch is a sequence of sizes, the threshold is a
natural number). The proofs about the worker need no assumption on its bound.

**`RelayRooms_proofs`.** `TypeOK` is not inductive: a handler indexes the room
fields by `room[c]` and the pipes by the seats, so their being connections at
that step must be known. `SeatInv` adds *Located* (what a handler holds at each
`pc`, and that the sweep visits mapped names), *Named* (rooms are mapped, entered
and left under one name), *Seated* (who sits in a room entered it, second after
first) and *Mated* (seats, mates and pipes agree). It gives `TypeCorrect`, and
`ContractImplemented`: every step is a step of the matchmaker or stutters; *Mated*
is what makes a forwarded message one between mates, and *Named* what makes mates
ask for the same name. `RoomLimitHolds` uses the cardinality of subsets: only
`CreateRoom` adds a name to the map and it checks the limit in the same step.

**`RelayPairing_proofs`.** `TellInv` adds *Locked* (who holds `room.mu` between
steps), *Telling* (two seats taken and the lock free means both are informed;
whoever a pipe touches is informed) and *Readied*. The property alone is not
inductive, since what keeps a pipe from starting early is the lock. It gives
`PairedComesFirst` and `ReadyIsPaired`.

The second half of that module is about the pipe: `PipeInv` adds *Roles* (outside expired rooms the first
seat's handler pipes and the second one's waits), *Stopped* (a goroutine that
ended left its destination closed) and *Over*. It gives `OneReader`,
`DoneIsClosed` and `NobodyLeftBehind`.

**`RateLimiter_proofs`.** `IInv` adds *Past* (clock readings are never ahead of the
clock) and *Remembered* (a counter that is gone had a window that is over). It
gives `LimiterTypeCorrect` and `NoWindowCutShort`, an action property. For what
is granted, `GrantInv` adds that nobody waits longer than `MaxLag` (*Waits*), that a
counter counts requests granted since its window began, give or take that wait
(*Counted*), which gives `RefusalsAreDeserved`; and that of an address in time nothing was
granted after its last window (*LastWindow*), which holds no more grants than its counter says,
and the time before it, as long as a window, no more than the limit (*WindowsFilled*).
An interval as long as a window touches these two and no others: `BurstsBounded`.

**`SumTheorems`.** What was granted, what a batch weighs and how many chunks precede a file are
sums, which the library computes with a fold. Its induction theorems take an operator, which
the provers cannot instantiate; here induction is over *sets*: the set of
the numbers for which a claim holds is all of `Nat` (`NatSetInduction`), and a set of subsets that has the
empty one and grows by one element has them all (`SubsetInduction`). That the
recursive function inside a fold exists is proved the same way, by tables for
subsets of at most `n` elements (`TableExists`). From this: a sum is a natural number,
adding or removing an element adds or removes its term, sums compare as their terms do.

**`WasmWorker_proofs`.** `TypeOK` says that a chain which awaits a call awaits a
pending one; that is kept only if no two chains await the same call
(*Separate*), a started session has given the page a role, and the head of the queue is there while it runs (*Roled*).
*OneLoad* (no load is under way once the module is ready, and no exchange begins
before) gives `ExchangeNeverLost`. For `CallsImplemented`, every step is one of
`RemoteCalls` or a stutter, two more parts are needed: *Ordered* (the numbers in
each queue increase, answers come before calls that are still to run, and what ran is
before what is still to run) and *Accounted* (a pending call has an answer under
way or is still to run, a result comes from a call that ran, and what is not pending is
settled). *Ordered* makes an answer to a pending call the first of all that are to come; the fatal
message has number 0 and is the only exception. `KeysAreOwn` has an invariant of its
own on top, `KeyInv`: a queued call says who made it and for which step (*Tagged*), and
while the sessions never overlapped, the calls of the earlier one on the exchange are
all ahead of those of the later one, and gone once the later one's `initPAKE` has run (*Alone*).

**The limits, in `FileTransfer_proofs`.** From what rounding up with `\div` gives:
`ChunkLimitIsSizeLimit` (the chunk limit is a size limit that depends on the
transport), `ChunksCoverFile` (chunks are not empty, not too large, and
end where the file ends), and, with the batch as a sum of its sizes (`BatchWithinLimit`: a file is
no larger than its batch), `RelayFilesTaken` (over the relay the receiver takes every file its
sender may send).

**`FileTransfer_proofs` and `FileDelivery_proofs`.** The frames that the receiver still has to
process, those of its chain first, then those kept before the transport was bound, then
those on the wire, are one run: each is the successor of the one before it in the
batch, and after the last comes the one the sender sends next (`RunInv`); the first is the
one the receiver wants (`FrontInv`). "Successor" is a function of one frame, so this is said
by the positions in the queues, without recursion. To be kept by every step it needs to know
what the sender holds at each of its awaits (`SenderInv`), that kept frames and the chain
exclude each other and a running task is in the chain (`ChainInv`), and that what is saved of
the current file is the part before the wanted chunk (`FileInv`). The end of a transfer adds
`CloseInv` (`onclose` never awaits a rejected chain), `AckInv` (an acknowledgement only after
the last file), `ShutdownInv` (over the relay, nothing closes or rejects before that) and
`OfferInv` (what is in memory is offered with the last file).
None of the properties is inductive without the run: that a whole file is saved follows
only from the order of the frames, and that a closing WebSocket cuts nothing short only from
the acknowledgement's coming after the last file.
The theorems: `DeliveryImplemented` (refinement of `BatchDelivery`), `SuccessIsWhole`,
`TransferShutdownSafe`, `LinksOffered`, `BackpressureHolds` and `TransferTypeCorrect`.
`BackpressureHolds` counts the chunks among the frames of the wire by the cardinality of
their positions; only `SendChunk` adds one, and finds at most `Threshold` frames there.
`RefusalsExplained`: the batch was selectable when it was chosen and does not change, so
metadata are refused only for what `RelayFilesTaken` leaves open. `ProgressIsHonest`, an action
property: the chunks of the files before the current one are a sum over an interval
(`ChunksBefore`), which grows by one file's chunks when its counters are moved and is
the announced total after the last.

**`Session_proofs`.** Steps are first described by what they do to one page: what its wire may
gain (`WiresMove`: each new frame has a reason), how its task and its part in the key exchange go
on (`LivesGoOn`), what becomes of its negotiator and its transport (`Dealt`). What a
negotiator becomes when all the signals that came too early are replayed is a fold, and
`AllHandled` an induction over it. The parts of the invariant are kept by these descriptions, not by the
actions one by one:
*PairInv* (`paired` comes once, to a page that has done nothing) and *GreetInv* (the relay's own
frames come before what it forwards, so a page with the key has read them all); *KeyInv* (the
sender is behind the receiver: its key comes with an answer that was sent with the
receiver's key there); *FreshInv* and *JoinInv* (no negotiator before the key, no
transport before the last step, no open channel without a connection, no armed timer with an outcome);
*BlameInv* (who says `relay` has settled on it, and who has settled on it gave up by itself or
has a peer that has settled on it). `SplitsExplained` and `KeyBeforePayload`
need all of them: neither property is inductive, because each hinges on frames that are
still on their way. `ChoiceImplemented` is the refinement of
`TransportChoice`; *KeyKept*, that not even a late `waiting` takes the key away, is where
*GreetInv* comes in, and *BlameInv* is what makes a fallback that was announced one of the promise.
`SplitByOwnFallback` follows from the promise alone as well; it is proved directly.

**Only model-checked.** All liveness: `HangupReachesPeer`, `IdleWaiterReleased`, `SweepEnds`
and `HangupEndsRoom` of the relay, `RelayTransferEnds` and `DirectTransferEnds`,
`RelayPayloadDelivered`, `DirectWithoutTrouble` and `SessionEnds`, `CallsEnd`. Fairness is out of the
prover's reach. The violations of section 4 are TLC's counterexamples.

## 6. Plan

Done: the relay, the limiter, the transfer with its limits and sinks, the session,
the worker bridge, their abstract specifications, and the proofs of all safety
properties. Left:

1. A composition of `Session` with `FileTransfer` at the moment the transport is bound.
2. Two sessions of a page beyond the key exchange, which share `state`.
3. Invariants about waiting, as far as liveness rests on them: that a page, a handler or a
   sender that waits has something under way that ends the wait.

**Not modelled.** File names and pass codes (strings, hashing, randomness); the
STUN precheck beyond its outcome; configuration, origins, TURN credentials,
HTTP and headers (stateless, with unit tests); the cipher cache and the nonces in
`wasm/main.go`, of which only "opens under the same pair or fails" is used; the
user interface, the scene and the log; deployment scripts.

## 7. Running

    tlc -workers 2 -config MCRelayRooms_safety.cfg MCRelayRooms
    tlc -workers 2 -config WasmWorker_calls.cfg WasmWorker
    tlapm RelayRooms_proofs.tla

The largest run takes a few minutes; so do the proofs of the relay, those of the transfer and
those of the session, from nothing.
