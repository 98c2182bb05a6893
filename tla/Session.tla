------------------------------- MODULE Session -------------------------------
(***************************************************************************)
(* A session of two pages from the relay's first frame to the transport    *)
(* (connectAndTransfer in src/public/app.js): the key exchange, whose      *)
(* tasks wait for the WASM worker, the signalling that may come before     *)
(* there is a negotiator, and the first payload the relay brings.  The     *)
(* transfer that follows is FileTransfer.                                  *)
(*                                                                         *)
(* Frames reach a page in the order they were sent.  Only the relay's own  *)
(* "waiting" may overtake, or be overtaken by, its "paired" (RelayRooms).  *)
(***************************************************************************)
EXTENDS Negotiation

VARIABLES
    pake,       \* pakeState
    step,       \* what the task of the page's chain awaits
    pending,    \* pendingSignaling
    transport,  \* the mode of the transport the page has chosen
    payload,    \* how far the first frame of a transfer over the relay got
    lost        \* history: the binary frames that reached nobody

sessionVars == <<pake, step, pending, transport, payload, lost>>
vars == <<negoVars, sessionVars>>

\* "stuck": awaits what never comes; "done": the transport is chosen.
Steps == {"idle", "loading", "message", "processing", "keying", "precheck",
          "offering", "negotiating", "done", "failed", "stuck"}

TypeOK ==
    /\ NegoTypeOK
    /\ pake \in [Pages -> {"init", "waiting", "paired", "pake", "complete"}]
    /\ step \in [Pages -> Steps]
    /\ pending \in [Pages -> Seq(Signals)]
    /\ transport \in [Pages -> {"none", "relay", "p2p"}]
    /\ payload \in {"none", "sent", "buffered", "delivered"}
    /\ lost \subseteq {"msg1", "msg2", "payload"}

\* What the relay says to the client in the first seat and to the other one: a
\* pair, in either order of the two frames, or a server too busy for the second.
Greetings(p) ==
    LET Told(first, other) == [q \in Pages |-> IF q = p THEN first ELSE other]
    IN  {Told(<<"waiting", "paired">>, <<"paired">>),
         Told(<<"paired", "waiting">>, <<"paired">>),
         Told(<<"waiting">>, <<"error">>)}

Init ==
    /\ up = [p \in Pages |-> TRUE]
    /\ \E p \in Pages : wire \in Greetings(p)
    /\ nego = [p \in Pages |-> Null]
    /\ connected = FALSE
    /\ promise = [p \in Pages |-> "pending"]
    /\ gaveUp = {}
    /\ pake = [p \in Pages |-> "init"]
    /\ step = [p \in Pages |-> "idle"]
    /\ pending = [p \in Pages |-> <<>>]
    /\ transport = [p \in Pages |-> "none"]
    /\ payload = "none"
    /\ lost = {}

-----------------------------------------------------------------------------
(* ws.onmessage                                                              *)

Reads(p, m) == wire[p] # <<>> /\ Head(wire[p]) = m
Rest(p) == [wire EXCEPT ![p] = Tail(@)]
GoesTo(p, s) == step' = [step EXCEPT ![p] = s]
Pake(p, s) == pake' = [pake EXCEPT ![p] = s]

\* A late "waiting" takes the page's state back.
ReadWaiting(p) ==
    /\ Reads(p, "waiting")
    /\ wire' = Rest(p)
    /\ Pake(p, "waiting")
    /\ UNCHANGED <<up, nego, connected, promise, gaveUp, step, pending,
                   transport, payload, lost>>

\* The chain is empty, so runPAKEInit starts at once.
ReadPaired(p) ==
    /\ Reads(p, "paired")
    /\ wire' = Rest(p)
    /\ Pake(p, "paired")
    /\ GoesTo(p, "loading")
    /\ UNCHANGED <<up, nego, connected, promise, gaveUp, pending, transport,
                   payload, lost>>

ReadError(p) ==
    /\ Reads(p, "error")
    /\ wire' = Rest(p)
    /\ Reject(p)
    /\ UNCHANGED <<up, nego, connected, gaveUp, sessionVars>>

ReadSignal(p) ==
    LET m == Head(wire[p])
    IN  /\ wire[p] # <<>>
        /\ m \in Signals
        /\ IF nego[p].pc = "none"
           THEN /\ pending' = [pending EXCEPT ![p] = Append(@, m)]
                /\ wire' = Rest(p)
                /\ UNCHANGED nego
           ELSE /\ Becomes(p, Handle(p, nego[p], m), Rest(p))
                /\ UNCHANGED pending
        /\ UNCHANGED <<up, connected, promise, gaveUp, pake, step, transport,
                       payload, lost>>

\* A binary frame of the key exchange.  In any other state than "pake" the page
\* drops it; behind a running task it is queued, and finds the state changed.
ReadPakeMessage(p) ==
    LET m == Head(wire[p])
    IN  /\ wire[p] # <<>>
        /\ m \in {"msg1", "msg2"}
        /\ wire' = Rest(p)
        /\ IF pake[p] = "pake" /\ step[p] = "idle"
           THEN GoesTo(p, "processing") /\ UNCHANGED lost
           ELSE lost' = lost \cup {m} /\ UNCHANGED step
        /\ UNCHANGED <<up, nego, connected, promise, gaveUp, pake, pending,
                       transport, payload>>

\* A binary frame of the transfer: dispatched, kept until there is a transport,
\* or ignored by a page that expects it on the data channel.
ReadPayload(p) ==
    /\ Reads(p, "payload")
    /\ wire' = Rest(p)
    /\ CASE pake[p] = "complete" /\ transport[p] = "relay" ->
                payload' = "delivered" /\ UNCHANGED lost
         [] pake[p] = "complete" /\ transport[p] = "none" ->
                payload' = "buffered" /\ UNCHANGED lost
         [] OTHER -> lost' = lost \cup {"payload"} /\ UNCHANGED payload
    /\ UNCHANGED <<up, nego, connected, promise, gaveUp, pake, step, pending,
                   transport>>

-----------------------------------------------------------------------------
(* runPAKEInit and handleBinary, from one answer of the worker to the next   *)

\* wasmInitPAKE answers, which takes as long as the WASM module loads.
Loaded(p) ==
    /\ step[p] = "loading"
    /\ Pake(p, "pake")
    /\ GoesTo(p, IF p = "sender" THEN "message" ELSE "idle")
    /\ UNCHANGED <<negoVars, pending, transport, payload, lost>>

\* wasmGetPAKEMessage answers.
SendFirstMessage ==
    /\ step["sender"] = "message"
    /\ wire' = To(wire, "receiver", <<"msg1">>)
    /\ GoesTo("sender", "idle")
    /\ UNCHANGED <<up, nego, connected, promise, gaveUp, pake, pending,
                   transport, payload, lost>>

\* processPAKEMessage has the key with the first message it sees, and only the
\* receiver has an answer to send.
Reply(p) == IF p = "receiver" THEN <<"msg2">> ELSE <<>>

\* Mutant: the exchange does not count as complete before the key is there.
Processed_StaysPake(p) ==
    /\ step[p] = "processing"
    /\ GoesTo(p, "keying")
    /\ wire' = To(wire, Peer(p), Reply(p))
    /\ UNCHANGED <<up, nego, connected, promise, gaveUp, pake, pending, transport,
                   payload, lost>>
\* wasmProcessPAKEMessage answers.
Processed(p) ==
    /\ step[p] = "processing"
    /\ Pake(p, "complete")
    /\ GoesTo(p, "keying")
    /\ wire' = To(wire, Peer(p), Reply(p))
    /\ UNCHANGED <<up, nego, connected, promise, gaveUp, pending, transport,
                   payload, lost>>

\* flushPendingSignaling
FlushPending(p, k) == HandleAll(p, k, pending[p])

\* wasmGetSessionKey and deriveTransferId answer.  The receiver starts its
\* negotiator, and with it the connect timeout, before it knows about STUN.
Keyed(p) ==
    /\ step[p] = "keying"
    /\ GoesTo(p, "precheck")
    /\ IF p = "receiver"
       THEN /\ Becomes(p, FlushPending(p, Rearm(New)), wire)
            /\ pending' = [pending EXCEPT ![p] = <<>>]
       ELSE UNCHANGED <<nego, wire, pending>>
    /\ UNCHANGED <<up, connected, promise, gaveUp, pake, transport, payload, lost>>

\* The worker fails: the task rejects the chain, and nothing is queued behind it.
WasmFails(p) ==
    /\ step[p] \in {"loading", "message", "processing", "keying"}
    /\ GoesTo(p, "failed")
    /\ UNCHANGED <<negoVars, pake, pending, transport, payload, lost>>

-----------------------------------------------------------------------------
(* setupSenderTransport and setupReceiverTransport                           *)

\* Mutant: what came before the transport was bound is forgotten.
Bind_NoFlush(p, mode) ==
    /\ transport' = [transport EXCEPT ![p] = mode]
    /\ GoesTo(p, "done")
    /\ UNCHANGED payload
\* The transport is chosen; bindReceiverTransport hands it what the relay has
\* brought so far.
Bind(p, mode) ==
    /\ transport' = [transport EXCEPT ![p] = mode]
    /\ GoesTo(p, "done")
    /\ payload' = IF p = "receiver" /\ mode = "relay" /\ payload = "buffered"
                  THEN "delivered" ELSE payload

\* waitForStunPrecheck: STUN is reachable.
Reachable(p) ==
    /\ step[p] = "precheck"
    /\ IF p = "sender"
       THEN GoesTo(p, "offering") /\ nego' = [nego EXCEPT ![p] = New]
       ELSE GoesTo(p, "negotiating") /\ UNCHANGED nego
    /\ UNCHANGED <<up, wire, connected, promise, gaveUp, pake, pending,
                   transport, payload, lost>>

\* It is not: setupRelayOnlyTransport, of which only the sender tells its peer.
\* The receiver destroys its negotiator.
Unreachable(p) ==
    /\ step[p] = "precheck"
    /\ Bind(p, "relay")
    /\ gaveUp' = gaveUp \cup {p}
    /\ IF p = "sender"
       THEN wire' = To(wire, Peer(p), <<"relay">>) /\ UNCHANGED nego
       ELSE nego' = [nego EXCEPT ![p] = [@ EXCEPT !.pc = "closed", !.timer = FALSE]]
            /\ UNCHANGED wire
    /\ UNCHANGED <<up, connected, promise, pake, pending, lost>>

\* start() of the sender's negotiator ends with the offer ...
Offered ==
    LET s == "sender"
        k == Rearm([nego[s] EXCEPT !.gather = "ready"])
    IN  /\ step[s] = "offering"
        /\ nego[s].pc = "open"
        /\ Becomes(s, FlushPending(s, k), To(wire, Peer(s), <<"offer">>))
        /\ pending' = [pending EXCEPT ![s] = <<>>]
        /\ GoesTo(s, "negotiating")
        /\ UNCHANGED <<up, connected, promise, gaveUp, pake, transport, payload,
                       lost>>

\* ... unless the peer's fallback closes the connection under it: createOffer
\* throws or never ends.
OfferOrphaned ==
    /\ step["sender"] = "offering"
    /\ nego["sender"].pc = "closed"
    /\ GoesTo("sender", "failed") \/ GoesTo("sender", "stuck")
    /\ UNCHANGED <<negoVars, pake, pending, transport, payload, lost>>

\* waitReady: the sender announces the outcome whichever it is.
Chosen(p) ==
    LET mode == nego[p].outcome
    IN  /\ step[p] = "negotiating"
        /\ mode # "none"
        /\ Bind(p, mode)
        /\ wire' = IF p = "sender" THEN To(wire, Peer(p), <<mode>>) ELSE wire
        /\ UNCHANGED <<up, nego, connected, promise, gaveUp, pake, pending, lost>>

\* sendAllFiles begins: over the relay the metadata follow the announcement.
SendPayload ==
    /\ transport["sender"] = "relay"
    /\ payload = "none"
    /\ up["sender"]
    /\ wire' = To(wire, "receiver", <<"payload">>)
    /\ payload' = "sent"
    /\ UNCHANGED <<up, nego, connected, promise, gaveUp, pake, step, pending,
                   transport, lost>>

-----------------------------------------------------------------------------
(* The WebSockets                                                            *)

\* It breaks, with or without an error event, or the relay closes it because the
\* other one broke; what the relay still had for the page is lost.
WsLost(p) ==
    /\ up[p]
    /\ up' = [up EXCEPT ![p] = FALSE]
    /\ wire' = [wire EXCEPT ![p] = <<>>]
    /\ Reject(p) \/ UNCHANGED promise
    /\ UNCHANGED <<nego, connected, gaveUp, sessionVars>>

\* isBatchComplete of a page that has seen no metadata in this session: true, as
\* totalChunks is 0 and fileIndex is fileCount - 1, unless an earlier transfer of the
\* page was cut short and left its own counters behind.
BatchComplete(p) == IF p = "receiver" THEN BOOLEAN ELSE {FALSE}

\* ws.onclose, once the chain is done; a rejected chain ends it, and the end of
\* the transfer is a matter of FileTransfer.
OnClose(p) ==
    /\ ~up[p]
    /\ step[p] = "idle"
    /\ promise[p] = "pending"
    /\ \E complete \in BatchComplete(p) :
          Settle(p, IF complete THEN "resolved" ELSE "rejected")
    /\ UNCHANGED <<up, wire, nego, connected, gaveUp, sessionVars>>

-----------------------------------------------------------------------------

Reading(p) ==
    \/ ReadWaiting(p) \/ ReadPaired(p) \/ ReadError(p)
    \/ ReadSignal(p) \/ ReadPakeMessage(p) \/ ReadPayload(p)

Task(p) ==
    \/ Loaded(p) \/ Processed(p) \/ Keyed(p)
    \/ Reachable(p) \/ Unreachable(p) \/ Chosen(p)

SenderTask == SendFirstMessage \/ Offered \/ OfferOrphaned \/ SendPayload

Timeout(p) == TimesOut(p) /\ UNCHANGED sessionVars

Next ==
    \/ \E p \in Pages :
          \/ Reading(p) \/ Task(p) \/ OnClose(p) \/ WasmFails(p)
          \/ Timeout(p) \/ WsLost(p)
          \/ IceFails(p) /\ UNCHANGED sessionVars
    \/ SenderTask
    \/ WebRTC /\ UNCHANGED sessionVars

Spec == Init /\ [][Next]_vars

\* The relay delivers, the worker and the STUN probe answer, WebRTC goes on as
\* far as it can, and close events come; a relay that lost one of the two closes
\* the other (RelayRooms).  Nothing obliges a fault; that the connect timeouts fire
\* is assumed only where a property says so.
Fairness ==
    /\ \A p \in Pages : WF_vars(Reading(p)) /\ WF_vars(Task(p)) /\ WF_vars(OnClose(p))
    /\ \A p \in Pages : WF_vars(~up[Peer(p)] /\ WsLost(p))
    /\ WF_vars(SenderTask)
    /\ WF_vars(WebRTC /\ UNCHANGED sessionVars)

FairSpec == Spec /\ Fairness

=============================================================================
