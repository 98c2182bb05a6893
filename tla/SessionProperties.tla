-------------------------- MODULE SessionProperties --------------------------
(* What Session is checked to do. *)
EXTENDS Session

-----------------------------------------------------------------------------
(* Safety *)

\* When the two pages end up with different transports, the one on the relay
\* gave up by itself (timer, ICE, STUN): a fallback that came from the peer is one
\* that the peer made too, so an announcement never splits the pages
\* (p2p.js:251-255, app.js:417-420).
SplitByOwnFallback ==
    \A p \in Pages :
        transport[p] = "relay" /\ transport[Peer(p)] = "p2p" => p \in gaveUp

\* The first frame of a transfer over the relay finds the receiver with its key:
\* it is dispatched or kept, never taken for a PAKE message and never dropped;
\* only a receiver that chose the data channel ignores it (app.js:627-654, 711-715).
PayloadFindsKey ==
    "payload" \in lost => transport["receiver"] = "p2p"

-----------------------------------------------------------------------------
(* The promise                                                               *)

\* Page p has settled on the relay.
NeverDirect(p) == nego[p].outcome = "relay" \/ transport[p] = "relay"

Choice == INSTANCE TransportChoice
    WITH keyed <- {p \in Pages : pake[p] = "complete"},
         joined <- connected,
         fallen <- {p \in Pages : NeverDirect(p)},
         chosen <- transport

\* Key exchange, early signals, negotiators, timers and announcements come to this:
\* the pages choose as TransportChoice says.  A page with the key never loses it, not
\* even to a late "waiting"; what it has chosen is for good; it falls back only for a
\* reason of its own or after the other page (app.js:384-423, p2p.js:155-275).
ImplementsChoice == Choice!Spec

-----------------------------------------------------------------------------
(* Liveness *)

\* What was kept before the transport was bound is delivered: if both pages are
\* on the relay, the first payload reaches the receiver (app.js:525-531, 350).
RelayPayloadDelivered ==
    (transport["sender"] = "relay" /\ transport["receiver"] = "relay")
        ~> (payload = "delivered" \/ ~BothUp)

\* Anything that excuses a session from a direct connection.
Trouble ==
    \/ ~BothUp \/ gaveUp # {} \/ lost # {}
    \/ \E p \in Pages : promise[p] # "pending" \/ step[p] \in {"failed", "stuck"}

\* If nothing times out, fails or is lost, both pages get the data channel, in
\* whichever order offers, candidates and the two negotiators come
\* (p2p.js:160-250, app.js:537-550).
DirectWithoutTrouble == <>(Trouble \/ \A p \in Pages : transport[p] = "p2p")

TimersFire ==
    \A p \in Pages : WF_vars(Timeout(p))

\* A receiver without a key whose page takes the closed WebSocket for the end of a
\* complete batch: it has no transport and reports nothing.
Dismissed(p) == p = "receiver" /\ pake[p] # "complete" /\ promise[p] = "resolved"

\* A page that has its key, or whose pair has lost a WebSocket, does not wait for ever:
\* it gets a transport or reports an error.  The exceptions are a receiver that the
\* code dismisses in silence, and a task that it leaves failed or hanging
\* (app.js:407-423, 665-679; p2p.js:155-161).
SessionEnds ==
    TimersFire =>
        \A p \in Pages :
            (pake[p] = "complete" \/ ~BothUp)
                ~> (transport[p] # "none" \/ promise[p] = "rejected" \/ Dismissed(p)
                    \/ step[p] \in {"failed", "stuck"})

-----------------------------------------------------------------------------
(* What the repository says and the code does not do.                        *)

\* app.js:702 "waiting for sender msg1": a receiver that waits for the first PAKE
\* message can still get it.
FirstMessageAwaited ==
    pake["receiver"] = "pake" /\ step["receiver"] = "idle" => "msg1" \notin lost

=============================================================================
