----------------------------- MODULE Negotiation -----------------------------
(***************************************************************************)
(* The choice of a transport by the two pages (class P2pNegotiator in      *)
(* src/public/p2p.js): offer, answer and candidates through the relay, the *)
(* data channel that opens at either end in its own time, and the three    *)
(* ways to fall back to the relay.  Session composes these steps with the  *)
(* rest of a page.                                                         *)
(*                                                                         *)
(* WebRTC itself is external: an operation on a peer connection takes a    *)
(* while, and one that is under way when the connection is closed either   *)
(* throws or never ends, as browsers differ.  One candidate stands for all *)
(* of a page's, and the connect timeout fires at any moment.               *)
(***************************************************************************)
EXTENDS Naturals, Sequences, SequencesExt

VARIABLES
    up,         \* the WebSocket of each page is open
    wire,       \* the frames the relay is forwarding to each page
    nego,       \* the P2pNegotiator of each page
    connected,  \* the two peer connections have reached each other
    promise,    \* the promise of connectAndTransfer
    gaveUp      \* history: the pages that fell back to the relay by themselves

negoVars == <<up, wire, nego, connected, promise, gaveUp>>

Pages == {"sender", "receiver"}
Peer(p) == IF p = "sender" THEN "receiver" ELSE "sender"

Signals == {"offer", "answer", "candidate", "relay", "p2p"}
Frames == {"waiting", "paired", "error", "msg1", "msg2", "payload"} \cup Signals

Negotiators ==
    [pc        : {"none", "open", "closed"},         \* this.pc; "none": no negotiator
     job       : {"none", "remote", "flush", "local"},  \* what handleMessage awaits
     described : BOOLEAN,                            \* remoteDescriptionSet
     gather    : {"no", "ready", "done"},            \* the page's own candidate
     candidate : {"none", "pending", "adding", "added"},  \* the peer's candidate
     timer     : BOOLEAN,                            \* _timeout is armed
     outcome   : {"none", "relay", "p2p"}]           \* _resolve was called with

New == [pc |-> "open", job |-> "none", described |-> FALSE, gather |-> "no",
        candidate |-> "none", timer |-> FALSE, outcome |-> "none"]
Null == [New EXCEPT !.pc = "none"]

NegoTypeOK ==
    /\ up \in [Pages -> BOOLEAN]
    /\ wire \in [Pages -> Seq(Frames)]
    /\ nego \in [Pages -> Negotiators]
    /\ connected \in BOOLEAN
    /\ promise \in [Pages -> {"pending", "resolved", "rejected"}]
    /\ gaveUp \subseteq Pages

\* ws.send of page p's peer: the frame is dropped by a WebSocket that is closed at
\* this end, or by the relay if it is at the other.
BothUp == \A p \in Pages : up[p]
To(w, p, frames) == [w EXCEPT ![p] = IF BothUp THEN @ \o frames ELSE @]

\* resolveOnce, rejectOnce
Settle(p, result) ==
    promise' = [promise EXCEPT ![p] = IF @ = "pending" THEN result ELSE @]
Reject(p) == Settle(p, "rejected")

-----------------------------------------------------------------------------
(* The methods of a negotiator, as functions of its state                    *)

\* Mutant: the last call counts.
Resolve_Again(k, mode) ==
    [k EXCEPT !.outcome = mode, !.timer = FALSE,
              !.pc = IF mode = "relay" THEN "closed" ELSE @]
\* _resolve: only the first call counts.
Resolve(k, mode) ==
    IF k.outcome # "none" THEN k
    ELSE [k EXCEPT !.outcome = mode, !.timer = FALSE,
                   !.pc = IF mode = "relay" THEN "closed" ELSE @]

\* What _resolve tells the peer.
Announced(before, after) ==
    IF before.outcome = "none" /\ after.outcome = "relay" THEN <<"relay">> ELSE <<>>

\* Mutant: the timer is not armed again.
Rearm_Never(k) == k
\* _resetConnectTimeout
Rearm(k) == [k EXCEPT !.timer = (k.outcome = "none")]

\* Mutant: the mode of a transport-mode message is not looked at.
FallsBack_AnyMode(m) == m \in {"relay", "p2p"}
FallsBack(m) == m = "relay"

\* handleMessage, up to its first await.
Handle(p, k, m) ==
    CASE FallsBack(m) -> Resolve(k, "relay")
      [] m = (IF p = "sender" THEN "answer" ELSE "offer") /\ k.pc = "open" ->
             [k EXCEPT !.job = "remote"]
      [] m = "candidate" /\ k.pc = "open" ->
             [k EXCEPT !.candidate = IF k.described THEN "adding" ELSE "pending"]
      [] OTHER -> k

\* Several messages that are handled one right after the other.
HandleAll(p, k, ms) == FoldLeft(LAMBDA acc, m : Handle(p, acc, m), k, ms)

\* Page p's negotiator becomes k; w is the wire otherwise.
Becomes(p, k, w) ==
    /\ nego' = [nego EXCEPT ![p] = k]
    /\ wire' = To(w, Peer(p), Announced(nego[p], k))

-----------------------------------------------------------------------------
(* Steps of the browser's WebRTC stack                                       *)

\* What follows the candidates kept: the sender's negotiation is over, the receiver
\* goes on to the answer.
Proceed(p, k) ==
    IF p = "sender" THEN Rearm([k EXCEPT !.job = "none"]) ELSE [k EXCEPT !.job = "local"]

\* Mutant: the candidates that came too early are forgotten.
FlushCandidates_Forgets(p, k) == Proceed(p, [k EXCEPT !.candidate = "none"])
\* _flushCandidates awaits the candidate, if there is one.
FlushCandidates(p, k) ==
    IF k.candidate = "pending" THEN [k EXCEPT !.job = "flush", !.candidate = "adding"]
    ELSE Proceed(p, k)

\* setRemoteDescription is done.
RemoteDescribed(p) ==
    /\ nego[p].job = "remote"
    /\ nego[p].pc = "open"
    /\ nego' = [nego EXCEPT ![p] = FlushCandidates(p, [@ EXCEPT !.described = TRUE])]
    /\ UNCHANGED <<up, wire, connected, promise, gaveUp>>

\* addIceCandidate is done, within _flushCandidates or in a message of its own.
CandidateAdded(p) ==
    LET k == [nego[p] EXCEPT !.candidate = "added"]
    IN  /\ nego[p].candidate = "adding"
        /\ nego[p].pc = "open"
        /\ nego' = [nego EXCEPT ![p] = IF k.job = "flush" THEN Proceed(p, k) ELSE k]
        /\ UNCHANGED <<up, wire, connected, promise, gaveUp>>

\* createAnswer and setLocalDescription are done.
Answered ==
    LET r == "receiver"
    IN  /\ nego[r].job = "local"
        /\ nego[r].pc = "open"
        /\ nego' = [nego EXCEPT ![r] =
                       Rearm([@ EXCEPT !.job = "none", !.gather = "ready"])]
        /\ wire' = To(wire, "sender", <<"answer">>)
        /\ UNCHANGED <<up, connected, promise, gaveUp>>

\* The connection was closed under a running handleMessage.  If the operation
\* throws, handleMessage(...).catch rejects the page's promise.
Orphaned(p) ==
    /\ nego[p].job # "none" \/ nego[p].candidate = "adding"
    /\ nego[p].pc = "closed"
    /\ nego' = [nego EXCEPT ![p].job = "none", ![p].candidate = "none"]
    /\ Reject(p) \/ UNCHANGED promise
    /\ UNCHANGED <<up, wire, connected, gaveUp>>

\* onicecandidate
Gathers(p) ==
    /\ nego[p].pc = "open"
    /\ nego[p].gather = "ready"
    /\ nego' = [nego EXCEPT ![p].gather = "done"]
    /\ wire' = To(wire, Peer(p), <<"candidate">>)
    /\ UNCHANGED <<up, connected, promise, gaveUp>>

\* Both have both descriptions, and one candidate is enough: the other page learns
\* the way back from its checks.
Connects ==
    /\ ~connected
    /\ \A p \in Pages : nego[p].pc = "open" /\ nego[p].described /\ nego[p].gather # "no"
    /\ \E p \in Pages : nego[p].candidate = "added"
    /\ connected' = TRUE
    /\ UNCHANGED <<up, wire, nego, promise, gaveUp>>

\* dc.onopen
ChannelOpens(p) ==
    /\ connected
    /\ nego[p].pc = "open"
    /\ nego[p].outcome = "none"
    /\ nego' = [nego EXCEPT ![p] = Resolve(@, "p2p")]
    /\ UNCHANGED <<up, wire, connected, promise, gaveUp>>

GivesUp(p) ==
    /\ Becomes(p, Resolve(nego[p], "relay"), wire)
    /\ gaveUp' = gaveUp \cup {p}
    /\ UNCHANGED <<up, connected, promise>>

\* Mutant: the reason in place of the mode.
TimesOut_Reason(p) ==
    /\ nego[p].timer
    /\ Becomes(p, Resolve(nego[p], "timeout"), wire)
    /\ gaveUp' = gaveUp \cup {p}
    /\ UNCHANGED <<up, connected, promise>>
\* The callback of _timeout.
TimesOut(p) == nego[p].timer /\ GivesUp(p)

\* iceConnectionState "failed" before the channel is open.
IceFails(p) ==
    /\ nego[p].pc = "open"
    /\ nego[p].described
    /\ nego[p].outcome = "none"
    /\ GivesUp(p)

WebRTC ==
    \/ Answered
    \/ Connects
    \/ \E p \in Pages :
          \/ RemoteDescribed(p) \/ CandidateAdded(p) \/ Orphaned(p)
          \/ Gathers(p) \/ ChannelOpens(p)

=============================================================================
