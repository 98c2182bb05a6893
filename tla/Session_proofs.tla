---------------------------- MODULE Session_proofs ----------------------------
(***************************************************************************)
(* The session of two pages, as theorems: the types of its state, why the  *)
(* two pages differ in their transport only if one gave up by itself, and  *)
(* why the first payload finds its receiver with the key.                  *)
(*                                                                         *)
(* The second argument runs backwards from the payload through both chains *)
(* of tasks and both wires; the first follows "relay" from whoever first   *)
(* said it.  What a negotiator becomes when it is handed all the signals   *)
(* that came too early is a fold, and so a matter of induction.            *)
(***************************************************************************)
EXTENDS SessionProperties, SumTheorems, SequenceTheorems

(* The negotiator                                                            *)

\* The connect timeout is not armed once there is an outcome.
Armed(k) == k.timer => k.outcome = "none"

\* What more messages can make of the outcome.
Outcomes(before, after, messages) ==
    /\ \/ after.outcome = before.outcome
       \/ /\ before.outcome = "none" /\ after.outcome = "relay"
          /\ "relay" \in messages
    /\ Armed(before) => Armed(after)

\* handleMessage settles on the relay, if the peer says so, or on nothing
\* (p2p.js:160-262).
LEMMA Handled ==
    ASSUME NEW p \in Pages, NEW k \in Negotiators, NEW m \in Signals
    PROVE  /\ Handle(p, k, m) \in Negotiators
           /\ Outcomes(k, Handle(p, k, m), {m})
<1>1. CASE m = "relay"
  <2>1. Handle(p, k, m) = Resolve(k, "relay")
    BY <1>1 DEF Handle, FallsBack
  <2>2. QED
    BY <1>1, <2>1 DEF Resolve, Negotiators, Outcomes, Armed
<1>2. CASE m # "relay"
  <2> DEFINE wanted == IF p = "sender" THEN "answer" ELSE "offer"
  <2>1. CASE m = wanted /\ k.pc = "open"
    <3>1. Handle(p, k, m) = [k EXCEPT !.job = "remote"]
      BY <1>2, <2>1 DEF Handle, FallsBack
    <3>2. QED
      BY <3>1 DEF Negotiators, Outcomes, Armed
  <2>2. CASE m = "candidate" /\ k.pc = "open"
    <3>1. Handle(p, k, m) = [k EXCEPT !.candidate = IF k.described THEN "adding" ELSE "pending"]
      BY <1>2, <2>2 DEF Handle, FallsBack
    <3>2. QED
      BY <3>1 DEF Negotiators, Outcomes, Armed
  <2>3. CASE ~(m = wanted /\ k.pc = "open") /\ ~(m = "candidate" /\ k.pc = "open")
    <3>1. Handle(p, k, m) = k
      BY <1>2, <2>3 DEF Handle, FallsBack
    <3>2. QED
      BY <3>1 DEF Outcomes
  <2>4. QED
    BY <2>1, <2>2, <2>3
<1>3. QED
  BY <1>1, <1>2

-----------------------------------------------------------------------------
(* flushPendingSignaling                                                     *)

\* The last of a finite set of positions is one of them.
LEMMA LastPosition ==
    ASSUME NEW S \in SUBSET Nat, IsFiniteSet(S), S # {}
    PROVE  Max(S) \in S
<1> DEFINE F == {s \in SUBSET S : s = {} \/ \E x \in s : \A y \in s : x >= y}
<1>1. {} \in F
  OBVIOUS
<1>2. ASSUME NEW s \in SUBSET S, s # {}, \A x \in s : s \ {x} \in F
      PROVE  s \in F
  <2>1. PICK x \in s : TRUE
    BY <1>2
  <2>2. CASE s \ {x} = {}
    <3>1. \A y \in s : x >= y
      BY <2>2
    <3>2. QED
      BY <3>1
  <2>3. CASE s \ {x} # {}
    <3>1. PICK z \in s \ {x} : \A y \in s \ {x} : z >= y
      BY <1>2, <2>3
    <3>2. CASE z >= x
      BY <3>1, <3>2
    <3>3. CASE ~(z >= x)
      <4>1. \A y \in s : x >= y
        BY <3>1, <3>3
      <4>2. QED
        BY <4>1
    <3>4. QED
      BY <3>2, <3>3
  <2>4. QED
    BY <2>2, <2>3
<1>3. S \in F
  <2>1. \A s \in SUBSET S : s # {} /\ (\A x \in s : s \ {x} \in F) => s \in F
    BY <1>2
  <2> HIDE DEF F
  <2>2. QED
    BY <1>1, <2>1, SubsetInduction
<1>4. PICK x \in S : \A y \in S : x >= y
  BY <1>3
<1>5. QED
  BY <1>4 DEF Max

\* h has what becomes of negotiator k for every set of D of positions in ms.
IsHandled(h, p, k, ms, D) ==
    h = [s \in D |-> IF s = {} THEN k ELSE Handle(p, h[s \ {Max(s)}], ms[Max(s)])]

\* The sets of at most n positions.
LEMMA FewPositions ==
    ASSUME NEW S, IsFiniteSet(S), NEW n \in Nat, NEW s \in UpTo(S, n)
    PROVE  /\ s \in SUBSET S /\ IsFiniteSet(s)
           /\ Cardinality(s) \in Nat /\ Cardinality(s) <= n
           /\ n = 0 => s = {}
<1>1. s \in SUBSET S /\ Cardinality(s) <= n
  BY DEF UpTo
<1>2. IsFiniteSet(s)
  BY <1>1, FS_Subset
<1>3. Cardinality(s) \in Nat /\ (Cardinality(s) = 0 => s = {})
  BY <1>2, FS_CardinalityType, FS_EmptySet
<1>4. QED
  BY <1>1, <1>2, <1>3

\* A table for the sets of at most n positions extends to n + 1.
LEMMA HandledStep ==
    ASSUME NEW S \in SUBSET Nat, IsFiniteSet(S), NEW p, NEW k, NEW ms, NEW n \in Nat,
           NEW g, IsHandled(g, p, k, ms, UpTo(S, n))
    PROVE  \E h : IsHandled(h, p, k, ms, UpTo(S, n + 1))
<1> DEFINE Body(u, s) == IF s = {} THEN k ELSE Handle(p, u[s \ {Max(s)}], ms[Max(s)])
           h == [s \in UpTo(S, n + 1) |-> Body(g, s)]
<1>1. ASSUME NEW s \in UpTo(S, n + 1)
      PROVE  Body(h, s) = Body(g, s)
  <2>1. CASE s = {}
    BY <2>1
  <2>2. CASE s # {}
    <3> DEFINE r == s \ {Max(s)}
    <3>1. IsFiniteSet(s) /\ s \in SUBSET S /\ Cardinality(s) <= n + 1
      BY FewPositions
    <3>2. Max(s) \in s
      BY <2>2, <3>1, s \in SUBSET Nat, LastPosition
    <3>3. Cardinality(s) \in Nat /\ Cardinality(r) = Cardinality(s) - 1
      BY <2>2, <3>1, <3>2, RemoveChosen
    <3>4. r \in UpTo(S, n) /\ r \in UpTo(S, n + 1)
      <4>1. r \in SUBSET S
        BY <3>1
      <4> HIDE DEF r
      <4>2. Cardinality(r) <= n /\ Cardinality(r) <= n + 1
        BY ONLY <3>1, <3>3, n \in Nat
      <4>3. QED
        BY <4>1, <4>2 DEF UpTo
    <3>5. h[r] = Body(g, r)
      BY <3>4
    <3>6. g[r] = Body(g, r)
      BY <3>4 DEF IsHandled
    <3>7. QED
      BY <3>5, <3>6
  <2>3. QED
    BY <2>1, <2>2
<1>2. h = [s \in UpTo(S, n + 1) |-> Body(h, s)]
  BY <1>1
<1>3. QED
  BY <1>2 DEF IsHandled

\* There is a table for all sets of positions.
LEMMA HandledExists ==
    ASSUME NEW S \in SUBSET Nat, IsFiniteSet(S), NEW p, NEW k, NEW ms
    PROVE  \E h : IsHandled(h, p, k, ms, SUBSET S)
<1> DEFINE Q(n) == \E h : IsHandled(h, p, k, ms, UpTo(S, n))
<1>1. Q(0)
  <2> DEFINE h == [s \in UpTo(S, 0) |-> k]
  <2>1. \A s \in UpTo(S, 0) : s = {}
    BY FewPositions
  <2>2. IsHandled(h, p, k, ms, UpTo(S, 0))
    BY <2>1 DEF IsHandled
  <2>3. QED
    BY <2>2
<1>2. \A n \in Nat : Q(n) => Q(n + 1)
  BY HandledStep
<1>3. \A n \in Nat : Q(n)
  <2> DEFINE N == {n \in Nat : Q(n)}
  <2> HIDE DEF Q
  <2>1. N \in SUBSET Nat /\ 0 \in N /\ \A n \in N : n + 1 \in N
    BY <1>1, <1>2
  <2> HIDE DEF N
  <2>2. N = Nat
    BY <2>1, NatSetInduction
  <2>3. QED
    BY <2>2 DEF N
<1>4. Cardinality(S) \in Nat
  BY FS_CardinalityType
<1>5. UpTo(S, Cardinality(S)) = SUBSET S
  BY FS_Subset DEF UpTo
<1>6. Q(Cardinality(S))
  BY <1>3, <1>4
<1>7. QED
  BY <1>5, <1>6

\* HandleAll reads its result from such a table.
LEMMA HandledTable ==
    ASSUME NEW p, NEW k, NEW ms, ms \in Seq(Signals)
    PROVE  \E h : /\ IsHandled(h, p, k, ms, SUBSET (1..Len(ms)))
                  /\ HandleAll(p, k, ms) = h[1..Len(ms)]
<1> DEFINE S == 1..Len(ms)
           h == CHOOSE iter : IsHandled(iter, p, k, ms, SUBSET S)
<1>1. Len(ms) \in Nat /\ DOMAIN ms = S
  OBVIOUS
<1>2. S \in SUBSET Nat /\ IsFiniteSet(S)
  BY <1>1, FS_Interval
<1>3. HandleAll(p, k, ms) = h[S]
  BY <1>1 DEF HandleAll, FoldLeft, MapThenFoldSet, IsHandled
<1>4. IsHandled(h, p, k, ms, SUBSET S)
  BY <1>2, HandledExists
<1>5. QED
  BY <1>3, <1>4

\* The signals that were kept settle on the relay only if one of them says so
\* (app.js:407-423).
LEMMA AllHandled ==
    ASSUME NEW p \in Pages, NEW k \in Negotiators, NEW ms \in Seq(Signals)
    PROVE  /\ HandleAll(p, k, ms) \in Negotiators
           /\ Outcomes(k, HandleAll(p, k, ms), ToSet(ms))
<1> DEFINE S == 1..Len(ms)
<1>1. PICK h : IsHandled(h, p, k, ms, SUBSET S) /\ HandleAll(p, k, ms) = h[S]
  BY HandledTable
<1> DEFINE F == {s \in SUBSET S : h[s] \in Negotiators /\ Outcomes(k, h[s], ToSet(ms))}
<1>2. S \in SUBSET Nat /\ IsFiniteSet(S)
  BY FS_Interval
<1>3. {} \in F
  <2>1. h[{}] = k
    BY <1>1 DEF IsHandled
  <2>2. QED
    BY <2>1 DEF Outcomes
<1>4. ASSUME NEW s \in SUBSET S, s # {}, \A x \in s : s \ {x} \in F
      PROVE  s \in F
  <2> DEFINE i == Max(s)
  <2>1. i \in s
    BY <1>2, <1>4, LastPosition, FS_Subset
  <2> HIDE DEF i
  <2>2. h[s \ {i}] \in Negotiators /\ Outcomes(k, h[s \ {i}], ToSet(ms))
    BY <1>4, <2>1
  <2>3. ms[i] \in Signals /\ ms[i] \in ToSet(ms)
    BY <2>1 DEF ToSet
  <2>4. h[s] = Handle(p, h[s \ {i}], ms[i])
    BY <1>1, <1>4 DEF IsHandled, i
  <2>5. h[s] \in Negotiators /\ Outcomes(h[s \ {i}], h[s], {ms[i]})
    BY <2>2, <2>3, <2>4, Handled
  <2>6. Outcomes(k, h[s], ToSet(ms))
    BY <2>2, <2>3, <2>5 DEF Outcomes
  <2>7. QED
    BY <2>5, <2>6
<1>5. S \in F
  <2>1. \A s \in SUBSET S : s # {} /\ (\A x \in s : s \ {x} \in F) => s \in F
    BY <1>4
  <2> HIDE DEF F, S
  <2>2. QED
    BY <1>2, <1>3, <2>1, SubsetInduction
<1>6. QED
  BY <1>1, <1>5

-----------------------------------------------------------------------------
(* The invariant                                                             *)

On(p) == ToSet(wire[p])
Greeting == {"waiting", "paired", "error"}

\* What the relay says by itself comes before what it forwards, and pairs once.
GreetsFirst(w) == \A i, j \in DOMAIN w : i < j /\ w[j] \in Greeting => w[i] \in Greeting
PairsOnce(w) == \A i, j \in DOMAIN w : w[i] = "paired" /\ w[j] = "paired" => i = j

\* A page's task before and after the key exchange.
Early == {"idle", "loading", "message", "processing", "keying"}
Late == {"keying", "precheck", "offering", "negotiating", "done"}

\* No page has a negotiator before it has the key, nor the sender before the
\* STUN precheck is over; a transport is chosen last, and the data channel only by
\* the negotiator.
FreshInv == \A p \in Pages :
    /\ step[p] \in Early \/ (p = "sender" /\ step[p] = "precheck") => nego[p] = Null
    /\ transport[p] # "none" => step[p] = "done"
    /\ transport[p] = "p2p" => nego[p].outcome = "p2p"

\* "paired" finds a page that has done nothing yet, and comes once.
PairInv == \A p \in Pages :
    /\ PairsOnce(wire[p])
    /\ "paired" \in On(p) => step[p] = "idle" /\ pake[p] \in {"init", "waiting"}

\* A page that has seen a frame of its peer's has had the relay's own.
GreetInv == \A p \in Pages :
    /\ GreetsFirst(wire[p])
    /\ pake[p] = "complete" \/ step[p] = "processing" => On(p) \cap Greeting = {}

\* The sender gets no further than the key exchange before the receiver has its
\* key, and the payload follows.
KeyInv ==
    /\ \A p \in Pages : /\ pake[p] = "complete" => step[p] \in Late \cup {"failed", "stuck"}
                        /\ step[p] \in Late => pake[p] = "complete"
    /\ On("sender") \cap {"msg1", "payload"} = {}
    /\ "msg2" \in On("sender") => pake["receiver"] = "complete"
    /\ step["sender"] \in {"processing"} \cup Late => pake["receiver"] = "complete"
    /\ "payload" \in On("receiver") => pake["receiver"] = "complete"

\* A negotiator belongs to a page with the key, waits only while it has no outcome,
\* and opens a data channel only over a connection.
JoinInv == \A p \in Pages :
    /\ Armed(nego[p])
    /\ nego[p] # Null => pake[p] = "complete"
    /\ nego[p].outcome = "p2p" => connected

\* Whoever says "relay" has settled on it, and whoever has settled on it gave up by
\* itself or heard so from a page that had.
BlameInv == \A p \in Pages :
    /\ "relay" \in On(p) \cup ToSet(pending[p]) => NeverDirect(Peer(p))
    /\ NeverDirect(p) => p \in gaveUp \/ NeverDirect(Peer(p))

IInv == TypeOK /\ FreshInv /\ PairInv /\ GreetInv /\ KeyInv /\ JoinInv /\ BlameInv

\* The two pages.
LEMMA TwoPages ==
    /\ "sender" \in Pages /\ "receiver" \in Pages
    /\ Peer("sender") = "receiver" /\ Peer("receiver") = "sender"
    /\ \A p \in Pages : /\ Peer(p) \in Pages /\ Peer(p) # p /\ Peer(Peer(p)) = p
                        /\ \A q \in Pages : q = p \/ q = Peer(p)
  BY DEF Pages, Peer

-----------------------------------------------------------------------------
(* The wires                                                                 *)

\* What reading a frame leaves.
LEMMA FrameRead ==
    ASSUME NEW w \in Seq(Frames), w # <<>>
    PROVE  /\ Head(w) \in Frames /\ Head(w) \in ToSet(w)
           /\ Tail(w) \in Seq(Frames) /\ ToSet(Tail(w)) \subseteq ToSet(w)
           /\ GreetsFirst(w) => GreetsFirst(Tail(w))
           /\ GreetsFirst(w) /\ Head(w) \notin Greeting => ToSet(w) \cap Greeting = {}
           /\ PairsOnce(w) => PairsOnce(Tail(w))
           /\ PairsOnce(w) /\ Head(w) = "paired" => "paired" \notin ToSet(Tail(w))
<1>1. /\ Len(w) \in Nat \ {0} /\ DOMAIN w = 1..Len(w) /\ Head(w) = w[1] /\ w[1] \in Frames
      /\ Tail(w) \in Seq(Frames) /\ DOMAIN Tail(w) = 1..(Len(w) - 1)
      /\ \A k \in 1..(Len(w) - 1) : Tail(w)[k] = w[k + 1] /\ k + 1 \in 1..Len(w)
  OBVIOUS
<1>2. Head(w) \in ToSet(w) /\ ToSet(Tail(w)) \subseteq ToSet(w)
  BY <1>1 DEF ToSet
<1>3. ASSUME GreetsFirst(w) PROVE GreetsFirst(Tail(w))
  BY <1>1, <1>3 DEF GreetsFirst
<1>4. ASSUME GreetsFirst(w), Head(w) \notin Greeting PROVE ToSet(w) \cap Greeting = {}
  <2>1. ASSUME NEW j \in 1..Len(w), w[j] \in Greeting PROVE FALSE
    <3>1. j # 1 /\ 1 < j
      BY <1>1, <1>4, <2>1
    <3>2. QED
      BY <1>1, <1>4, <2>1, <3>1 DEF GreetsFirst
  <2>2. QED
    BY <1>1, <2>1 DEF ToSet
<1>5. ASSUME PairsOnce(w) PROVE PairsOnce(Tail(w))
  <2>1. ASSUME NEW i \in DOMAIN Tail(w), NEW j \in DOMAIN Tail(w),
               Tail(w)[i] = "paired", Tail(w)[j] = "paired"
        PROVE  i = j
    <3>1. i + 1 = j + 1
      BY <1>1, <1>5, <2>1 DEF PairsOnce
    <3>2. QED
      BY <1>1, <3>1
  <2>2. QED
    BY <2>1 DEF PairsOnce
<1>6. ASSUME PairsOnce(w), Head(w) = "paired" PROVE "paired" \notin ToSet(Tail(w))
  <2>1. ASSUME NEW k \in 1..(Len(w) - 1), Tail(w)[k] = "paired" PROVE FALSE
    <3>1. k + 1 = 1
      BY <1>1, <1>6, <2>1 DEF PairsOnce
    <3>2. QED
      BY <1>1, <3>1
  <2>2. QED
    BY <1>1, <2>1 DEF ToSet
<1>7. QED
  BY <1>1, <1>2, <1>3, <1>4, <1>5, <1>6

\* What frames that the other page sends add.
LEMMA FramesAdded ==
    ASSUME NEW w \in Seq(Frames), NEW fs \in Seq(Frames),
           \A i \in DOMAIN fs : fs[i] \notin Greeting
    PROVE  /\ w \o fs \in Seq(Frames) /\ ToSet(w \o fs) = ToSet(w) \cup ToSet(fs)
           /\ GreetsFirst(w) => GreetsFirst(w \o fs)
           /\ PairsOnce(w) => PairsOnce(w \o fs)
<1> DEFINE v == w \o fs
<1>1. /\ Len(w) \in Nat /\ Len(fs) \in Nat
      /\ DOMAIN w = 1..Len(w) /\ DOMAIN fs = 1..Len(fs)
      /\ v \in Seq(Frames) /\ DOMAIN v = 1..(Len(w) + Len(fs))
      /\ \A k \in 1..(Len(w) + Len(fs)) : v[k] = IF k <= Len(w) THEN w[k] ELSE fs[k - Len(w)]
  OBVIOUS
<1>2. /\ \A k \in 1..Len(w) : v[k] = w[k] /\ k \in 1..(Len(w) + Len(fs))
      /\ \A k \in 1..Len(fs) : v[Len(w) + k] = fs[k] /\ Len(w) + k \in 1..(Len(w) + Len(fs))
  BY <1>1
<1>3. ASSUME NEW k \in DOMAIN v
      PROVE  \/ k \in 1..Len(w) /\ v[k] = w[k]
             \/ k > Len(w) /\ k - Len(w) \in 1..Len(fs) /\ v[k] = fs[k - Len(w)]
  BY <1>1, <1>3
<1> HIDE DEF v
<1>4. ToSet(v) = ToSet(w) \cup ToSet(fs)
  BY <1>1, <1>2, <1>3 DEF ToSet
<1>5. ASSUME NEW k \in DOMAIN v, v[k] \in Greeting
      PROVE  k \in 1..Len(w) /\ w[k] = v[k]
  BY <1>1, <1>3, <1>5
<1>6. ASSUME GreetsFirst(w) PROVE GreetsFirst(v)
  <2>1. ASSUME NEW i \in DOMAIN v, NEW j \in DOMAIN v, i < j, v[j] \in Greeting
        PROVE  v[i] \in Greeting
    <3>1. j \in 1..Len(w) /\ w[j] \in Greeting
      BY <1>5, <2>1
    <3>2. i \in 1..Len(w) /\ v[i] = w[i]
      BY <1>1, <1>2, <2>1, <3>1
    <3>3. QED
      BY <1>1, <1>6, <2>1, <3>1, <3>2 DEF GreetsFirst
  <2>2. QED
    BY <2>1 DEF GreetsFirst
<1>7. ASSUME PairsOnce(w) PROVE PairsOnce(v)
  <2>1. "paired" \in Greeting
    BY DEF Greeting
  <2>2. QED
    BY <1>1, <1>5, <1>7, <2>1 DEF PairsOnce
<1>8. QED
  BY <1>1, <1>4, <1>6, <1>7 DEF v

\* Why page q may be sent frame m.
Reason(q, m) ==
    /\ m \in Frames \ Greeting
    /\ m = "relay" => NeverDirect(Peer(q))'
    /\ m = "msg1" => q = "receiver"
    /\ m = "msg2" => q = "sender" /\ pake'["receiver"] = "complete"
    /\ m = "payload" => q = "receiver" /\ transport["sender"] = "relay"

Cleared(q) == wire'[q] = <<>>
Received(q) == wire[q] # <<>> /\ wire'[q] = Tail(wire[q])
Given(q, fs) == wire'[q] = wire[q] \o fs /\ \A i \in DOMAIN fs : Reason(q, fs[i])
WireMoves(q) == Cleared(q) \/ Received(q) \/ \E fs \in Seq(Frames) : Given(q, fs)
WiresMove == wire' \in [Pages -> Seq(Frames)] /\ \A q \in Pages : WireMoves(q)

\* Nothing happens on the wires.
LEMMA WiresKept ==
    ASSUME TypeOK, wire' = wire
    PROVE  WiresMove
<1>1. wire \in [Pages -> Seq(Frames)]
  BY DEF TypeOK, NegoTypeOK
<1>2. ASSUME NEW q \in Pages PROVE WireMoves(q)
  <2>1. <<>> \in Seq(Frames) /\ DOMAIN <<>> = {} /\ wire[q] \o <<>> = wire[q]
    BY <1>1
  <2>2. Given(q, <<>>)
    BY <2>1 DEF Given
  <2>3. QED
    BY <2>1, <2>2 DEF WireMoves
<1>3. QED
  BY <1>1, <1>2 DEF WiresMove

\* Page p sends some frames.
LEMMA FramesSent ==
    ASSUME TypeOK, NEW p \in Pages, NEW fs \in Seq(Frames),
           wire' = To(wire, Peer(p), fs), \A i \in DOMAIN fs : Reason(Peer(p), fs[i])
    PROVE  WiresMove
<1>1. wire \in [Pages -> Seq(Frames)] /\ Peer(p) \in Pages
  BY TwoPages DEF TypeOK, NegoTypeOK
<1>2. CASE ~BothUp
  <2>1. wire' = wire
    BY <1>1, <1>2 DEF To
  <2>2. QED
    BY <2>1, WiresKept
<1>3. CASE BothUp
  <2>1. wire' = [wire EXCEPT ![Peer(p)] = @ \o fs]
    BY <1>3 DEF To
  <2>2. wire[Peer(p)] \o fs \in Seq(Frames)
    <3>1. wire[Peer(p)] \in Seq(Frames)
      BY <1>1
    <3>2. QED
      BY <3>1
  <2>3. wire' \in [Pages -> Seq(Frames)]
    BY <1>1, <2>1, <2>2
  <2>4. Given(Peer(p), fs)
    BY <1>1, <2>1 DEF Given
  <2>5. \A q \in Pages : q # Peer(p) => Given(q, <<>>)
    <3>1. ASSUME NEW q \in Pages, q # Peer(p) PROVE Given(q, <<>>)
      <4>1. wire'[q] = wire[q] /\ wire[q] \in Seq(Frames)
        BY <1>1, <2>1, <3>1
      <4>2. wire[q] \o <<>> = wire[q] /\ DOMAIN <<>> = {}
        BY <4>1
      <4>3. QED
        BY <4>1, <4>2 DEF Given
    <3>2. QED
      BY <3>1
  <2>6. <<>> \in Seq(Frames)
    OBVIOUS
  <2>7. QED
    BY <2>3, <2>4, <2>5, <2>6 DEF WiresMove, WireMoves
<1>4. QED
  BY <1>2, <1>3

\* Page p sends one frame.
LEMMA FrameSent ==
    ASSUME TypeOK, NEW p \in Pages, NEW m, Reason(Peer(p), m),
           wire' = To(wire, Peer(p), <<m>>)
    PROVE  WiresMove
<1>1. <<m>> \in Seq(Frames) /\ DOMAIN <<m>> = {1} /\ <<m>>[1] = m
  BY DEF Reason
<1>2. QED
  BY <1>1, FramesSent

\* Page p reads a frame, and says no more than that it has settled on the relay.
LEMMA FrameReceived ==
    ASSUME TypeOK, NEW p \in Pages, wire[p] # <<>>, NEW fs \in Seq(Frames),
           wire' = To(Rest(p), Peer(p), fs), \A i \in DOMAIN fs : Reason(Peer(p), fs[i])
    PROVE  WiresMove
<1>1. wire \in [Pages -> Seq(Frames)] /\ Peer(p) \in Pages /\ Peer(p) # p
  BY TwoPages DEF TypeOK, NegoTypeOK
<1>2. wire[p] \in Seq(Frames) /\ Tail(wire[p]) \in Seq(Frames)
  <2>1. wire[p] \in Seq(Frames)
    BY <1>1
  <2>2. QED
    BY <2>1, FrameRead
<1>3. Rest(p) \in [Pages -> Seq(Frames)] /\ Rest(p)[p] = Tail(wire[p])
      /\ Rest(p)[Peer(p)] = wire[Peer(p)]
  BY <1>1, <1>2 DEF Rest
<1> DEFINE gs == IF BothUp THEN fs ELSE <<>>
<1>4. gs \in Seq(Frames) /\ \A i \in DOMAIN gs : Reason(Peer(p), gs[i])
  <2>1. CASE BothUp
    BY <2>1
  <2>2. CASE ~BothUp
    <3>1. gs = <<>> /\ <<>> \in Seq(Frames) /\ DOMAIN <<>> = {}
      BY <2>2
    <3>2. QED
      BY <3>1
  <2>3. QED
    BY <2>1, <2>2
<1>5. wire[Peer(p)] \in Seq(Frames) /\ wire[Peer(p)] \o <<>> = wire[Peer(p)]
  <2>1. wire[Peer(p)] \in Seq(Frames)
    BY <1>1
  <2>2. QED
    BY <2>1
<1>6. wire' = [Rest(p) EXCEPT ![Peer(p)] = wire[Peer(p)] \o gs]
  <2>1. CASE BothUp
    BY <1>3, <2>1 DEF To
  <2>2. CASE ~BothUp
    <3>1. wire' = [Rest(p) EXCEPT ![Peer(p)] = Rest(p)[Peer(p)]] /\ gs = <<>>
      BY <2>2 DEF To
    <3>2. QED
      BY <1>3, <1>5, <3>1
  <2>3. QED
    BY <2>1, <2>2
<1> HIDE DEF gs
<1>7. wire[Peer(p)] \o gs \in Seq(Frames)
  BY <1>4, <1>5
<1>8. wire' \in [Pages -> Seq(Frames)] /\ wire'[p] = Tail(wire[p])
      /\ wire'[Peer(p)] = wire[Peer(p)] \o gs
  BY <1>1, <1>3, <1>6, <1>7
<1>9. Received(p) /\ Given(Peer(p), gs)
  BY <1>4, <1>8 DEF Received, Given
<1>10. QED
  BY <1>4, <1>8, <1>9, TwoPages DEF WiresMove, WireMoves

\* Page p only reads.
LEMMA OnlyReceived ==
    ASSUME TypeOK, NEW p \in Pages, wire[p] # <<>>, wire' = Rest(p)
    PROVE  WiresMove
<1>1. wire \in [Pages -> Seq(Frames)] /\ Peer(p) \in Pages /\ Peer(p) # p
  BY TwoPages DEF TypeOK, NegoTypeOK
<1>2. Rest(p)[Peer(p)] = wire[Peer(p)] /\ wire[Peer(p)] \in Seq(Frames)
  BY <1>1 DEF Rest
<1>3. Rest(p)[Peer(p)] \o <<>> = Rest(p)[Peer(p)]
  BY <1>2
<1>4. To(Rest(p), Peer(p), <<>>) = Rest(p)
  BY <1>3 DEF To, Rest
<1>5. <<>> \in Seq(Frames) /\ DOMAIN <<>> = {}
  OBVIOUS
<1>6. QED
  BY <1>4, <1>5, FrameReceived

\* What _resolve makes a page say is true.
LEMMA AnnouncedTruly ==
    ASSUME NEW p \in Pages, NEW k, nego \in [Pages -> Negotiators],
           nego' = [nego EXCEPT ![p] = k]
    PROVE  /\ Announced(nego[p], k) \in {<<>>, <<"relay">>}
           /\ Announced(nego[p], k) \in Seq(Frames)
           /\ \A i \in DOMAIN Announced(nego[p], k) :
                 Reason(Peer(p), Announced(nego[p], k)[i])
<1>1. "relay" \in Frames \ Greeting
  BY DEF Frames, Signals, Greeting
<1>2. CASE Announced(nego[p], k) = <<>>
  BY <1>2
<1>3. CASE Announced(nego[p], k) = <<"relay">> /\ k.outcome = "relay"
  <2>1. nego'[p] = k /\ Peer(Peer(p)) = p
    BY TwoPages
  <2>2. NeverDirect(Peer(Peer(p)))'
    BY <1>3, <2>1 DEF NeverDirect
  <2>3. Reason(Peer(p), "relay")
    BY <1>1, <2>2 DEF Reason
  <2>4. /\ <<"relay">> \in Seq(Frames) /\ DOMAIN <<"relay">> = {1} /\ <<"relay">>[1] = "relay"
    BY <1>1
  <2>5. QED
    BY <1>3, <2>3, <2>4
<1>4. QED
  BY <1>2, <1>3 DEF Announced

\* A negotiator changes, and its page tells the peer if it has settled on the relay.
LEMMA BecomesSent ==
    ASSUME TypeOK, NEW p \in Pages, NEW k,
           Becomes(p, k, wire) \/ (Becomes(p, k, Rest(p)) /\ wire[p] # <<>>)
    PROVE  WiresMove
<1>1. nego \in [Pages -> Negotiators] /\ nego' = [nego EXCEPT ![p] = k]
  BY DEF TypeOK, NegoTypeOK, Becomes
<1>2. /\ Announced(nego[p], k) \in Seq(Frames)
      /\ \A i \in DOMAIN Announced(nego[p], k) :
            Reason(Peer(p), Announced(nego[p], k)[i])
  BY <1>1, AnnouncedTruly
<1>3. \/ wire' = To(wire, Peer(p), Announced(nego[p], k))
      \/ wire[p] # <<>> /\ wire' = To(Rest(p), Peer(p), Announced(nego[p], k))
  BY DEF Becomes
<1>4. QED
  BY <1>2, <1>3, FramesSent, FrameReceived

\* The offer may be followed by the fallback that waited for the negotiator.
LEMMA OfferSent ==
    ASSUME TypeOK, Offered
    PROVE  WiresMove
<1> DEFINE k == FlushPending("sender", Rearm([nego["sender"] EXCEPT !.gather = "ready"]))
           an == Announced(nego["sender"], k)
           fs == <<"offer">> \o an
<1>1. /\ nego \in [Pages -> Negotiators] /\ nego' = [nego EXCEPT !["sender"] = k]
      /\ wire' = To(To(wire, Peer("sender"), <<"offer">>), Peer("sender"), an)
  BY DEF TypeOK, NegoTypeOK, Offered, Becomes
<1>2. /\ an \in {<<>>, <<"relay">>} /\ an \in Seq(Frames)
      /\ \A i \in DOMAIN an : Reason(Peer("sender"), an[i])
  BY <1>1, TwoPages, AnnouncedTruly
<1>3. Reason(Peer("sender"), "offer")
  BY DEF Reason, Frames, Signals, Greeting
<1>4. "offer" \in Frames /\ wire \in [Pages -> Seq(Frames)] /\ Peer("sender") \in Pages
  BY TwoPages DEF Frames, Signals, TypeOK, NegoTypeOK
<1> HIDE DEF k, an
<1>5. fs \in Seq(Frames) /\ \A i \in DOMAIN fs : Reason(Peer("sender"), fs[i])
  <2>1. /\ fs \in Seq(Frames) /\ Len(an) \in Nat /\ DOMAIN fs = 1..(1 + Len(an))
        /\ DOMAIN an = 1..Len(an)
        /\ fs[1] = "offer" /\ \A i \in 2..(1 + Len(an)) : fs[i] = an[i - 1]
    BY <1>2, <1>4
  <2>2. \A i \in 2..(1 + Len(an)) : i - 1 \in DOMAIN an
    BY <2>1
  <2>3. \A i \in 1..(1 + Len(an)) : i = 1 \/ i \in 2..(1 + Len(an))
    BY <2>1
  <2> HIDE DEF fs
  <2>4. QED
    BY <1>2, <1>3, <2>1, <2>2, <2>3
<1>6. wire' = To(wire, Peer("sender"), fs)
  <2>1. CASE ~BothUp
    BY <1>1, <1>4, <2>1 DEF To
  <2>2. CASE BothUp
    <3>1. wire[Peer("sender")] \in Seq(Frames) /\ <<"offer">> \in Seq(Frames)
      BY <1>4
    <3>2. (wire[Peer("sender")] \o <<"offer">>) \o an = wire[Peer("sender")] \o fs
      <4> DEFINE w == wire[Peer("sender")]
                 offer == <<"offer">>
      <4>1. w \in Seq(Frames) /\ offer \in Seq(Frames) /\ an \in Seq(Frames)
        BY <1>2, <3>1
      <4> HIDE DEF w, offer
      <4>2. (w \o offer) \o an = w \o (offer \o an)
        BY ONLY <4>1, ConcatAssociative
      <4>3. QED
        BY <4>2 DEF w, offer
    <3> HIDE DEF fs
    <3>3. To(wire, Peer("sender"), <<"offer">>)
            = [wire EXCEPT ![Peer("sender")] = @ \o <<"offer">>]
      BY <2>2 DEF To
    <3>4. wire' = [wire EXCEPT ![Peer("sender")] = (wire[Peer("sender")] \o <<"offer">>) \o an]
      BY <1>1, <1>4, <2>2, <3>3 DEF To
    <3>5. QED
      BY <2>2, <3>2, <3>4 DEF To
  <2>3. QED
    BY <2>1, <2>2
<1>7. QED
  BY <1>5, <1>6, TwoPages, FramesSent

\* What the two pages, the relay and WebRTC put on the wires.
LEMMA WireStep ==
    ASSUME TypeOK, Next
    PROVE  WiresMove
<1>1. ASSUME NEW p \in Pages, Reading(p) PROVE WiresMove
  <2>1. CASE \/ ReadWaiting(p) \/ ReadPaired(p) \/ ReadError(p)
             \/ ReadPakeMessage(p) \/ ReadPayload(p)
    <3>1. wire[p] # <<>> /\ wire' = Rest(p)
      BY <2>1 DEF ReadWaiting, ReadPaired, ReadError, ReadPakeMessage, ReadPayload, Reads
    <3>2. QED
      BY <3>1, OnlyReceived
  <2>2. CASE ReadSignal(p)
    <3>1. /\ wire[p] # <<>>
          /\ wire' = Rest(p) \/ Becomes(p, Handle(p, nego[p], Head(wire[p])), Rest(p))
      BY <2>2 DEF ReadSignal
    <3>2. QED
      BY <3>1, OnlyReceived, BecomesSent
  <2>3. QED
    BY <1>1, <2>1, <2>2 DEF Reading
<1>2. ASSUME NEW p \in Pages, Task(p) PROVE WiresMove
  <2>1. CASE Loaded(p) \/ Reachable(p)
    BY <2>1, WiresKept DEF Loaded, Reachable, negoVars
  <2>2. CASE Processed(p)
    <3>1. step[p] = "processing" /\ wire' = To(wire, Peer(p), Reply(p))
      BY <2>2 DEF Processed
    <3>2. CASE p = "sender"
      <4>1. Reply(p) = <<>> /\ <<>> \in Seq(Frames) /\ DOMAIN <<>> = {}
        BY <3>2 DEF Reply
      <4>2. QED
        BY <3>1, <4>1, FramesSent
    <3>3. CASE p = "receiver"
      <4>1. pake' = [pake EXCEPT ![p] = "complete"] /\ pake'[p] = "complete"
        BY <2>2 DEF Processed, Pake, TypeOK
      <4>2. Reply(p) = <<"msg2">> /\ Reason(Peer(p), "msg2")
        BY <3>3, <4>1, TwoPages DEF Reply, Reason, Frames, Signals, Greeting
      <4>3. QED
        BY <3>1, <4>2, FrameSent
    <3>4. QED
      BY <3>2, <3>3 DEF Pages
  <2>3. CASE Keyed(p)
    <3>1. Becomes(p, FlushPending(p, Rearm(New)), wire) \/ wire' = wire
      BY <2>3 DEF Keyed
    <3>2. QED
      BY <3>1, BecomesSent, WiresKept
  <2>4. CASE Unreachable(p)
    <3>1. CASE p = "sender"
      <4>1. transport'[p] = "relay" /\ wire' = To(wire, Peer(p), <<"relay">>)
        BY <2>4, <3>1 DEF Unreachable, Bind, TypeOK
      <4>2. Reason(Peer(p), "relay")
        BY <4>1, TwoPages DEF Reason, NeverDirect, Frames, Signals, Greeting
      <4>3. QED
        BY <4>1, <4>2, FrameSent
    <3>2. CASE p # "sender"
      BY <2>4, <3>2, WiresKept DEF Unreachable
    <3>3. QED
      BY <3>1, <3>2
  <2>5. CASE Chosen(p)
    <3>1. CASE p = "sender"
      <4>1. /\ nego[p].outcome \in {"relay", "p2p"} /\ nego' = nego
            /\ wire' = To(wire, Peer(p), <<nego[p].outcome>>)
        <5>1. nego[p] \in Negotiators
          BY DEF TypeOK, NegoTypeOK
        <5>2. nego[p].outcome \in {"none", "relay", "p2p"}
          BY <5>1 DEF Negotiators
        <5>3. QED
          BY <2>5, <3>1, <5>2 DEF Chosen
      <4>2. Reason(Peer(p), nego[p].outcome)
        BY <4>1, TwoPages DEF Reason, NeverDirect, Frames, Signals, Greeting
      <4>3. QED
        BY <4>1, <4>2, FrameSent
    <3>2. CASE p # "sender"
      BY <2>5, <3>2, WiresKept DEF Chosen
    <3>3. QED
      BY <3>1, <3>2
  <2>6. QED
    BY <1>2, <2>1, <2>2, <2>3, <2>4, <2>5 DEF Task
<1>3. ASSUME SenderTask PROVE WiresMove
  <2>1. CASE SendFirstMessage
    <3>1. Reason("receiver", "msg1") /\ wire' = To(wire, Peer("sender"), <<"msg1">>)
      BY <2>1, TwoPages DEF SendFirstMessage, Reason, Frames, Signals, Greeting
    <3>2. QED
      BY <3>1, TwoPages, FrameSent
  <2>2. CASE Offered
    BY <2>2, OfferSent
  <2>3. CASE OfferOrphaned
    BY <2>3, WiresKept DEF OfferOrphaned, negoVars
  <2>4. CASE SendPayload
    <3>1. /\ Reason("receiver", "payload")
          /\ wire' = To(wire, Peer("sender"), <<"payload">>)
      BY <2>4, TwoPages DEF SendPayload, Reason, Frames, Signals, Greeting
    <3>2. QED
      BY <3>1, TwoPages, FrameSent
  <2>5. QED
    BY <1>3, <2>1, <2>2, <2>3, <2>4 DEF SenderTask
<1>4. ASSUME WebRTC PROVE WiresMove
  <2>1. CASE Answered
    <3>1. /\ Reason("sender", "answer")
          /\ wire' = To(wire, Peer("receiver"), <<"answer">>)
      BY <2>1, TwoPages DEF Answered, Reason, Frames, Signals, Greeting
    <3>2. QED
      BY <3>1, TwoPages, FrameSent
  <2>2. CASE Connects
    BY <2>2, WiresKept DEF Connects
  <2>3. ASSUME NEW p \in Pages,
               RemoteDescribed(p) \/ CandidateAdded(p) \/ Orphaned(p) \/ ChannelOpens(p)
        PROVE  WiresMove
    BY <2>3, WiresKept DEF RemoteDescribed, CandidateAdded, Orphaned, ChannelOpens
  <2>4. ASSUME NEW p \in Pages, Gathers(p) PROVE WiresMove
    <3>1. /\ Reason(Peer(p), "candidate")
          /\ wire' = To(wire, Peer(p), <<"candidate">>)
      BY <2>4 DEF Gathers, Reason, Frames, Signals, Greeting
    <3>2. QED
      BY <3>1, FrameSent
  <2>5. QED
    BY <1>4, <2>1, <2>2, <2>3, <2>4 DEF WebRTC
<1>5. ASSUME NEW p \in Pages, TimesOut(p) \/ IceFails(p) PROVE WiresMove
  BY <1>5, BecomesSent DEF TimesOut, IceFails, GivesUp
<1>6. ASSUME NEW p \in Pages, OnClose(p) \/ WasmFails(p) PROVE WiresMove
  BY <1>6, WiresKept DEF OnClose, WasmFails, negoVars
<1>7. ASSUME NEW p \in Pages, WsLost(p) PROVE WiresMove
  <2>1. wire \in [Pages -> Seq(Frames)] /\ <<>> \in Seq(Frames) /\ DOMAIN <<>> = {}
    BY DEF TypeOK, NegoTypeOK
  <2>2. wire' = [wire EXCEPT ![p] = <<>>]
    BY <1>7 DEF WsLost
  <2>3. Cleared(p)
    BY <2>1, <2>2 DEF Cleared
  <2>4. ASSUME NEW q \in Pages, q # p PROVE Given(q, <<>>)
    <3>1. wire'[q] = wire[q] /\ wire[q] \in Seq(Frames)
      BY <2>1, <2>2, <2>4
    <3>2. wire[q] \o <<>> = wire[q]
      BY <3>1
    <3>3. QED
      BY <2>1, <3>1, <3>2 DEF Given
  <2>5. QED
    BY <2>1, <2>2, <2>3, <2>4 DEF WiresMove, WireMoves
<1>8. QED
  BY <1>1, <1>2, <1>3, <1>4, <1>5, <1>6, <1>7 DEF Next, Timeout

-----------------------------------------------------------------------------
(* The tasks                                                                 *)

\* What becomes of a page's task and of its part in the key exchange.
Stays(q) == step'[q] = step[q] /\ pake'[q] = pake[q]
Waits(q) == Reads(q, "waiting") /\ Received(q) /\ step'[q] = step[q] /\ pake'[q] = "waiting"
Begins(q) == Reads(q, "paired") /\ Received(q) /\ step'[q] = "loading" /\ pake'[q] = "paired"
TakesMessage(q) ==
    /\ wire[q] # <<>> /\ Head(wire[q]) \in {"msg1", "msg2"} /\ Received(q)
    /\ pake[q] = "pake" /\ pake'[q] = pake[q] /\ step[q] = "idle" /\ step'[q] = "processing"
Loads(q) == step[q] = "loading" /\ step'[q] \in {"message", "idle"} /\ pake'[q] = "pake"
Says(q) == step[q] = "message" /\ step'[q] = "idle" /\ pake'[q] = pake[q]
Completes(q) == step[q] = "processing" /\ step'[q] = "keying" /\ pake'[q] = "complete"
Keys(q) == step[q] = "keying" /\ step'[q] = "precheck" /\ pake'[q] = pake[q]
GoesOn(q) ==
    /\ step[q] \in {"precheck", "offering", "negotiating"} /\ pake'[q] = pake[q]
    /\ step'[q] \in {"offering", "negotiating", "done", "failed", "stuck"}
Breaks(q) == step[q] \in {"loading", "message", "processing", "keying"}
             /\ step'[q] = "failed" /\ pake'[q] = pake[q]

Life(q) == \/ Stays(q) \/ Waits(q) \/ Begins(q) \/ TakesMessage(q) \/ Loads(q) \/ Says(q)
           \/ Completes(q) \/ Keys(q) \/ GoesOn(q) \/ Breaks(q)

LivesGoOn ==
    /\ step' \in [Pages -> Steps]
    /\ pake' \in [Pages -> {"init", "waiting", "paired", "pake", "complete"}]
    /\ \A q \in Pages : Life(q)
    /\ \E p \in Pages : \A q \in Pages : q # p => Stays(q)

\* The tasks of both pages, one step at a time.
LEMMA LifeStep ==
    ASSUME TypeOK, Next
    PROVE  LivesGoOn
<1> DEFINE Pakes == {"init", "waiting", "paired", "pake", "complete"}
<1>1. /\ step \in [Pages -> Steps] /\ pake \in [Pages -> Pakes]
      /\ wire \in [Pages -> Seq(Frames)]
  BY DEF TypeOK, NegoTypeOK
<1>2. CASE UNCHANGED <<step, pake>>
  BY <1>1, <1>2, TwoPages DEF LivesGoOn, Life, Stays
<1>3. ASSUME NEW p \in Pages, step' \in [Pages -> Steps], pake' \in [Pages -> Pakes],
             Life(p), \A q \in Pages : q # p => Stays(q)
      PROVE  LivesGoOn
  BY <1>3 DEF LivesGoOn, Life
<1>4. ASSUME NEW p \in Pages, NEW s \in Steps, NEW k \in Pakes,
             GoesTo(p, s) \/ (step' = step /\ s = step[p]),
             Pake(p, k) \/ (pake' = pake /\ k = pake[p])
      PROVE  /\ step' \in [Pages -> Steps] /\ pake' \in [Pages -> Pakes]
             /\ step'[p] = s /\ pake'[p] = k
             /\ \A q \in Pages : q # p => Stays(q)
  <2>1. step' \in [Pages -> Steps] /\ step'[p] = s /\ \A q \in Pages : q # p => step'[q] = step[q]
    BY <1>1, <1>4 DEF GoesTo
  <2>2. pake' \in [Pages -> Pakes] /\ pake'[p] = k /\ \A q \in Pages : q # p => pake'[q] = pake[q]
    BY <1>1, <1>4 DEF Pake
  <2>3. QED
    BY <2>1, <2>2 DEF Stays
<1>5. ASSUME NEW p \in Pages, Reading(p) PROVE LivesGoOn
  <2>1. ASSUME wire[p] # <<>>, wire' = Rest(p) PROVE Received(p)
    BY <1>1, <2>1 DEF Rest, Received
  <2>2. CASE ReadWaiting(p)
    <3>1. /\ Reads(p, "waiting") /\ Received(p) /\ "waiting" \in Pakes
          /\ Pake(p, "waiting") /\ step' = step /\ step[p] \in Steps
      BY <1>1, <2>1, <2>2 DEF ReadWaiting, Reads
    <3>2. QED
      BY <1>3, <1>4, <3>1 DEF Life, Waits
  <2>3. CASE ReadPaired(p)
    <3>1. /\ Reads(p, "paired") /\ Received(p) /\ "paired" \in Pakes /\ "loading" \in Steps
          /\ Pake(p, "paired") /\ GoesTo(p, "loading")
      BY <2>1, <2>3 DEF ReadPaired, Reads, Steps
    <3>2. QED
      BY <1>3, <1>4, <3>1 DEF Life, Begins
  <2>4. CASE ReadError(p) \/ ReadSignal(p) \/ ReadPayload(p)
    BY <1>2, <2>4 DEF ReadError, ReadSignal, ReadPayload, sessionVars
  <2>5. CASE ReadPakeMessage(p)
    <3>1. CASE pake[p] = "pake" /\ step[p] = "idle"
      <4>1. /\ wire[p] # <<>> /\ Head(wire[p]) \in {"msg1", "msg2"} /\ Received(p)
            /\ GoesTo(p, "processing") /\ pake' = pake /\ pake[p] \in Pakes
            /\ "processing" \in Steps
        BY <1>1, <2>1, <2>5, <3>1 DEF ReadPakeMessage, Steps
      <4>2. step'[p] = "processing" /\ pake'[p] = pake[p]
        BY <1>4, <4>1
      <4>3. Life(p)
        BY <3>1, <4>1, <4>2 DEF Life, TakesMessage
      <4>4. QED
        BY <1>3, <1>4, <4>1, <4>3
    <3>2. CASE ~(pake[p] = "pake" /\ step[p] = "idle")
      BY <1>2, <2>5, <3>2 DEF ReadPakeMessage
    <3>3. QED
      BY <3>1, <3>2
  <2>6. QED
    BY <1>5, <2>2, <2>3, <2>4, <2>5 DEF Reading
<1>6. ASSUME NEW p \in Pages, NEW s \in Steps, GoesTo(p, s), pake' = pake,
             \/ step[p] = "message" /\ s = "idle"
             \/ step[p] = "keying" /\ s = "precheck"
             \/ /\ step[p] \in {"precheck", "offering", "negotiating"}
                /\ s \in {"offering", "negotiating", "done", "failed", "stuck"}
             \/ step[p] \in {"loading", "message", "processing", "keying"} /\ s = "failed"
      PROVE  LivesGoOn
  <2>1. pake[p] \in Pakes
    BY <1>1
  <2>2. /\ step' \in [Pages -> Steps] /\ pake' \in [Pages -> Pakes]
        /\ step'[p] = s /\ pake'[p] = pake[p] /\ \A q \in Pages : q # p => Stays(q)
    BY <1>4, <1>6, <2>1
  <2>3. Life(p)
    BY <1>6, <2>2 DEF Life, Says, Keys, GoesOn, Breaks
  <2>4. QED
    BY <1>3, <2>2, <2>3
<1>7. /\ {"idle", "message", "keying", "precheck", "offering", "negotiating", "done",
          "failed", "stuck"} \subseteq Steps
  BY DEF Steps
<1>8. ASSUME NEW p \in Pages, Task(p) PROVE LivesGoOn
  <2>1. CASE Loaded(p)
    <3> DEFINE s == IF p = "sender" THEN "message" ELSE "idle"
    <3>1. step[p] = "loading" /\ GoesTo(p, s) /\ Pake(p, "pake") /\ s \in Steps /\ "pake" \in Pakes
      BY <1>7, <2>1 DEF Loaded
    <3>2. step'[p] = s /\ pake'[p] = "pake"
      BY <1>4, <3>1
    <3>3. Life(p)
      BY <3>1, <3>2 DEF Life, Loads
    <3>4. QED
      BY <1>3, <1>4, <3>1, <3>3
  <2>2. CASE Processed(p)
    <3>1. /\ step[p] = "processing" /\ GoesTo(p, "keying") /\ Pake(p, "complete")
          /\ "complete" \in Pakes /\ "keying" \in Steps
      BY <1>7, <2>2 DEF Processed
    <3>2. step'[p] = "keying" /\ pake'[p] = "complete"
      BY <1>4, <3>1
    <3>3. Life(p)
      BY <3>1, <3>2 DEF Life, Completes
    <3>4. QED
      BY <1>3, <1>4, <3>1, <3>3
  <2>3. CASE Keyed(p)
    BY <1>6, <1>7, <2>3 DEF Keyed
  <2>4. CASE Reachable(p)
    BY <1>6, <1>7, <2>4 DEF Reachable
  <2>5. CASE Unreachable(p)
    BY <1>6, <1>7, <2>5 DEF Unreachable, Bind
  <2>6. CASE Chosen(p)
    BY <1>6, <1>7, <2>6 DEF Chosen, Bind
  <2>7. QED
    BY <1>8, <2>1, <2>2, <2>3, <2>4, <2>5, <2>6 DEF Task
<1>9. ASSUME SenderTask PROVE LivesGoOn
  <2>1. CASE SendFirstMessage
    BY <1>6, <1>7, <2>1, TwoPages DEF SendFirstMessage
  <2>2. CASE Offered
    BY <1>6, <1>7, <2>2, TwoPages DEF Offered
  <2>3. CASE OfferOrphaned
    BY <1>6, <1>7, <2>3, TwoPages DEF OfferOrphaned
  <2>4. CASE SendPayload
    BY <1>2, <2>4 DEF SendPayload
  <2>5. QED
    BY <1>9, <2>1, <2>2, <2>3, <2>4 DEF SenderTask
<1>10. ASSUME NEW p \in Pages, WasmFails(p) PROVE LivesGoOn
  BY <1>6, <1>7, <1>10 DEF WasmFails
<1>11. ASSUME NEW p \in Pages, OnClose(p) \/ Timeout(p) \/ (IceFails(p) /\ UNCHANGED sessionVars)
       PROVE  LivesGoOn
  BY <1>2, <1>11 DEF OnClose, Timeout, sessionVars
<1>12. ASSUME (WebRTC /\ UNCHANGED sessionVars) \/ \E p \in Pages : WsLost(p)
       PROVE  LivesGoOn
  BY <1>2, <1>12 DEF WsLost, sessionVars
<1>13. QED
  BY <1>5, <1>8, <1>9, <1>10, <1>11, <1>12 DEF Next

-----------------------------------------------------------------------------
(* The order of the frames                                                   *)

\* A frame on the wire was there before, or has a reason; the relay's own keep their
\* order.
LEMMA FramesExplained ==
    ASSUME TypeOK, WiresMove, NEW q \in Pages
    PROVE  /\ \A m \in On(q)' : m \in On(q) \/ Reason(q, m)
           /\ On(q)' \cap Greeting \subseteq On(q)
           /\ GreetsFirst(wire[q]) => GreetsFirst(wire'[q])
           /\ PairsOnce(wire[q]) => PairsOnce(wire'[q])
<1>1. wire[q] \in Seq(Frames) /\ WireMoves(q)
  BY DEF TypeOK, NegoTypeOK, WiresMove
<1>2. CASE Cleared(q)
  <2>1. wire'[q] = <<>> /\ DOMAIN <<>> = {}
    BY <1>2 DEF Cleared
  <2>2. QED
    BY <2>1 DEF On, ToSet, GreetsFirst, PairsOnce
<1>3. CASE Received(q)
  BY <1>1, <1>3, FrameRead DEF On, Received
<1>4. ASSUME NEW fs \in Seq(Frames), Given(q, fs)
      PROVE  /\ \A m \in On(q)' : m \in On(q) \/ Reason(q, m)
             /\ On(q)' \cap Greeting \subseteq On(q)
             /\ GreetsFirst(wire[q]) => GreetsFirst(wire'[q])
             /\ PairsOnce(wire[q]) => PairsOnce(wire'[q])
  <2>1. wire'[q] = wire[q] \o fs /\ \A i \in DOMAIN fs : Reason(q, fs[i])
    BY <1>4 DEF Given
  <2>2. \A i \in DOMAIN fs : fs[i] \notin Greeting
    BY <2>1 DEF Reason
  <2>3. On(q)' = On(q) \cup ToSet(fs)
    BY <1>1, <2>1, <2>2, FramesAdded DEF On
  <2>4. \A m \in ToSet(fs) : Reason(q, m) /\ m \notin Greeting
    BY <2>1, <2>2 DEF ToSet
  <2>5. QED
    BY <1>1, <2>1, <2>2, <2>3, <2>4, FramesAdded
<1>5. QED
  BY <1>1, <1>2, <1>3, <1>4 DEF WireMoves

\* A page that begins does so once, with nothing done before (app.js:590-612).
LEMMA PairStep ==
    ASSUME IInv, Next
    PROVE  PairInv'
<1>1. TypeOK /\ PairInv /\ WiresMove /\ LivesGoOn
  BY WireStep, LifeStep DEF IInv
<1>2. ASSUME NEW q \in Pages
      PROVE  /\ PairsOnce(wire'[q])
             /\ "paired" \in On(q)' => step'[q] = "idle" /\ pake'[q] \in {"init", "waiting"}
  <2>1. PairsOnce(wire'[q])
    BY <1>1, FramesExplained DEF PairInv
  <2>2. ASSUME "paired" \in On(q)'
        PROVE  step'[q] = "idle" /\ pake'[q] \in {"init", "waiting"}
    <3>1. "paired" \in On(q)
      BY <1>1, <2>2, FramesExplained DEF Greeting
    <3>2. step[q] = "idle" /\ pake[q] \in {"init", "waiting"}
      BY <1>1, <3>1 DEF PairInv
    <3>3. ~Begins(q)
      <4>1. ASSUME Begins(q) PROVE FALSE
        <5>1. wire[q] \in Seq(Frames) /\ wire[q] # <<>> /\ Head(wire[q]) = "paired"
              /\ wire'[q] = Tail(wire[q])
          BY <1>1, <4>1 DEF TypeOK, NegoTypeOK, Begins, Reads, Received
        <5>2. "paired" \notin ToSet(Tail(wire[q]))
          BY <1>1, <5>1, FrameRead DEF PairInv
        <5>3. QED
          BY <2>2, <5>1, <5>2 DEF On
      <4>2. QED
        BY <4>1
    <3>4. Stays(q) \/ Waits(q)
      BY <1>1, <3>2, <3>3
         DEF LivesGoOn, Life, TakesMessage, Loads, Says, Completes, Keys, GoesOn, Breaks
    <3>5. QED
      BY <3>2, <3>4 DEF Stays, Waits
  <2>3. QED
    BY <2>1, <2>2
<1>3. QED
  BY <1>2 DEF PairInv, On

\* What a page reads of its peer's is behind all that the relay has to say.
LEMMA GreetStep ==
    ASSUME IInv, Next
    PROVE  GreetInv'
<1>1. TypeOK /\ GreetInv /\ WiresMove /\ LivesGoOn
  BY WireStep, LifeStep DEF IInv
<1>2. ASSUME NEW q \in Pages
      PROVE  /\ GreetsFirst(wire'[q])
             /\ pake'[q] = "complete" \/ step'[q] = "processing" => On(q)' \cap Greeting = {}
  <2>1. GreetsFirst(wire'[q]) /\ On(q)' \cap Greeting \subseteq On(q)
    BY <1>1, FramesExplained DEF GreetInv
  <2>2. CASE pake[q] = "complete" \/ step[q] = "processing"
    BY <1>1, <2>1, <2>2 DEF GreetInv
  <2>3. CASE TakesMessage(q)
    <3>1. wire[q] \in Seq(Frames) /\ wire[q] # <<>> /\ Head(wire[q]) \notin Greeting
      BY <1>1, <2>3 DEF TypeOK, NegoTypeOK, TakesMessage, Greeting
    <3>2. On(q) \cap Greeting = {}
      BY <1>1, <3>1, FrameRead DEF GreetInv, On
    <3>3. QED
      BY <2>1, <3>2
  <2>4. CASE ~(pake[q] = "complete" \/ step[q] = "processing") /\ ~TakesMessage(q)
    <3>1. ~(pake'[q] = "complete" \/ step'[q] = "processing")
      BY <1>1, <2>4 DEF LivesGoOn, Life, Stays, Waits, Begins, Loads, Says, Completes, Keys,
                        GoesOn, Breaks
    <3>2. QED
      BY <2>1, <3>1
  <2>5. QED
    BY <2>2, <2>3, <2>4
<1>3. QED
  BY <1>2 DEF GreetInv, On

\* Not even a late "waiting" takes the key away (app.js:592-593).
LEMMA KeyKept ==
    ASSUME IInv, Next, NEW q \in Pages, pake[q] = "complete"
    PROVE  pake'[q] = "complete" /\ ~Waits(q) /\ ~Begins(q)
<1>1. /\ TypeOK /\ GreetInv /\ Life(q)
      /\ step[q] \in Late \cup {"failed", "stuck"}
  BY LifeStep DEF IInv, LivesGoOn, KeyInv
<1>2. ASSUME Waits(q) \/ Begins(q) PROVE FALSE
  <2>1. wire[q] \in Seq(Frames) /\ wire[q] # <<>> /\ Head(wire[q]) \in Greeting
    BY <1>1, <1>2 DEF TypeOK, NegoTypeOK, Waits, Begins, Reads, Greeting
  <2>2. Head(wire[q]) \in On(q)
    BY <2>1, FrameRead DEF On
  <2>3. QED
    BY <1>1, <2>1, <2>2 DEF GreetInv
<1>3. QED
  BY <1>1, <1>2 DEF Life, Stays, TakesMessage, Loads, Says, Completes, Keys, GoesOn, Breaks, Late

\* The key is for good once it is there, and the sender's comes last
\* (app.js:690-760).
LEMMA KeyStep ==
    ASSUME IInv, Next
    PROVE  KeyInv'
<1>1. /\ TypeOK /\ FreshInv /\ GreetInv /\ KeyInv /\ WiresMove /\ LivesGoOn
      /\ "sender" \in Pages /\ "receiver" \in Pages
  BY WireStep, LifeStep, TwoPages DEF IInv
<1>2. ASSUME NEW q \in Pages
      PROVE  /\ pake'[q] = "complete" => step'[q] \in Late \cup {"failed", "stuck"}
             /\ step'[q] \in Late => pake'[q] = "complete"
             /\ pake[q] = "complete" => pake'[q] = "complete"
             /\ step'[q] \in {"processing"} \cup Late =>
                   step[q] \in {"processing"} \cup Late \/ TakesMessage(q)
  <2>1. /\ pake[q] = "complete" => step[q] \in Late \cup {"failed", "stuck"}
        /\ step[q] \in Late => pake[q] = "complete"
        /\ Life(q)
    BY <1>1 DEF KeyInv, LivesGoOn
  <2>2. pake[q] = "complete" => ~Waits(q) /\ ~Begins(q)
    BY KeyKept
  <2>3. CASE Stays(q)
    BY <2>1, <2>3 DEF Stays
  <2>4. CASE Waits(q) \/ Begins(q)
    BY <2>1, <2>2, <2>4 DEF Waits, Begins, Late
  <2>5. CASE TakesMessage(q)
    BY <2>5 DEF TakesMessage, Late
  <2>6. CASE Loads(q) \/ Says(q)
    BY <2>1, <2>6 DEF Loads, Says, Late
  <2>7. CASE Completes(q)
    BY <2>7 DEF Completes, Late
  <2>8. CASE Keys(q) \/ GoesOn(q)
    BY <2>1, <2>8 DEF Keys, GoesOn, Late
  <2>9. CASE Breaks(q)
    BY <2>1, <2>9 DEF Breaks, Late
  <2>10. QED
    BY <2>1, <2>3, <2>4, <2>5, <2>6, <2>7, <2>8, <2>9 DEF Life
<1>3. On("sender")' \cap {"msg1", "payload"} = {}
  BY <1>1, FramesExplained DEF KeyInv, Reason
<1>4. ASSUME "msg2" \in On("sender")' PROVE pake'["receiver"] = "complete"
  BY <1>1, <1>2, <1>4, FramesExplained DEF KeyInv, Reason
<1>5. ASSUME step'["sender"] \in {"processing"} \cup Late PROVE pake'["receiver"] = "complete"
  <2>1. CASE step["sender"] \in {"processing"} \cup Late
    BY <1>1, <1>2, <2>1 DEF KeyInv
  <2>2. CASE TakesMessage("sender")
    <3>1. wire["sender"] \in Seq(Frames) /\ wire["sender"] # <<>>
          /\ Head(wire["sender"]) \in {"msg1", "msg2"}
      BY <1>1, <2>2 DEF TypeOK, NegoTypeOK, TakesMessage
    <3>2. Head(wire["sender"]) \in On("sender")
      BY <3>1, FrameRead DEF On
    <3>3. pake["receiver"] = "complete"
      BY <1>1, <3>1, <3>2 DEF KeyInv
    <3>4. QED
      BY <1>1, <1>2, <3>3
  <2>3. QED
    BY <1>1, <1>2, <1>5, <2>1, <2>2
<1>6. ASSUME "payload" \in On("receiver")' PROVE pake'["receiver"] = "complete"
  <2>1. CASE "payload" \in On("receiver")
    BY <1>1, <1>2, <2>1 DEF KeyInv
  <2>2. CASE transport["sender"] = "relay"
    <3>1. step["sender"] = "done"
      BY <1>1, <2>2 DEF FreshInv
    <3>2. pake["receiver"] = "complete"
      BY <1>1, <3>1 DEF KeyInv, Late
    <3>3. QED
      BY <1>1, <1>2, <3>2
  <2>3. QED
    BY <1>1, <1>6, <2>1, <2>2, FramesExplained DEF Reason
<1>7. QED
  BY <1>2, <1>3, <1>4, <1>5, <1>6 DEF KeyInv, On

-----------------------------------------------------------------------------
(* The choice of the transport                                               *)

\* What the methods of a negotiator do to its outcome and its timer (p2p.js:155-275).
LEMMA NegotiatorMoves ==
    ASSUME NEW p \in Pages, NEW k \in Negotiators
    PROVE  /\ Rearm(k) \in Negotiators /\ Rearm(k).outcome = k.outcome /\ Armed(Rearm(k))
           /\ \A l \in {Proceed(p, k), FlushCandidates(p, k)} :
                 l \in Negotiators /\ l.outcome = k.outcome /\ (Armed(k) => Armed(l))
           /\ \A mode \in {"relay", "p2p"} :
                 /\ Resolve(k, mode) \in Negotiators
                 /\ Resolve(k, mode).outcome = IF k.outcome = "none" THEN mode ELSE k.outcome
                 /\ Armed(k) => Armed(Resolve(k, mode))
<1>1. Rearm(k) \in Negotiators /\ Rearm(k).outcome = k.outcome /\ Armed(Rearm(k))
  BY DEF Rearm, Negotiators, Armed
<1>2. ASSUME NEW l \in {Proceed(p, k), FlushCandidates(p, k)}
      PROVE  l \in Negotiators /\ l.outcome = k.outcome /\ (Armed(k) => Armed(l))
  <2> DEFINE over == [k EXCEPT !.job = "none"]
             on == [k EXCEPT !.job = "local"]
             busy == [k EXCEPT !.job = "flush", !.candidate = "adding"]
  <2>1. l \in {Rearm(over), on, busy}
    BY <1>2 DEF Proceed, FlushCandidates
  <2>2. /\ over \in Negotiators /\ over.outcome = k.outcome
        /\ on \in Negotiators /\ on.outcome = k.outcome /\ on.timer = k.timer
        /\ busy \in Negotiators /\ busy.outcome = k.outcome /\ busy.timer = k.timer
    BY DEF Negotiators
  <2> HIDE DEF over, on, busy
  <2>3. Rearm(over) \in Negotiators /\ Rearm(over).outcome = k.outcome /\ Armed(Rearm(over))
    BY <2>2 DEF Rearm, Negotiators, Armed
  <2>4. QED
    BY <2>1, <2>2, <2>3 DEF Armed
<1>3. ASSUME NEW mode \in {"relay", "p2p"}
      PROVE  /\ Resolve(k, mode) \in Negotiators
             /\ Resolve(k, mode).outcome = IF k.outcome = "none" THEN mode ELSE k.outcome
             /\ Armed(k) => Armed(Resolve(k, mode))
  <2>1. CASE k.outcome # "none"
    BY <2>1 DEF Resolve
  <2>2. CASE k.outcome = "none"
    <3>1. Resolve(k, mode) = [k EXCEPT !.outcome = mode, !.timer = FALSE,
                                       !.pc = IF mode = "relay" THEN "closed" ELSE @]
      BY <2>2 DEF Resolve
    <3>2. QED
      BY <2>2, <3>1 DEF Negotiators, Armed
  <2>3. QED
    BY <2>1, <2>2
<1>4. QED
  BY <1>1, <1>2, <1>3

\* A new negotiator, and none.
LEMMA NewNegotiator ==
    /\ New \in Negotiators /\ New.outcome = "none"
    /\ Null \in Negotiators /\ Null.outcome = "none" /\ Null.pc = "none" /\ Null.job = "none"
    /\ ~Null.timer /\ Armed(New) /\ Armed(Null)
  BY DEF New, Null, Negotiators, Armed

\* Page q falls back for a reason: it gave up, or its peer has said so.
Blamed(q) == q \in gaveUp' \/ "relay" \in On(q) \cup ToSet(pending[q])

\* What becomes of a page's negotiator and transport.
Rests(q) == nego'[q] = nego[q] /\ transport'[q] = transport[q]
Opens(q) ==
    /\ \/ q = "sender" /\ step[q] = "precheck" /\ step'[q] = "offering"
       \/ q = "receiver" /\ step[q] = "keying" /\ step'[q] = "precheck"
    /\ \/ nego'[q].outcome = "none"
       \/ nego'[q].outcome = "relay" /\ Blamed(q)
    /\ transport'[q] = transport[q]
Moves(q) ==
    /\ nego[q] # Null /\ transport'[q] = transport[q]
    /\ \/ nego'[q].outcome = nego[q].outcome
       \/ nego[q].outcome = "none" /\ nego'[q].outcome = "p2p" /\ connected
       \/ nego[q].outcome = "none" /\ nego'[q].outcome = "relay" /\ Blamed(q)
Settles(q) ==
    /\ step[q] \in {"precheck", "negotiating"} /\ step'[q] = "done"
    /\ nego'[q].outcome = nego[q].outcome
    /\ \/ transport'[q] = "relay" /\ gaveUp' = gaveUp \cup {q}
       \/ nego[q].outcome # "none" /\ transport'[q] = nego[q].outcome

Deal(q) ==
    /\ Rests(q) \/ Opens(q) \/ Moves(q) \/ Settles(q)
    /\ Armed(nego[q]) => Armed(nego'[q])
    /\ ToSet(pending'[q]) \subseteq ToSet(pending[q]) \cup On(q)

\* Page p is the only one that something happens to.
OnlyPage(p) ==
    /\ \A q \in Pages : q # p => Rests(q)
    /\ gaveUp' = gaveUp \/ (gaveUp' = gaveUp \cup {p} /\ NeverDirect(p)')

Dealt ==
    /\ nego' \in [Pages -> Negotiators]
    /\ transport' \in [Pages -> {"none", "relay", "p2p"}]
    /\ pending' \in [Pages -> Seq(Signals)]
    /\ gaveUp \subseteq gaveUp' /\ gaveUp' \subseteq Pages
    /\ \A q \in Pages : Deal(q)
    /\ \E p \in Pages : OnlyPage(p)

\* Nothing happens to the choice.
LEMMA NothingDealt ==
    ASSUME TypeOK, UNCHANGED <<nego, transport, pending, gaveUp>>
    PROVE  Dealt
  BY TwoPages DEF TypeOK, NegoTypeOK, Dealt, Deal, Rests, OnlyPage

\* The negotiator of one page takes a step.
LEMMA OneMoves ==
    ASSUME TypeOK, NEW p \in Pages, NEW k \in Negotiators,
           nego' = [nego EXCEPT ![p] = k], UNCHANGED transport, Armed(nego[p]) => Armed(k),
           gaveUp' = gaveUp \/ (gaveUp' = gaveUp \cup {p} /\ k.outcome = "relay"),
           pending' = pending \/ pending' = [pending EXCEPT ![p] = <<>>],
           nego'[p] = k => Opens(p) \/ Moves(p)
    PROVE  Dealt
<1>1. /\ nego \in [Pages -> Negotiators] /\ transport \in [Pages -> {"none", "relay", "p2p"}]
      /\ pending \in [Pages -> Seq(Signals)]
  BY DEF TypeOK, NegoTypeOK
<1>2. /\ nego' \in [Pages -> Negotiators] /\ nego'[p] = k
      /\ \A q \in Pages : q # p => Rests(q)
  BY <1>1 DEF Rests
<1>3. <<>> \in Seq(Signals) /\ ToSet(<<>>) = {}
  BY DEF ToSet
<1>4. /\ pending' \in [Pages -> Seq(Signals)]
      /\ \A q \in Pages : pending'[q] = pending[q] \/ pending'[q] = <<>>
  BY <1>1, <1>3
<1>5. \A q \in Pages : ToSet(pending'[q]) \subseteq ToSet(pending[q])
  BY <1>3, <1>4
<1>6. \A q \in Pages : Deal(q)
  BY <1>1, <1>2, <1>5 DEF Deal, Rests
<1>7. OnlyPage(p)
  BY <1>2 DEF OnlyPage, NeverDirect
<1>8. gaveUp \subseteq gaveUp' /\ gaveUp' \subseteq Pages
  BY DEF TypeOK, NegoTypeOK
<1>9. QED
  BY <1>1, <1>2, <1>4, <1>6, <1>7, <1>8 DEF Dealt

\* A signal is handled, or kept for the negotiator to come (app.js:407-423).
LEMMA SignalDealt ==
    ASSUME TypeOK, NEW p \in Pages, ReadSignal(p)
    PROVE  Dealt
<1> DEFINE m == Head(wire[p])
           k == Handle(p, nego[p], m)
<1>1. /\ wire[p] \in Seq(Frames) /\ wire[p] # <<>> /\ m \in Signals /\ m \in On(p)
      /\ nego[p] \in Negotiators /\ nego \in [Pages -> Negotiators]
      /\ pending \in [Pages -> Seq(Signals)] /\ gaveUp \subseteq Pages
      /\ gaveUp' = gaveUp /\ transport' = transport
  <2>1. wire[p] \in Seq(Frames) /\ wire[p] # <<>>
    BY DEF TypeOK, NegoTypeOK, ReadSignal
  <2>2. m \in On(p)
    BY <2>1, FrameRead DEF On
  <2>3. QED
    BY <2>1, <2>2 DEF TypeOK, NegoTypeOK, ReadSignal
<1>2. CASE nego[p].pc = "none"
  <2>1. pending' = [pending EXCEPT ![p] = Append(@, m)] /\ nego' = nego
    BY <1>2 DEF ReadSignal
  <2>2. /\ pending[p] \in Seq(Signals) /\ Append(pending[p], m) \in Seq(Signals)
        /\ ToSet(Append(pending[p], m)) \subseteq ToSet(pending[p]) \cup {m}
    <3>1. pending[p] \in Seq(Signals)
      BY <1>1
    <3> HIDE DEF m
    <3>2. QED
      BY <1>1, <3>1 DEF ToSet
  <2> HIDE DEF m
  <2>3. /\ pending' \in [Pages -> Seq(Signals)]
        /\ \A q \in Pages : ToSet(pending'[q]) \subseteq ToSet(pending[q]) \cup On(q)
    BY <1>1, <2>1, <2>2
  <2>4. QED
    BY <1>1, <2>1, <2>3 DEF Dealt, Deal, Rests, OnlyPage, TypeOK, NegoTypeOK
<1>3. CASE nego[p].pc # "none"
  <2>1. nego' = [nego EXCEPT ![p] = k] /\ pending' = pending
    BY <1>3 DEF ReadSignal, Becomes
  <2>2. k \in Negotiators /\ Outcomes(nego[p], k, {m})
    BY <1>1, Handled
  <2>3. nego[p] # Null
    BY <1>3, NewNegotiator
  <2> HIDE DEF k, m
  <2>4. nego'[p] = k => Moves(p)
    BY <1>1, <2>2, <2>3 DEF Moves, Outcomes, Blamed
  <2>5. QED
    BY <1>1, <2>1, <2>2, <2>4, OneMoves DEF Outcomes
<1>4. QED
  BY <1>2, <1>3

\* A negotiator that is handed what came too early falls back only if it was told so.
LEMMA FlushDealt ==
    ASSUME TypeOK, NEW p \in Pages, NEW k \in Negotiators
    PROVE  /\ FlushPending(p, k) \in Negotiators
           /\ \/ FlushPending(p, k).outcome = k.outcome
              \/ /\ k.outcome = "none" /\ FlushPending(p, k).outcome = "relay"
                 /\ Blamed(p)
           /\ Armed(k) => Armed(FlushPending(p, k))
<1>1. pending[p] \in Seq(Signals)
  BY DEF TypeOK
<1>2. /\ FlushPending(p, k) \in Negotiators
      /\ Outcomes(k, FlushPending(p, k), ToSet(pending[p]))
  BY <1>1, AllHandled DEF FlushPending
<1>3. QED
  BY <1>2 DEF Outcomes, Blamed

\* A page's negotiator changes in one of the ways that its methods allow, and its
\* transport is chosen once (app.js:407-550).
LEMMA DealStep ==
    ASSUME TypeOK, Next, \A p \in Pages : Armed(nego[p])
    PROVE  Dealt
<1>1. /\ nego \in [Pages -> Negotiators] /\ transport \in [Pages -> {"none", "relay", "p2p"}]
      /\ pending \in [Pages -> Seq(Signals)] /\ gaveUp \subseteq Pages
      /\ step \in [Pages -> Steps] /\ "sender" \in Pages /\ "receiver" \in Pages
  BY TwoPages DEF TypeOK, NegoTypeOK
<1>2. ASSUME NEW p \in Pages, Reading(p) PROVE Dealt
  <2>1. CASE ReadSignal(p)
    BY <2>1, SignalDealt
  <2>2. CASE ~ReadSignal(p)
    <3>1. UNCHANGED <<nego, transport, pending, gaveUp>>
      BY <1>2, <2>2 DEF Reading, ReadWaiting, ReadPaired, ReadError, ReadPakeMessage,
                        ReadPayload, sessionVars
    <3>2. QED
      BY <3>1, NothingDealt
  <2>3. QED
    BY <2>1, <2>2
<1>3. ASSUME NEW p \in Pages, Loaded(p) \/ Processed(p) \/ OnClose(p) \/ WasmFails(p)
      PROVE  Dealt
  <2>1. UNCHANGED <<nego, transport, pending, gaveUp>>
    BY <1>3 DEF Loaded, Processed, OnClose, WasmFails, negoVars, sessionVars
  <2>2. QED
    BY <2>1, NothingDealt
<1>4. ASSUME NEW p \in Pages, Keyed(p) PROVE Dealt
  <2>1. CASE p # "receiver"
    <3>1. UNCHANGED <<nego, transport, pending, gaveUp>>
      BY <1>4, <2>1 DEF Keyed
    <3>2. QED
      BY <3>1, NothingDealt
  <2>2. CASE p = "receiver"
    <3> DEFINE k == FlushPending(p, Rearm(New))
    <3>1. /\ step[p] = "keying" /\ step' = [step EXCEPT ![p] = "precheck"]
          /\ nego' = [nego EXCEPT ![p] = k] /\ UNCHANGED <<transport, gaveUp>>
          /\ pending' = [pending EXCEPT ![p] = <<>>]
      BY <1>4, <2>2 DEF Keyed, GoesTo, Becomes
    <3>2. /\ k \in Negotiators /\ Armed(k)
          /\ k.outcome = "none" \/ (k.outcome = "relay" /\ Blamed(p))
      BY NewNegotiator, NegotiatorMoves, FlushDealt
    <3> HIDE DEF k
    <3>3. nego'[p] = k => Opens(p)
      BY <1>1, <2>2, <3>1, <3>2 DEF Opens
    <3>4. QED
      BY <1>1, <3>1, <3>2, <3>3, OneMoves
  <2>3. QED
    BY <2>1, <2>2
<1>5. ASSUME NEW p \in Pages, Reachable(p) PROVE Dealt
  <2>1. CASE p # "sender"
    <3>1. UNCHANGED <<nego, transport, pending, gaveUp>>
      BY <1>5, <2>1 DEF Reachable
    <3>2. QED
      BY <3>1, NothingDealt
  <2>2. CASE p = "sender"
    <3>1. /\ step[p] = "precheck" /\ step' = [step EXCEPT ![p] = "offering"]
          /\ nego' = [nego EXCEPT ![p] = New] /\ UNCHANGED <<transport, gaveUp, pending>>
      BY <1>5, <2>2 DEF Reachable, GoesTo
    <3>2. nego'[p] = New => Opens(p)
      BY <1>1, <2>2, <3>1, NewNegotiator DEF Opens
    <3>3. QED
      BY <1>1, <3>1, <3>2, NewNegotiator, OneMoves
  <2>3. QED
    BY <2>1, <2>2
<1>6. ASSUME NEW p \in Pages, Unreachable(p) \/ Chosen(p) PROVE Dealt
  <2>1. /\ step[p] \in {"precheck", "negotiating"} /\ step' = [step EXCEPT ![p] = "done"]
        /\ pending' = pending
    BY <1>6 DEF Unreachable, Chosen, Bind, GoesTo
  <2>2. ASSUME NEW mode \in {"relay", "p2p"}, transport' = [transport EXCEPT ![p] = mode],
               \/ mode = "relay" /\ gaveUp' = gaveUp \cup {p}
               \/ mode = nego[p].outcome /\ gaveUp' = gaveUp,
               NEW k \in Negotiators, nego' = [nego EXCEPT ![p] = k],
               k.outcome = nego[p].outcome, k.timer => nego[p].timer
        PROVE  Dealt
    <3>1. nego' \in [Pages -> Negotiators] /\ transport' \in [Pages -> {"none", "relay", "p2p"}]
      BY <1>1, <2>2
    <3>2. Settles(p)
      BY <1>1, <2>1, <2>2 DEF Settles
    <3>3. \A q \in Pages : q # p => Rests(q)
      BY <1>1, <2>2 DEF Rests
    <3>4. Armed(nego'[p])
      BY <1>1, <2>2 DEF Armed
    <3>5. \A q \in Pages : Deal(q)
      BY <2>1, <3>2, <3>3, <3>4 DEF Deal, Rests
    <3>6. OnlyPage(p)
      BY <1>1, <2>2, <3>3 DEF OnlyPage, NeverDirect
    <3>7. QED
      BY <1>1, <2>1, <2>2, <3>1, <3>5, <3>6 DEF Dealt
  <2>3. CASE Unreachable(p)
    <3> DEFINE k == IF p = "sender" THEN nego[p]
                    ELSE [nego[p] EXCEPT !.pc = "closed", !.timer = FALSE]
    <3>1. /\ transport' = [transport EXCEPT ![p] = "relay"]
          /\ gaveUp' = gaveUp \cup {p}
          /\ nego' = [nego EXCEPT ![p] = k]
      BY <1>1, <2>3 DEF Unreachable, Bind
    <3>2. k \in Negotiators /\ k.outcome = nego[p].outcome /\ (k.timer => nego[p].timer)
      <4>1. nego[p] \in Negotiators
        BY <1>1
      <4>2. QED
        BY <4>1 DEF Negotiators
    <3> HIDE DEF k
    <3>3. QED
      BY <2>2, <3>1, <3>2
  <2>4. CASE Chosen(p)
    <3>1. /\ transport' = [transport EXCEPT ![p] = nego[p].outcome]
          /\ gaveUp' = gaveUp /\ nego' = nego /\ nego[p].outcome # "none"
      BY <2>4 DEF Chosen, Bind
    <3>2. nego[p] \in Negotiators /\ nego' = [nego EXCEPT ![p] = nego[p]]
      BY <1>1, <3>1
    <3>3. nego[p].outcome \in {"relay", "p2p"}
      BY <3>1, <3>2 DEF Negotiators
    <3>4. QED
      BY <2>2, <3>1, <3>2, <3>3
  <2>5. QED
    BY <1>6, <2>3, <2>4
<1>7. ASSUME Offered PROVE Dealt
  <2> DEFINE k == Rearm([nego["sender"] EXCEPT !.gather = "ready"])
             l == FlushPending("sender", k)
  <2>1. /\ nego["sender"].pc = "open" /\ nego' = [nego EXCEPT !["sender"] = l]
        /\ pending' = [pending EXCEPT !["sender"] = <<>>] /\ UNCHANGED <<transport, gaveUp>>
    BY <1>7 DEF Offered, Becomes
  <2>2. k \in Negotiators /\ k.outcome = nego["sender"].outcome /\ Armed(k)
    <3>1. nego["sender"] \in Negotiators
      BY <1>1
    <3>2. QED
      BY <3>1 DEF Negotiators, Rearm, Armed
  <2> HIDE DEF k
  <2>3. /\ l \in Negotiators /\ Armed(l)
        /\ \/ l.outcome = k.outcome
           \/ k.outcome = "none" /\ l.outcome = "relay" /\ Blamed("sender")
    BY <1>1, <2>2, FlushDealt
  <2>4. nego["sender"] # Null
    BY <2>1, NewNegotiator
  <2> HIDE DEF l
  <2>5. nego'["sender"] = l => Moves("sender")
    BY <1>1, <2>1, <2>2, <2>3, <2>4 DEF Moves
  <2>6. QED
    BY <1>1, <2>1, <2>3, <2>5, OneMoves
<1>8. ASSUME SenderTask PROVE Dealt
  <2>1. CASE SendFirstMessage \/ OfferOrphaned \/ SendPayload
    <3>1. UNCHANGED <<nego, transport, pending, gaveUp>>
      BY <2>1 DEF SendFirstMessage, OfferOrphaned, SendPayload, negoVars
    <3>2. QED
      BY <3>1, NothingDealt
  <2>2. QED
    BY <1>7, <1>8, <2>1 DEF SenderTask
<1>9. ASSUME NEW p \in Pages, NEW k \in Negotiators, nego' = [nego EXCEPT ![p] = k], Armed(k),
             UNCHANGED <<transport, pending>>, nego[p] # Null,
             \/ k.outcome = nego[p].outcome /\ gaveUp' = gaveUp
             \/ /\ nego[p].outcome = "none" /\ k.outcome = "p2p" /\ connected
                /\ gaveUp' = gaveUp
             \/ /\ nego[p].outcome = "none" /\ k.outcome = "relay"
                /\ gaveUp' = gaveUp \cup {p}
      PROVE  Dealt
  <2>1. nego'[p] = k => Moves(p)
    BY <1>9 DEF Moves, Blamed
  <2>2. QED
    BY <1>9, <2>1, OneMoves
<1>10. ASSUME NEW p \in Pages, TimesOut(p) \/ IceFails(p), UNCHANGED sessionVars PROVE Dealt
  <2>1. /\ nego' = [nego EXCEPT ![p] = Resolve(nego[p], "relay")] /\ gaveUp' = gaveUp \cup {p}
        /\ nego[p].timer \/ (nego[p].pc = "open" /\ nego[p].outcome = "none")
        /\ UNCHANGED <<transport, pending>>
    BY <1>10 DEF TimesOut, IceFails, GivesUp, Becomes, sessionVars
  <2>2. nego[p] \in Negotiators /\ nego[p] # Null /\ Armed(nego[p])
    BY <1>1, <2>1, NewNegotiator
  <2>3. nego[p].outcome = "none"
    BY <2>1, <2>2 DEF Armed
  <2>4. QED
    BY <1>9, <2>1, <2>2, <2>3, NegotiatorMoves
<1>11. ASSUME WebRTC, UNCHANGED sessionVars PROVE Dealt
  <2>1. transport' = transport /\ pending' = pending
    BY <1>11 DEF sessionVars
  <2>2. ASSUME NEW p \in Pages, RemoteDescribed(p) PROVE Dealt
    <3> DEFINE d == [nego[p] EXCEPT !.described = TRUE]
               k == FlushCandidates(p, d)
    <3>1. nego' = [nego EXCEPT ![p] = k] /\ nego[p].pc = "open" /\ gaveUp' = gaveUp
      BY <2>2 DEF RemoteDescribed
    <3>2. nego[p] \in Negotiators
      BY <1>1
    <3>3. d \in Negotiators /\ d.outcome = nego[p].outcome /\ Armed(d)
      BY <3>2 DEF Negotiators, Armed
    <3> HIDE DEF d
    <3>4. k \in Negotiators /\ k.outcome = nego[p].outcome /\ Armed(k)
      BY <3>3, NegotiatorMoves
    <3> HIDE DEF k
    <3>5. nego[p] # Null
      BY <3>1, NewNegotiator
    <3>6. QED
      BY <1>1, <1>9, <2>1, <3>1, <3>4, <3>5
  <2>3. ASSUME Answered PROVE Dealt
    <3> DEFINE d == [nego["receiver"] EXCEPT !.job = "none", !.gather = "ready"]
    <3>1. /\ nego' = [nego EXCEPT !["receiver"] = Rearm(d)] /\ nego["receiver"].pc = "open"
          /\ gaveUp' = gaveUp
      BY <1>1, <2>3 DEF Answered
    <3>2. nego["receiver"] \in Negotiators
      BY <1>1
    <3>3. d \in Negotiators /\ d.outcome = nego["receiver"].outcome
      BY <3>2 DEF Negotiators
    <3> HIDE DEF d
    <3>4. nego["receiver"] # Null
      BY <3>1, NewNegotiator
    <3>5. QED
      BY <1>1, <1>9, <2>1, <3>1, <3>3, <3>4, NegotiatorMoves
  <2>4. ASSUME NEW p \in Pages, Orphaned(p) \/ Gathers(p) PROVE Dealt
    <3> DEFINE k == [nego[p] EXCEPT !.job = "none", !.candidate = "none"]
               l == [nego[p] EXCEPT !.gather = "done"]
    <3>1. nego[p] \in Negotiators
      BY <1>1
    <3>2. /\ k \in Negotiators /\ k.outcome = nego[p].outcome /\ Armed(k)
          /\ l \in Negotiators /\ l.outcome = nego[p].outcome /\ Armed(l)
      BY <3>1 DEF Negotiators, Armed
    <3>3. /\ nego' = [nego EXCEPT ![p] = k] \/ nego' = [nego EXCEPT ![p] = l]
          /\ nego[p].pc # "none" /\ gaveUp' = gaveUp
      BY <1>1, <2>4 DEF Orphaned, Gathers
    <3> HIDE DEF k, l
    <3>4. nego[p] # Null
      BY <3>3, NewNegotiator
    <3>5. QED
      BY <1>1, <1>9, <2>1, <3>2, <3>3, <3>4
  <2>5. ASSUME NEW p \in Pages, ChannelOpens(p) PROVE Dealt
    <3>1. /\ nego' = [nego EXCEPT ![p] = Resolve(nego[p], "p2p")] /\ nego[p].pc = "open"
          /\ nego[p].outcome = "none" /\ gaveUp' = gaveUp /\ connected
      BY <1>1, <2>5 DEF ChannelOpens
    <3>2. nego[p] \in Negotiators /\ nego[p] # Null
      BY <1>1, <3>1, NewNegotiator
    <3>3. QED
      BY <1>1, <1>9, <2>1, <3>1, <3>2, NegotiatorMoves
  <2>6. CASE Connects
    <3>1. UNCHANGED <<nego, transport, pending, gaveUp>>
      BY <2>1, <2>6 DEF Connects
    <3>2. QED
      BY <3>1, NothingDealt
  <2>7. ASSUME NEW p \in Pages, CandidateAdded(p) PROVE Dealt
    <3> DEFINE d == [nego[p] EXCEPT !.candidate = "added"]
               k == IF d.job = "flush" THEN Proceed(p, d) ELSE d
    <3>1. nego' = [nego EXCEPT ![p] = k] /\ nego[p].pc = "open" /\ gaveUp' = gaveUp
      BY <1>1, <2>7 DEF CandidateAdded
    <3>2. nego[p] \in Negotiators
      BY <1>1
    <3>3. d \in Negotiators /\ d.outcome = nego[p].outcome /\ Armed(d)
      BY <3>2 DEF Negotiators, Armed
    <3> HIDE DEF d
    <3>4. k \in Negotiators /\ k.outcome = nego[p].outcome /\ Armed(k)
      BY <3>3, NegotiatorMoves
    <3> HIDE DEF k
    <3>5. nego[p] # Null
      BY <3>1, NewNegotiator
    <3>6. QED
      BY <1>1, <1>9, <2>1, <3>1, <3>4, <3>5
  <2>8. QED
    BY <1>11, <2>2, <2>3, <2>4, <2>5, <2>6, <2>7 DEF WebRTC
<1>12. ASSUME NEW p \in Pages, WsLost(p) PROVE Dealt
  <2>1. UNCHANGED <<nego, transport, pending, gaveUp>>
    BY <1>12 DEF WsLost, sessionVars
  <2>2. QED
    BY <2>1, NothingDealt
<1>13. QED
  BY <1>2, <1>3, <1>4, <1>5, <1>6, <1>8, <1>10, <1>11, <1>12 DEF Next, Task, Timeout

\* Nothing is chosen early, and what is chosen stays (app.js:537-559).
LEMMA FreshStep ==
    ASSUME IInv, Next
    PROVE  FreshInv'
<1>1. TypeOK /\ FreshInv /\ PairInv /\ LivesGoOn /\ Dealt
  BY LifeStep, DealStep DEF IInv, JoinInv
<1> DEFINE E(q, s) == s \in Early \/ (q = "sender" /\ s = "precheck")
<1>2. ASSUME NEW q \in Pages
      PROVE  /\ E(q, step'[q]) => nego'[q] = Null
             /\ transport'[q] # "none" => step'[q] = "done"
             /\ transport'[q] = "p2p" => nego'[q].outcome = "p2p"
  <2>1. /\ E(q, step[q]) => nego[q] = Null
        /\ transport[q] # "none" => step[q] = "done"
        /\ transport[q] = "p2p" => nego[q].outcome = "p2p"
        /\ Life(q) /\ Deal(q)
    BY <1>1 DEF FreshInv, LivesGoOn, Dealt
  <2>2. Begins(q) => step[q] = "idle"
    <3>1. ASSUME Begins(q) PROVE step[q] = "idle"
      <4>1. wire[q] \in Seq(Frames) /\ wire[q] # <<>> /\ Head(wire[q]) = "paired"
        BY <1>1, <3>1 DEF TypeOK, NegoTypeOK, Begins, Reads
      <4>2. "paired" \in On(q)
        BY <4>1, FrameRead DEF On
      <4>3. QED
        BY <1>1, <4>2 DEF PairInv
    <3>2. QED
      BY <3>1
  <2>3. E(q, step'[q]) => E(q, step[q])
    BY <2>1, <2>2 DEF Life, Stays, Waits, Begins, TakesMessage, Loads, Says, Completes, Keys,
                      GoesOn, Breaks, Early
  <2>4. step[q] = "done" => step'[q] = "done"
    BY <2>1, <2>2 DEF Life, Stays, Waits, Begins, TakesMessage, Loads, Says, Completes, Keys,
                      GoesOn, Breaks
  <2>5. E(q, step'[q]) => ~Opens(q) /\ ~Settles(q)
    BY TwoPages DEF Opens, Settles, Early
  <2>6. E(q, step'[q]) => nego'[q] = Null
    BY <2>1, <2>3, <2>5 DEF Deal, Rests, Moves
  <2>7. transport'[q] # "none" => step'[q] = "done"
    BY <2>1, <2>4 DEF Deal, Rests, Opens, Moves, Settles
  <2>8. transport'[q] = "p2p" => nego'[q].outcome = "p2p"
    <3>1. CASE Settles(q)
      BY <3>1 DEF Settles
    <3>2. CASE ~Settles(q)
      BY <2>1, <3>2 DEF Deal, Rests, Opens, Moves
    <3>3. QED
      BY <3>1, <3>2
  <2>9. QED
    BY <2>6, <2>7, <2>8
<1>3. QED
  BY <1>2 DEF FreshInv

\* A page that has settled on the relay stays there.
LEMMA NeverAgain ==
    ASSUME IInv, Next, NEW q \in Pages, NeverDirect(q)
    PROVE  NeverDirect(q)'
<1>1. FreshInv /\ Dealt
  BY DealStep DEF IInv, JoinInv
<1>2. Deal(q) /\ (transport[q] # "none" => step[q] = "done")
  BY <1>1 DEF Dealt, FreshInv
<1>3. ~Opens(q) \/ transport[q] = "relay"
  <2>1. ASSUME Opens(q) PROVE nego[q] = Null
    BY <1>1, <2>1 DEF FreshInv, Opens, Early
  <2>2. QED
    BY <2>1, NewNegotiator DEF NeverDirect
<1>4. QED
  BY <1>2, <1>3 DEF NeverDirect, Deal, Rests, Opens, Moves, Settles

\* No page falls back without one that gave up (p2p.js:240-262, app.js:407-423).
LEMMA BlameStep ==
    ASSUME IInv, Next
    PROVE  BlameInv'
<1>1. TypeOK /\ BlameInv /\ WiresMove /\ Dealt
  BY WireStep, DealStep DEF IInv, JoinInv
<1>2. ASSUME NEW q \in Pages
      PROVE  /\ "relay" \in On(q)' \cup ToSet(pending'[q]) => NeverDirect(Peer(q))'
             /\ NeverDirect(q)' => q \in gaveUp' \/ NeverDirect(Peer(q))'
  <2>1. /\ "relay" \in On(q) \cup ToSet(pending[q]) => NeverDirect(Peer(q))
        /\ NeverDirect(q) => q \in gaveUp \/ NeverDirect(Peer(q))
        /\ Deal(q) /\ Peer(q) \in Pages /\ gaveUp \subseteq gaveUp'
    BY <1>1, TwoPages DEF BlameInv, Dealt
  <2>2. NeverDirect(Peer(q)) => NeverDirect(Peer(q))'
    BY <2>1, NeverAgain
  <2>3. ASSUME "relay" \in On(q)' \cup ToSet(pending'[q]) PROVE NeverDirect(Peer(q))'
    <3>1. \/ "relay" \in On(q) \cup ToSet(pending[q])
          \/ Reason(q, "relay")
      BY <1>1, <2>1, <2>3, FramesExplained DEF Deal
    <3>2. QED
      BY <2>1, <2>2, <3>1 DEF Reason
  <2>4. ASSUME NeverDirect(q)' PROVE q \in gaveUp' \/ NeverDirect(Peer(q))'
    <3>1. CASE NeverDirect(q)
      BY <2>1, <2>2, <3>1
    <3>2. CASE ~NeverDirect(q)
      <4>1. Blamed(q)
        BY <2>1, <2>4, <3>2 DEF NeverDirect, Deal, Rests, Opens, Moves, Settles, Blamed
      <4>2. QED
        BY <2>1, <2>2, <4>1 DEF Blamed
    <3>3. QED
      BY <3>1, <3>2
  <2>5. QED
    BY <2>3, <2>4
<1>3. QED
  BY <1>2 DEF BlameInv, On, NeverDirect


\* What is left of the state, who loses a payload, and what goes with a connection.
LEMMA RestStep ==
    ASSUME TypeOK, Next
    PROVE  /\ up' \in [Pages -> BOOLEAN] /\ connected' \in BOOLEAN /\ (connected => connected')
           /\ promise' \in [Pages -> {"pending", "resolved", "rejected"}]
           /\ payload' \in {"none", "sent", "buffered", "delivered"}
           /\ lost' \subseteq {"msg1", "msg2", "payload"}
           /\ "payload" \in lost' => "payload" \in lost \/ \E p \in Pages : ReadPayload(p)
<1>1. /\ up \in [Pages -> BOOLEAN] /\ connected \in BOOLEAN
      /\ promise \in [Pages -> {"pending", "resolved", "rejected"}]
      /\ payload \in {"none", "sent", "buffered", "delivered"}
      /\ lost \subseteq {"msg1", "msg2", "payload"}
  BY DEF TypeOK, NegoTypeOK
<1> DEFINE Ok ==
      /\ up' \in [Pages -> BOOLEAN] /\ connected' \in BOOLEAN /\ (connected => connected')
      /\ promise' \in [Pages -> {"pending", "resolved", "rejected"}]
      /\ payload' \in {"none", "sent", "buffered", "delivered"}
      /\ lost' \subseteq {"msg1", "msg2", "payload"}
      /\ "payload" \in lost' => "payload" \in lost \/ \E p \in Pages : ReadPayload(p)
<1>2. CASE UNCHANGED <<up, connected, promise, payload, lost>>
  BY <1>1, <1>2
<1>3. ASSUME NEW p \in Pages, NEW result \in {"resolved", "rejected"},
             Settle(p, result) \/ promise' = promise, up' \in [Pages -> BOOLEAN],
             UNCHANGED <<connected, payload, lost>>
      PROVE  Ok
  <2>1. promise' \in [Pages -> {"pending", "resolved", "rejected"}]
    BY <1>1, <1>3 DEF Settle
  <2>2. QED
    BY <1>1, <1>3, <2>1
<1>4. ASSUME payload' \in {"none", "sent", "buffered", "delivered"},
             UNCHANGED <<up, connected, promise, lost>>
      PROVE  Ok
  BY <1>1, <1>4
<1>5. ASSUME NEW p \in Pages, Reading(p) PROVE Ok
  <2>1. CASE ReadWaiting(p) \/ ReadPaired(p) \/ ReadSignal(p)
    BY <1>2, <2>1 DEF ReadWaiting, ReadPaired, ReadSignal
  <2>2. CASE ReadError(p)
    BY <1>1, <1>3, <2>2 DEF ReadError, Reject, sessionVars
  <2>3. CASE ReadPakeMessage(p)
    <3>1. /\ UNCHANGED <<up, connected, promise, payload>>
          /\ lost' = lost \/ lost' = lost \cup {"msg1"} \/ lost' = lost \cup {"msg2"}
      BY <2>3 DEF ReadPakeMessage
    <3>2. QED
      BY <1>1, <3>1
  <2>4. CASE ReadPayload(p)
    <3>1. /\ UNCHANGED <<up, connected, promise>>
          /\ payload' = payload \/ payload' \in {"buffered", "delivered"}
          /\ lost' = lost \/ lost' = lost \cup {"payload"}
      BY <2>4 DEF ReadPayload
    <3>2. QED
      BY <1>1, <2>4, <3>1
  <2>5. QED
    BY <1>5, <2>1, <2>2, <2>3, <2>4 DEF Reading
<1>6. ASSUME NEW p \in Pages, Task(p) PROVE Ok
  <2>1. CASE Loaded(p) \/ Processed(p) \/ Keyed(p) \/ Reachable(p)
    BY <1>2, <2>1 DEF Loaded, Processed, Keyed, Reachable, negoVars
  <2>2. CASE Unreachable(p) \/ Chosen(p)
    <3>1. /\ UNCHANGED <<up, connected, promise, lost>>
          /\ payload' = payload \/ payload' = "delivered"
      BY <2>2 DEF Unreachable, Chosen, Bind
    <3>2. QED
      BY <1>1, <1>4, <3>1
  <2>3. QED
    BY <1>6, <2>1, <2>2 DEF Task
<1>7. ASSUME SenderTask PROVE Ok
  <2>1. CASE SendFirstMessage \/ Offered \/ OfferOrphaned
    BY <1>2, <2>1 DEF SendFirstMessage, Offered, OfferOrphaned, negoVars
  <2>2. CASE SendPayload
    BY <1>4, <2>2 DEF SendPayload
  <2>3. QED
    BY <1>7, <2>1, <2>2 DEF SenderTask
<1>8. ASSUME NEW p \in Pages, OnClose(p) PROVE Ok
  <2>1. PICK complete \in BatchComplete(p) :
           Settle(p, IF complete THEN "resolved" ELSE "rejected")
    BY <1>8 DEF OnClose
  <2>2. Settle(p, "resolved") \/ Settle(p, "rejected")
    BY <2>1
  <2>3. QED
    BY <1>1, <1>3, <1>8, <2>2 DEF OnClose, sessionVars
<1>9. ASSUME NEW p \in Pages,
             WasmFails(p) \/ Timeout(p) \/ (IceFails(p) /\ UNCHANGED sessionVars)
      PROVE  Ok
  BY <1>2, <1>9 DEF WasmFails, Timeout, TimesOut, IceFails, GivesUp, sessionVars, negoVars
<1>10. ASSUME WebRTC, UNCHANGED sessionVars PROVE Ok
  <2>1. payload' = payload /\ lost' = lost
    BY <1>10 DEF sessionVars
  <2>2. CASE Connects
    BY <1>1, <2>1, <2>2 DEF Connects
  <2>3. ASSUME NEW p \in Pages, Orphaned(p) PROVE Ok
    BY <1>1, <1>3, <2>1, <2>3 DEF Orphaned, Reject
  <2>4. ASSUME NEW p \in Pages,
               \/ Answered \/ RemoteDescribed(p) \/ CandidateAdded(p)
               \/ Gathers(p) \/ ChannelOpens(p)
        PROVE  Ok
    BY <1>2, <2>1, <2>4 DEF Answered, RemoteDescribed, CandidateAdded, Gathers, ChannelOpens
  <2>5. QED
    BY <1>10, <2>2, <2>3, <2>4, TwoPages DEF WebRTC
<1>11. ASSUME NEW p \in Pages, WsLost(p) PROVE Ok
  <2>1. /\ up' = [up EXCEPT ![p] = FALSE] /\ UNCHANGED <<connected, payload, lost>>
        /\ Settle(p, "rejected") \/ promise' = promise
    BY <1>11 DEF WsLost, Reject, sessionVars
  <2>2. QED
    BY <1>1, <1>3, <2>1
<1>12. QED
  BY <1>5, <1>6, <1>7, <1>8, <1>9, <1>10, <1>11 DEF Next

\* Negotiators and connections come after the keys (app.js:537-559, p2p.js:155-160).
LEMMA JoinStep ==
    ASSUME IInv, Next
    PROVE  JoinInv'
<1>1. FreshInv /\ KeyInv /\ JoinInv /\ Dealt /\ (connected => connected')
  BY DealStep, RestStep DEF IInv, JoinInv
<1>2. ASSUME NEW q \in Pages
      PROVE  /\ Armed(nego'[q])
             /\ nego'[q] # Null => pake'[q] = "complete"
             /\ nego'[q].outcome = "p2p" => connected'
  <2>1. /\ Armed(nego[q]) /\ Deal(q)
        /\ nego[q] # Null => pake[q] = "complete"
        /\ step[q] \in Late => pake[q] = "complete"
        /\ nego[q].outcome = "p2p" => connected
    BY <1>1 DEF JoinInv, KeyInv, Dealt
  <2>2. nego'[q] # Null => pake[q] = "complete"
    BY <2>1 DEF Deal, Rests, Opens, Moves, Settles, Late
  <2>3. nego'[q].outcome = "p2p" => connected
    BY <2>1 DEF Deal, Rests, Opens, Moves, Settles
  <2>4. QED
    BY <1>1, <2>1, <2>2, <2>3, KeyKept DEF Deal
<1>3. QED
  BY <1>2 DEF JoinInv

-----------------------------------------------------------------------------
(* The theorems                                                              *)

\* The types.
LEMMA TypeStep ==
    ASSUME IInv, Next
    PROVE  TypeOK'
<1>1. TypeOK /\ WiresMove /\ LivesGoOn /\ Dealt
  BY WireStep, LifeStep, DealStep DEF IInv, JoinInv
<1>2. QED
  BY <1>1, RestStep DEF TypeOK, NegoTypeOK, WiresMove, LivesGoOn, Dealt

\* What the relay says to begin with.
LEMMA RelayGreets ==
    ASSUME NEW p \in Pages, NEW w \in Greetings(p)
    PROVE  /\ w \in [Pages -> Seq(Frames)]
           /\ \A q \in Pages : /\ ToSet(w[q]) \subseteq Greeting
                               /\ GreetsFirst(w[q]) /\ PairsOnce(w[q])
<1> DEFINE First == {<<"waiting", "paired">>, <<"paired", "waiting">>, <<"waiting">>,
                     <<"paired">>, <<"error">>}
<1>1. w \in [Pages -> First]
  BY DEF Greetings
<1>2. ASSUME NEW f \in First
      PROVE  /\ f \in Seq(Frames) /\ ToSet(f) \subseteq Greeting
             /\ GreetsFirst(f) /\ PairsOnce(f)
  <2>1. \A i \in DOMAIN f : f[i] \in Greeting
    BY DEF Greeting
  <2>2. f \in Seq(Frames)
    <3>1. Greeting \subseteq Frames
      BY DEF Frames, Greeting
    <3>2. Len(f) \in {1, 2} /\ f \in [1..Len(f) -> Greeting]
      BY <2>1 DEF Greeting
    <3>3. QED
      BY <3>1, <3>2
  <2>3. PairsOnce(f)
    BY DEF PairsOnce
  <2>4. QED
    BY <2>1, <2>2, <2>3 DEF ToSet, GreetsFirst
<1> HIDE DEF First
<1>3. QED
  BY <1>1, <1>2

\* Two new pages, and what the relay has told them.
LEMMA InitInv == Init => IInv
<1> SUFFICES ASSUME Init PROVE IInv
  OBVIOUS
<1>1. PICK p \in Pages : wire \in Greetings(p)
  BY DEF Init
<1>2. /\ wire \in [Pages -> Seq(Frames)]
      /\ \A q \in Pages : /\ On(q) \subseteq Greeting
                          /\ GreetsFirst(wire[q]) /\ PairsOnce(wire[q])
  BY <1>1, RelayGreets DEF On
<1>3. \A q \in Pages : /\ nego[q] = Null /\ pending[q] = <<>> /\ transport[q] = "none"
                       /\ step[q] = "idle" /\ pake[q] = "init"
  BY DEF Init
<1>4. ToSet(<<>>) = {} /\ <<>> \in Seq(Signals)
  BY DEF ToSet
<1>5. TypeOK
  <2>1. /\ up \in [Pages -> BOOLEAN] /\ connected \in BOOLEAN /\ gaveUp \subseteq Pages
        /\ nego \in [Pages -> Negotiators]
        /\ promise \in [Pages -> {"pending", "resolved", "rejected"}]
    BY NewNegotiator DEF Init
  <2>2. /\ pake \in [Pages -> {"init", "waiting", "paired", "pake", "complete"}]
        /\ step \in [Pages -> Steps] /\ pending \in [Pages -> Seq(Signals)]
        /\ transport \in [Pages -> {"none", "relay", "p2p"}]
        /\ payload \in {"none", "sent", "buffered", "delivered"}
        /\ lost \subseteq {"msg1", "msg2", "payload"}
    BY <1>4 DEF Init, Steps
  <2>3. QED
    BY <1>2, <2>1, <2>2 DEF TypeOK, NegoTypeOK
<1>6. FreshInv /\ PairInv
  BY <1>2, <1>3 DEF FreshInv, PairInv
<1>7. GreetInv
  BY <1>2, <1>3 DEF GreetInv
<1>8. KeyInv
  BY <1>2, <1>3, TwoPages DEF KeyInv, Greeting, Late
<1>9. BlameInv
  <2>1. ASSUME NEW q \in Pages PROVE "relay" \notin On(q) \cup ToSet(pending[q]) /\ ~NeverDirect(q)
    BY <1>2, <1>3, <1>4, NewNegotiator DEF Greeting, NeverDirect
  <2>2. QED
    BY <2>1 DEF BlameInv
<1>10. JoinInv
  BY <1>3, NewNegotiator DEF JoinInv
<1>11. QED
  BY <1>5, <1>6, <1>7, <1>8, <1>9, <1>10 DEF IInv

\* The invariant is kept by every step.
LEMMA StepInv == IInv /\ [Next]_vars => IInv'
<1> SUFFICES ASSUME IInv, [Next]_vars PROVE IInv'
  OBVIOUS
<1>1. CASE Next
  BY <1>1, TypeStep, FreshStep, PairStep, GreetStep, KeyStep, JoinStep, BlameStep DEF IInv
<1>2. CASE UNCHANGED vars
  <2>1. UNCHANGED <<up, wire, nego, connected, promise, gaveUp, pake, step, pending, transport,
                    payload, lost>>
    BY <1>2 DEF vars, negoVars, sessionVars
  <2>2. QED
    BY <2>1 DEF IInv, TypeOK, NegoTypeOK, FreshInv, PairInv, GreetInv, KeyInv, JoinInv, BlameInv,
                On, NeverDirect
<1>3. QED
  BY <1>1, <1>2

\* The inductive invariant holds in every state of a session.
THEOREM SessionInvariant == Spec => []IInv
  BY InitInv, StepInv, PTL DEF Spec

\* The types of the state hold: a wire carries only what a client may be sent, a
\* negotiator is in one of the states that p2p.js gives it.
THEOREM SessionTypeCorrect == Spec => []TypeOK
<1>1. IInv => TypeOK
  BY DEF IInv
<1>2. QED
  BY <1>1, SessionInvariant, PTL

\* When the pages differ in their transport, the one on the relay gave up by itself:
\* had it been told to fall back, whoever told it would not have a data channel
\* (p2p.js:240-262, app.js:407-423).
THEOREM SplitsExplained == Spec => []SplitByOwnFallback
<1>1. IInv => SplitByOwnFallback
  <2> SUFFICES ASSUME IInv, NEW p \in Pages, transport[p] = "relay",
                      transport[Peer(p)] = "p2p"
               PROVE  p \in gaveUp
    BY DEF SplitByOwnFallback
  <2>1. FreshInv /\ BlameInv /\ Peer(p) \in Pages
    BY TwoPages DEF IInv
  <2>2. ~NeverDirect(Peer(p))
    BY <2>1 DEF FreshInv, NeverDirect
  <2>3. QED
    BY <2>1, <2>2 DEF BlameInv, NeverDirect
<1>2. QED
  BY <1>1, SessionInvariant, PTL

\* A payload that nobody takes was ignored by a receiver that chose the data channel.
LEMMA PayloadStep ==
    ASSUME IInv, Next, PayloadFindsKey
    PROVE  PayloadFindsKey'
<1>1. TypeOK /\ FreshInv /\ KeyInv /\ Dealt /\ "receiver" \in Pages
  BY DealStep, TwoPages DEF IInv, JoinInv
<1> SUFFICES ASSUME "payload" \in lost' PROVE transport'["receiver"] = "p2p"
  BY DEF PayloadFindsKey
<1>2. transport["receiver"] = "p2p"
  <2>1. CASE "payload" \in lost
    BY <2>1 DEF PayloadFindsKey
  <2>2. ASSUME NEW p \in Pages, ReadPayload(p), "payload" \notin lost
        PROVE  transport["receiver"] = "p2p"
    <3>1. wire[p] \in Seq(Frames) /\ wire[p] # <<>> /\ Head(wire[p]) = "payload"
      BY <1>1, <2>2 DEF TypeOK, NegoTypeOK, ReadPayload, Reads
    <3>2. "payload" \in On(p)
      BY <3>1, FrameRead DEF On
    <3>3. p = "receiver"
      BY <1>1, <3>2 DEF KeyInv, Pages
    <3>4. pake[p] = "complete"
      BY <1>1, <3>2, <3>3 DEF KeyInv
    <3>5. ~(transport[p] = "relay") /\ ~(transport[p] = "none")
      BY <2>2, <3>4 DEF ReadPayload
    <3>6. QED
      BY <1>1, <3>3, <3>5 DEF TypeOK
  <2>3. QED
    BY <1>1, <2>1, <2>2, RestStep
<1>3. step["receiver"] = "done" /\ Deal("receiver")
  BY <1>1, <1>2 DEF FreshInv, Dealt
<1>4. QED
  BY <1>2, <1>3 DEF Deal, Rests, Opens, Moves, Settles

\* The first payload finds the receiver with its key: the sender gets to its
\* transport only after the receiver's answer, and the answer is sent with the key
\* already there (app.js:627-760).
THEOREM KeyBeforePayload == Spec => []PayloadFindsKey
<1>1. Init => PayloadFindsKey
  BY DEF Init, PayloadFindsKey
<1>2. PayloadFindsKey /\ IInv /\ [Next]_vars => PayloadFindsKey'
  <2>1. UNCHANGED vars /\ PayloadFindsKey => PayloadFindsKey'
    BY DEF vars, sessionVars, PayloadFindsKey
  <2>2. QED
    BY <2>1, PayloadStep
<1>3. QED
  BY <1>1, <1>2, SessionInvariant, PTL DEF Spec

-----------------------------------------------------------------------------
(* The promise                                                               *)

\* A step is about the key, about the connection, or about the choice.
LEMMA OneThing ==
    ASSUME TypeOK, Next
    PROVE  \/ connected' = connected /\ UNCHANGED <<nego, transport, gaveUp>>
           \/ connected' = connected /\ pake' = pake
           \/ /\ connected' = TRUE /\ UNCHANGED <<nego, transport, gaveUp, pake>>
              /\ \A p \in Pages : nego[p].pc = "open"
<1>1. ASSUME NEW p \in Pages,
             Reading(p) \/ Task(p) \/ OnClose(p) \/ WasmFails(p)
      PROVE  \/ connected' = connected /\ UNCHANGED <<nego, transport, gaveUp>>
             \/ connected' = connected /\ pake' = pake
  <2>1. CASE ReadWaiting(p) \/ ReadPaired(p) \/ Loaded(p) \/ Processed(p)
    BY <2>1 DEF ReadWaiting, ReadPaired, Loaded, Processed, negoVars
  <2>2. CASE \/ ReadError(p) \/ ReadSignal(p) \/ ReadPakeMessage(p) \/ ReadPayload(p)
             \/ OnClose(p)
    BY <2>2 DEF ReadError, ReadSignal, ReadPakeMessage, ReadPayload, OnClose, sessionVars
  <2>3. CASE Keyed(p) \/ Reachable(p) \/ Unreachable(p) \/ Chosen(p) \/ WasmFails(p)
    BY <2>3 DEF Keyed, Reachable, Unreachable, Chosen, WasmFails, negoVars
  <2>4. QED
    BY <1>1, <2>1, <2>2, <2>3 DEF Reading, Task
<1>2. ASSUME NEW p \in Pages, TimesOut(p) \/ IceFails(p), UNCHANGED sessionVars
      PROVE  connected' = connected /\ pake' = pake
  BY <1>2 DEF TimesOut, IceFails, GivesUp, sessionVars
<1>3. ASSUME SenderTask PROVE connected' = connected /\ pake' = pake
  BY <1>3 DEF SenderTask, SendFirstMessage, Offered, OfferOrphaned, SendPayload, negoVars
<1>4. ASSUME NEW p \in Pages, WsLost(p)
      PROVE  connected' = connected /\ UNCHANGED <<nego, transport, gaveUp>>
  BY <1>4 DEF WsLost, sessionVars
<1>5. ASSUME WebRTC, UNCHANGED sessionVars
      PROVE  \/ connected' = connected /\ pake' = pake
             \/ /\ connected' = TRUE /\ UNCHANGED <<nego, transport, gaveUp, pake>>
                /\ \A p \in Pages : nego[p].pc = "open"
  <2>1. CASE Connects
    BY <1>5, <2>1 DEF Connects, sessionVars
  <2>2. CASE ~Connects
    BY <1>5, <2>2
       DEF WebRTC, Answered, RemoteDescribed, CandidateAdded, Orphaned, Gathers, ChannelOpens,
           sessionVars
  <2>3. QED
    BY <2>1, <2>2
<1>6. QED
  BY <1>1, <1>2, <1>3, <1>4, <1>5 DEF Next, Timeout

\* Every step of a session is one of the promise, or none (app.js:384-423, 690-722;
\* p2p.js:155-275).
LEMMA ChoiceStep ==
    ASSUME IInv, IInv', Next
    PROVE  [Choice!Next]_Choice!vars
<1> DEFINE keyed == {p \in Pages : pake[p] = "complete"}
           fallen == {p \in Pages : NeverDirect(p)}
<1>1. /\ TypeOK /\ TypeOK' /\ FreshInv /\ FreshInv' /\ KeyInv /\ KeyInv' /\ JoinInv /\ JoinInv'
      /\ BlameInv /\ Dealt /\ LivesGoOn
  BY LifeStep, DealStep DEF IInv, JoinInv
<1>2. Choice!Pages = Pages /\ \A p \in Pages : Choice!Other(p) = Peer(p)
  BY DEF Choice!Pages, Choice!Other, Pages, Peer
<1>3. CASE connected' = connected /\ UNCHANGED <<nego, transport, gaveUp>>
  <2>1. fallen' = fallen
    BY <1>3 DEF NeverDirect
  <2>2. PICK p \in Pages : \A q \in Pages : q # p => Stays(q)
    BY <1>1 DEF LivesGoOn
  <2>3. \A q \in Pages : q # p => pake'[q] = pake[q]
    BY <2>2 DEF Stays
  <2>4. pake[p] = "complete" => pake'[p] = "complete"
    BY KeyKept
  <2>5. CASE pake[p] # "complete" /\ pake'[p] = "complete"
    <3>1. Completes(p)
      BY <1>1, <2>5 DEF LivesGoOn, Life, Stays, Waits, Begins, TakesMessage, Loads, Says,
                        Completes, Keys, GoesOn, Breaks
    <3>2. p = "sender" => "receiver" \in keyed
      BY <1>1, <3>1, TwoPages DEF Completes, KeyInv
    <3>3. keyed' = keyed \cup {p}
      BY <2>3, <2>5
    <3>4. Choice!GetKey(p)
      BY <1>3, <2>1, <3>2, <3>3 DEF Choice!GetKey
    <3>5. QED
      BY <1>2, <3>4 DEF Choice!Next
  <2>6. CASE ~(pake[p] # "complete" /\ pake'[p] = "complete")
    <3>1. keyed' = keyed
      BY <2>3, <2>4, <2>6
    <3>2. QED
      BY <1>3, <2>1, <3>1 DEF Choice!vars
  <2>7. QED
    BY <2>5, <2>6
<1>4. CASE /\ connected' = TRUE /\ UNCHANGED <<nego, transport, gaveUp, pake>>
           /\ \A p \in Pages : nego[p].pc = "open"
  <2>1. keyed = Pages
    BY <1>1, <1>4, NewNegotiator DEF JoinInv
  <2>2. fallen' = fallen /\ keyed' = keyed
    BY <1>4 DEF NeverDirect
  <2>3. Choice!Join
    BY <1>2, <1>4, <2>1, <2>2 DEF Choice!Join
  <2>4. QED
    BY <2>3 DEF Choice!Next
<1>5. CASE connected' = connected /\ pake' = pake
  <2>1. keyed' = keyed
    BY <1>5
  <2>2. PICK p \in Pages : OnlyPage(p)
    BY <1>1 DEF Dealt
  <2>3. /\ Deal(p) /\ transport \in [Pages -> {"none", "relay", "p2p"}]
        /\ transport' \in [Pages -> {"none", "relay", "p2p"}]
        /\ \A q \in Pages : q # p => transport'[q] = transport[q] /\ (NeverDirect(q)' <=> NeverDirect(q))
    BY <1>1, <2>2 DEF Dealt, TypeOK, OnlyPage, Rests, NeverDirect
  <2>4. NeverDirect(p) => NeverDirect(p)'
    BY NeverAgain
  <2>5. transport'[p] = transport[p] \/ (Settles(p) /\ transport[p] = "none")
    BY <1>1, <2>3 DEF Deal, Rests, Opens, Moves, Settles, FreshInv
  <2>6. CASE gaveUp' # gaveUp \/ (NeverDirect(p)' /\ ~NeverDirect(p))
    <3>1. NeverDirect(p)'
      BY <2>2, <2>6 DEF OnlyPage
    <3>2. p \in keyed
      <4>1. nego'[p] # Null \/ step'[p] = "done"
        BY <1>1, <3>1, NewNegotiator DEF NeverDirect, FreshInv
      <4>2. pake'[p] = "complete"
        BY <1>1, <4>1 DEF JoinInv, KeyInv, Late
      <4>3. QED
        BY <1>5, <4>2
    <3>3. transport'[p] # "p2p"
      BY <1>1, <3>1 DEF NeverDirect, FreshInv
    <3>4. transport[p] # "p2p"
      BY <2>5, <3>3
    <3>5. gaveUp' = gaveUp \cup {p} \/ (Peer(p) \in fallen /\ gaveUp' = gaveUp)
      <4>1. CASE gaveUp' # gaveUp
        BY <2>2, <4>1 DEF OnlyPage
      <4>2. CASE gaveUp' = gaveUp
        <5>1. Blamed(p)
          BY <2>3, <2>6, <4>2 DEF NeverDirect, Deal, Rests, Opens, Moves, Settles, Blamed
        <5>2. p \in gaveUp \/ NeverDirect(Peer(p))
          BY <1>1, <4>2, <5>1 DEF Blamed, BlameInv
        <5>3. QED
          BY <4>2, <5>2, TwoPages
      <4>3. QED
        BY <4>1, <4>2
    <3>6. fallen' = fallen \cup {p}
      BY <2>3, <3>1
    <3>7. \/ transport' = transport
          \/ transport[p] = "none" /\ transport' = [transport EXCEPT ![p] = "relay"]
      <4>1. transport'[p] = transport[p] \/ (transport[p] = "none" /\ transport'[p] = "relay")
        BY <2>3, <2>5, <3>3
      <4>2. QED
        BY <2>3, <4>1
    <3>8. Choice!FallBack(p)
      BY <1>2, <1>5, <2>1, <3>2, <3>4, <3>5, <3>6, <3>7 DEF Choice!FallBack
    <3>9. QED
      BY <1>2, <3>8 DEF Choice!Next
  <2>7. CASE gaveUp' = gaveUp /\ (NeverDirect(p)' => NeverDirect(p))
    <3>1. fallen' = fallen
      BY <2>3, <2>4, <2>7
    <3>2. CASE transport'[p] = transport[p]
      <4>1. transport' = transport
        BY <2>3, <3>2
      <4>2. QED
        BY <1>5, <2>1, <2>7, <3>1, <4>1 DEF Choice!vars
    <3>3. CASE Settles(p) /\ transport[p] = "none"
      <4>1. step[p] \in Late
        BY <3>3 DEF Settles, Late
      <4>2. p \in keyed
        BY <1>1, <4>1 DEF KeyInv
      <4>3. /\ p \in fallen \/ connected
            /\ transport'[p] = IF p \in fallen THEN "relay" ELSE "p2p"
        <5>1. CASE transport'[p] = "relay"
          BY <2>7, <5>1 DEF NeverDirect
        <5>2. CASE transport'[p] # "relay"
          <6>1. transport'[p] = nego[p].outcome /\ nego[p].outcome # "none"
            BY <3>3, <5>2 DEF Settles
          <6>2. nego[p].outcome = "p2p"
            BY <2>3, <5>2, <6>1
          <6>3. QED
            BY <1>1, <3>3, <6>1, <6>2 DEF JoinInv, NeverDirect
        <5>3. QED
          BY <5>1, <5>2
      <4>4. transport' = [transport EXCEPT ![p] = IF p \in fallen THEN "relay" ELSE "p2p"]
        BY <2>3, <4>3
      <4>5. Choice!Choose(p)
        BY <1>5, <2>1, <2>7, <3>1, <3>3, <4>2, <4>3, <4>4 DEF Choice!Choose
      <4>6. QED
        BY <1>2, <4>5 DEF Choice!Next
    <3>4. QED
      BY <2>5, <3>2, <3>3
  <2>8. QED
    BY <2>6, <2>7
<1>6. QED
  BY <1>1, <1>3, <1>4, <1>5, OneThing

\* The key exchange, the early signals, the negotiators and the announcements keep the
\* promise of TransportChoice: each page that has the key chooses once, and falls back
\* only for a reason (app.js:384-423, 537-559, 690-722; p2p.js:155-275).
THEOREM ChoiceImplemented == Spec => ImplementsChoice
<1>1. Init => Choice!Init
  <2> SUFFICES ASSUME Init PROVE Choice!Init
    OBVIOUS
  <2>1. \A p \in Pages : ~NeverDirect(p) /\ pake[p] # "complete"
    BY NewNegotiator DEF Init, NeverDirect
  <2>2. QED
    BY <2>1 DEF Init, Choice!Init, Choice!Pages, Pages
<1>2. IInv /\ IInv' /\ [Next]_vars => [Choice!Next]_Choice!vars
  <2>1. UNCHANGED vars => UNCHANGED Choice!vars
    BY DEF vars, negoVars, sessionVars, Choice!vars, NeverDirect
  <2>2. QED
    BY <2>1, ChoiceStep
<1>3. QED
  BY <1>1, <1>2, SessionInvariant, PTL DEF Spec, ImplementsChoice, Choice!Spec

=============================================================================
