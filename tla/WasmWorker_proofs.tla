-------------------------- MODULE WasmWorker_proofs --------------------------
(***************************************************************************)
(* The bridge to the WASM worker for any number of calls: its types, that  *)
(* no load wipes a key exchange, that it implements RemoteCalls, and which *)
(* session's exchange a key comes from.                                    *)
(***************************************************************************)
EXTENDS WasmWorker, TLAPS

\* The module is loaded once, and no exchange begins before.
OneLoad ==
    /\ loads > 0 => ~ready
    /\ pake # NoPake => ready

\* The first call of the queue is the one that runs, and a session that was
\* started has given the page a role.
Roled ==
    /\ running => inbox # <<>>
    /\ \A s \in Sessions : step[s] # "off" => role \in Sessions

\* Each call is awaited by one chain.
Separate == awaits["send"] = awaits["receive"] => awaits["send"] = 0

\* The calls posted, and before them the answers posted, are in the order of
\* their numbers, and what ran is before what is still to run.
Ordered ==
    /\ \A j, k \in 1..Len(inbox) : j < k => inbox[j].id < inbox[k].id
    /\ \A j \in 1..Len(outbox), k \in 1..Len(inbox) : outbox[j].id < inbox[k].id
    /\ \A j, k \in 1..Len(outbox) :
            j < k /\ outbox[k].id # 0 => outbox[j].id < outbox[k].id
    /\ \A i \in ran, k \in 1..Len(inbox) : i < inbox[k].id

\* Every pending call has an answer under way or is still to run, a result comes
\* from a call that ran, and the calls not pending are those that are settled.
Accounted ==
    /\ \A i \in pending : \/ \E k \in 1..Len(outbox) : outbox[k].id = i
                          \/ \E k \in 1..Len(inbox) : inbox[k].id = i
    /\ \A k \in 1..Len(outbox) : outbox[k].ok => outbox[k].id \in ran
    /\ pending = (1..reqId) \ (resolved \cup rejected)

CallSet(n) == [id : 1..n, by : Sessions, fn : WasmFunctions, role : Sessions]
AnswerSet(n) == [id : 0..n, ok : BOOLEAN, key : Keys]

IInv == TypeOK /\ OneLoad /\ Roled /\ Separate /\ Ordered /\ Accounted

-----------------------------------------------------------------------------
(* Queues                                                                    *)

\* What posting a message does to a queue (postMessage).
LEMMA Posted ==
    ASSUME NEW S, NEW q \in Seq(S), NEW e \in S
    PROVE  /\ Append(q, e) \in Seq(S)
           /\ Len(Append(q, e)) = Len(q) + 1
           /\ \A k \in 1..Len(q) : Append(q, e)[k] = q[k]
           /\ Append(q, e)[Len(q) + 1] = e
           /\ Append(q, e) # <<>>
  OBVIOUS

\* What taking the first message does to a queue (onmessage).
LEMMA Taken ==
    ASSUME NEW S, NEW q \in Seq(S), q # <<>>
    PROVE  /\ Len(q) \in Nat \ {0}
           /\ Head(q) = q[1]
           /\ q[1] \in S
           /\ Tail(q) \in Seq(S)
           /\ Len(Tail(q)) = Len(q) - 1
           /\ \A k \in 1..(Len(q) - 1) : Tail(q)[k] = q[k + 1]
  OBVIOUS

\* A queue of messages of one kind is one of a more general kind (reqId grows).
LEMMA Widened ==
    ASSUME NEW S, NEW T, S \subseteq T, NEW q \in Seq(S)
    PROVE  q \in Seq(T)
<1>1. q \in [1..Len(q) -> T] /\ Len(q) \in Nat
  OBVIOUS
<1>2. QED
  BY <1>1

-----------------------------------------------------------------------------
(* Each step                                                                 *)

\* The worker has called ensureWasm and no call was made.
LEMMA WorkerInit == Init => IInv
<1> SUFFICES ASSUME Init PROVE IInv
  OBVIOUS
<1> USE DEF Init
<1>1. TypeOK
  <2>1. NoKey \in Keys /\ "off" \in Steps /\ "off" \notin WasmFunctions
    BY DEF NoKey, Keys, Steps, WasmFunctions, Exchange
  <2>2. /\ inbox \in Seq([id : 1..reqId, by : Sessions, fn : WasmFunctions, role : Sessions])
        /\ outbox \in Seq([id : 0..reqId, ok : BOOLEAN, key : Keys])
    OBVIOUS
  <2>3. pake \in [by : Sessions \cup {None}, role : Sessions \cup {None}, complete : BOOLEAN]
    BY DEF NoPake
  <2>4. \A s \in Sessions : awaits[s] \in (IF step[s] \in WasmFunctions THEN pending ELSE {0})
    BY <2>1
  <2>5. /\ step \in [Sessions -> Steps] /\ awaits \in [Sessions -> Nat]
        /\ key \in [Sessions -> Keys]
    BY <2>1
  <2>6. loads \in 0..1 /\ reqId \in Nat
    OBVIOUS
  <2>7. /\ role \in Sessions \cup {None} /\ pending \subseteq 1..reqId /\ ran \subseteq 1..reqId
        /\ resolved \subseteq 1..reqId /\ rejected \subseteq 1..reqId
    OBVIOUS
  <2>8. /\ running \in BOOLEAN /\ startup \in BOOLEAN /\ ready \in BOOLEAN
        /\ overlapped \in BOOLEAN
    OBVIOUS
  <2>9. QED
    BY <2>2, <2>3, <2>4, <2>5, <2>6, <2>7, <2>8 DEF TypeOK
<1>2. OneLoad /\ Roled /\ Separate
  BY DEF OneLoad, Roled, Separate, Sessions
<1>3. Ordered /\ Accounted
  BY DEF Ordered, Accounted
<1>4. QED
  BY <1>1, <1>2, <1>3 DEF IInv

\* startSend, startReceive: the queues are left alone.
LEMMA StartKeeps == ASSUME IInv, NEW s \in Sessions, Start(s) PROVE IInv'
<1>1. TypeOK'
  BY DEF IInv, TypeOK, Start, pageVars, workerVars, Steps, WasmFunctions, Exchange
<1>2. OneLoad' /\ Roled'
  BY DEF IInv, TypeOK, OneLoad, Roled, Start, workerVars
<1>3. Separate' /\ Ordered' /\ Accounted'
  BY DEF IInv, Separate, Ordered, Accounted, Start, workerVars
<1>4. QED
  BY <1>1, <1>2, <1>3 DEF IInv

\* wasmCall: the new call is behind all others and is the only one of its number.
LEMMA WasmCallKeeps ==
    ASSUME IInv, NEW s \in Sessions, NEW fn \in WasmFunctions, NEW rest \in SUBSET pending,
           WasmCall(s, fn, rest), role \in Sessions, awaits[s] \notin rest,
           awaits[s] \in (pending \ rest) \cup {0}, rest = pending \ {awaits[s]}
    PROVE  /\ reqId' = reqId + 1
           /\ \A p \in Sessions :
                 awaits'[p] \in (IF step'[p] \in WasmFunctions THEN pending' ELSE {0})
           /\ step' \in [Sessions -> Steps]
           /\ awaits' \in [Sessions -> Nat]
           /\ Separate'
           /\ reqId' \in Nat
           /\ pending' = rest \cup {reqId + 1}
           /\ pending' \subseteq 1..reqId'
           /\ inbox' \in Seq(CallSet(reqId'))
           /\ Len(inbox') = Len(inbox) + 1
           /\ \A k \in 1..Len(inbox) : inbox'[k] = inbox[k]
           /\ inbox'[Len(inbox) + 1].id = reqId + 1
           /\ inbox' # <<>>
<1> DEFINE call == Call(reqId', s, fn)
<1>1. reqId' = reqId + 1 /\ reqId \in Nat /\ pending \subseteq 1..reqId
  BY DEF IInv, TypeOK, WasmCall
<1>2. pending' = rest \cup {reqId + 1}
  BY <1>1 DEF WasmCall
<1>3. call \in CallSet(reqId') /\ call.id = reqId + 1
  BY <1>1 DEF Call, CallSet
<1>4. inbox \in Seq(CallSet(reqId'))
  <2>1. CallSet(reqId) \subseteq CallSet(reqId')
    BY <1>1 DEF CallSet
  <2>2. inbox \in Seq(CallSet(reqId))
    BY DEF IInv, TypeOK, CallSet
  <2>3. QED
    BY <2>1, <2>2, Widened
<1>5. inbox' = Append(inbox, call)
  BY DEF WasmCall
<1> HIDE DEF call
<1>6. /\ inbox' \in Seq(CallSet(reqId'))
      /\ Len(inbox') = Len(inbox) + 1
      /\ \A k \in 1..Len(inbox) : inbox'[k] = inbox[k]
      /\ inbox'[Len(inbox) + 1] = call
      /\ inbox' # <<>>
  BY <1>3, <1>4, <1>5, Posted
<1>7. /\ step' \in [Sessions -> Steps] /\ step'[s] = fn
      /\ \A p \in Sessions : p # s => step'[p] = step[p]
      /\ awaits' \in [Sessions -> Nat] /\ awaits'[s] = reqId + 1
      /\ \A p \in Sessions : p # s => awaits'[p] = awaits[p]
  BY <1>1 DEF IInv, TypeOK, WasmCall, Steps
<1>8. \A p \in Sessions : p # s /\ awaits[p] # 0 => awaits[p] # awaits[s]
  BY DEF IInv, Separate, Sessions
<1>9. \A p \in Sessions :
        awaits'[p] \in (IF step'[p] \in WasmFunctions THEN pending' ELSE {0})
  <2> SUFFICES ASSUME NEW p \in Sessions, p # s
               PROVE  awaits'[p] \in (IF step'[p] \in WasmFunctions THEN pending' ELSE {0})
    BY <1>2, <1>7
  <2>1. awaits[p] \in (IF step[p] \in WasmFunctions THEN pending ELSE {0})
    BY DEF IInv, TypeOK
  <2>2. awaits[p] \in pending => awaits[p] # 0
    BY <1>1
  <2>3. QED
    BY <1>2, <1>7, <1>8, <2>1, <2>2
<1>10. Separate'
  <2>1. \A p \in Sessions : awaits[p] # reqId + 1
    BY <1>1 DEF IInv, TypeOK
  <2>2. QED
    BY <1>7, <2>1 DEF Separate, Sessions
<1>11. pending' \subseteq 1..reqId'
  <2>1. ASSUME NEW i \in rest PROVE i \in 1..(reqId + 1)
    <3>1. i \in 1..reqId
      BY <1>1, <2>1
    <3>2. QED
      BY <1>1, <3>1
  <2>2. reqId + 1 \in 1..(reqId + 1)
    BY <1>1
  <2>3. pending' \subseteq 1..(reqId + 1)
    BY <1>2, <2>1, <2>2
  <2>4. QED
    BY <1>1, <2>3
<1>12. QED
  BY <1>1, <1>2, <1>3, <1>6, <1>7, <1>9, <1>10, <1>11

\* The numbers of calls and answers.
LEMMA QueueNumbers ==
    ASSUME IInv
    PROVE  /\ reqId \in Nat /\ Len(inbox) \in Nat /\ Len(outbox) \in Nat
           /\ \A k \in 1..Len(inbox) : inbox[k].id \in 1..reqId
           /\ \A k \in 1..Len(outbox) : outbox[k].id \in 0..reqId
           /\ \A i \in ran : i \in 1..reqId
<1>1. /\ inbox \in Seq(CallSet(reqId)) /\ outbox \in Seq(AnswerSet(reqId))
      /\ ran \subseteq 1..reqId /\ reqId \in Nat
  BY DEF IInv, TypeOK, CallSet, AnswerSet
<1>2. \A k \in 1..Len(inbox) : inbox[k] \in CallSet(reqId)
  BY <1>1
<1>3. \A k \in 1..Len(outbox) : outbox[k] \in AnswerSet(reqId)
  BY <1>1
<1>4. Len(inbox) \in Nat /\ Len(outbox) \in Nat
  BY <1>1
<1>5. QED
  BY <1>1, <1>2, <1>3, <1>4 DEF CallSet, AnswerSet

\* What the page's event does to the queues: it takes d messages, posts e calls,
\* and settles what it takes.
LEMMA PageQueues ==
    ASSUME IInv, NEW d \in 0..1, NEW e \in 0..1, d <= Len(outbox),
           Len(outbox') = Len(outbox) - d,
           \A k \in 1..Len(outbox') : outbox'[k] = outbox[k + d],
           Len(inbox') = Len(inbox) + e,
           \A k \in 1..Len(inbox) : inbox'[k] = inbox[k],
           e = 1 => inbox'[Len(inbox) + 1].id = reqId + 1,
           ran' = ran,
           \A i \in pending' : \/ e = 1 /\ i = reqId + 1
                               \/ i \in pending /\ (d = 1 => i # outbox[1].id)
    PROVE  /\ Ordered'
           /\ \A i \in pending' : \/ \E k \in 1..Len(outbox') : outbox'[k].id = i
                                  \/ \E k \in 1..Len(inbox') : inbox'[k].id = i
           /\ \A k \in 1..Len(outbox') : outbox'[k].ok => outbox'[k].id \in ran'
<1>1. /\ reqId \in Nat /\ Len(inbox) \in Nat /\ Len(outbox) \in Nat
      /\ \A k \in 1..Len(inbox) : inbox[k].id \in 1..reqId
      /\ \A k \in 1..Len(outbox) : outbox[k].id \in 0..reqId
      /\ \A i \in ran : i \in 1..reqId
  BY QueueNumbers
<1>2. \A k \in 1..Len(inbox') : \/ k \in 1..Len(inbox) /\ inbox'[k] = inbox[k]
                                \/ e = 1 /\ k = Len(inbox) + 1 /\ inbox'[k].id = reqId + 1
  BY <1>1
<1>3. \A k \in 1..Len(outbox') : k + d \in 1..Len(outbox) /\ outbox'[k] = outbox[k + d]
  BY <1>1
<1>4. Ordered'
  <2>1. ASSUME NEW j \in 1..Len(inbox'), NEW k \in 1..Len(inbox'), j < k
        PROVE  inbox'[j].id < inbox'[k].id
    <3>1. j \in 1..Len(inbox) /\ inbox'[j] = inbox[j]
      BY <1>1, <1>2, <2>1
    <3>2. CASE k \in 1..Len(inbox) /\ inbox'[k] = inbox[k]
      BY <2>1, <3>1, <3>2 DEF IInv, Ordered
    <3>3. CASE inbox'[k].id = reqId + 1
      BY <1>1, <3>1, <3>3
    <3>4. QED
      BY <1>2, <3>2, <3>3
  <2>2. ASSUME NEW j \in 1..Len(outbox'), NEW k \in 1..Len(inbox')
        PROVE  outbox'[j].id < inbox'[k].id
    <3>1. j + d \in 1..Len(outbox) /\ outbox'[j] = outbox[j + d]
      BY <1>3
    <3>2. CASE k \in 1..Len(inbox) /\ inbox'[k] = inbox[k]
      BY <3>1, <3>2 DEF IInv, Ordered
    <3>3. CASE inbox'[k].id = reqId + 1
      BY <1>1, <3>1, <3>3
    <3>4. QED
      BY <1>2, <3>2, <3>3
  <2>3. ASSUME NEW j \in 1..Len(outbox'), NEW k \in 1..Len(outbox'),
               j < k, outbox'[k].id # 0
        PROVE  outbox'[j].id < outbox'[k].id
    <3>1. j + d < k + d
      BY <1>1, <2>3
    <3>2. QED
      BY <1>3, <2>3, <3>1 DEF IInv, Ordered
  <2>4. \A i \in ran', k \in 1..Len(inbox') : i < inbox'[k].id
    BY <1>1, <1>2 DEF IInv, Ordered
  <2>5. QED
    BY <2>1, <2>2, <2>3, <2>4 DEF Ordered
<1>5. ASSUME NEW i \in pending'
      PROVE  \/ \E k \in 1..Len(outbox') : outbox'[k].id = i
             \/ \E k \in 1..Len(inbox') : inbox'[k].id = i
  <2>1. CASE e = 1 /\ i = reqId + 1
    <3>1. Len(inbox) + 1 \in 1..Len(inbox')
      BY <1>1, <2>1
    <3>2. QED
      BY <2>1, <3>1
  <2>2. CASE i \in pending /\ (d = 1 => i # outbox[1].id)
    <3>1. CASE \E k \in 1..Len(inbox) : inbox[k].id = i
      BY <1>1, <3>1
    <3>2. CASE \E k \in 1..Len(outbox) : outbox[k].id = i
      <4>1. PICK k \in 1..Len(outbox) : outbox[k].id = i
        BY <3>2
      <4>2. k - d \in 1..Len(outbox') /\ (k - d) + d = k
        BY <1>1, <2>2, <4>1
      <4>3. QED
        BY <1>3, <4>1, <4>2
    <3>3. QED
      BY <2>2, <3>1, <3>2 DEF IInv, Accounted
  <2>3. QED
    BY <1>5, <2>1, <2>2
<1>6. \A k \in 1..Len(outbox') : outbox'[k].ok => outbox'[k].id \in ran'
  BY <1>3 DEF IInv, Accounted
<1>7. QED
  BY <1>4, <1>5, <1>6

\* The first message of the worker is an answer to a call, or the fatal one.
LEMMA TakeFirst ==
    ASSUME IInv, NEW answer, Take(answer)
    PROVE  /\ answer = outbox[1] /\ answer \in AnswerSet(reqId)
           /\ Len(outbox) \in Nat \ {0}
           /\ 1 <= Len(outbox)
           /\ Len(outbox') = Len(outbox) - 1
           /\ \A k \in 1..Len(outbox') : outbox'[k] = outbox[k + 1]
           /\ outbox' \in Seq(AnswerSet(reqId))
<1>1. outbox \in Seq(AnswerSet(reqId)) /\ outbox # <<>>
  BY DEF IInv, TypeOK, AnswerSet, Take
<1>2. outbox' = Tail(outbox) /\ answer = Head(outbox)
  BY DEF Take
<1>3. QED
  BY <1>1, <1>2, Taken

\* wasmCall by a chain that awaits no other call.
LEMMA CallNextKeeps == ASSUME IInv, NEW s \in Sessions, CallNext(s) PROVE IInv'
<1>1. PICK fn \in NextCalls(s) : WasmCall(s, fn, pending)
  BY DEF CallNext
<1>2. /\ step[s] \in {"joined", "peer", "keyed"}
      /\ fn \in WasmFunctions
  BY DEF NextCalls, WasmFunctions, Exchange
<1>3. awaits[s] = 0 /\ awaits[s] \notin pending /\ role \in Sessions
  <2>1. step[s] \notin WasmFunctions /\ step[s] # "off"
    BY <1>2 DEF WasmFunctions, Exchange
  <2>2. QED
    BY <2>1 DEF IInv, TypeOK, Roled
<1>4. /\ UNCHANGED <<role, key, resolved, rejected, overlapped, outbox>>
      /\ UNCHANGED <<running, startup, loads, ready, pake, ran>>
  BY DEF CallNext, workerVars
<1>5. /\ reqId' = reqId + 1
      /\ \A p \in Sessions :
            awaits'[p] \in (IF step'[p] \in WasmFunctions THEN pending' ELSE {0})
      /\ step' \in [Sessions -> Steps]
      /\ awaits' \in [Sessions -> Nat]
      /\ Separate'
      /\ reqId' \in Nat
      /\ pending' = pending \cup {reqId + 1}
      /\ pending' \subseteq 1..reqId'
      /\ inbox' \in Seq(CallSet(reqId'))
      /\ Len(inbox') = Len(inbox) + 1
      /\ \A k \in 1..Len(inbox) : inbox'[k] = inbox[k]
      /\ inbox'[Len(inbox) + 1].id = reqId + 1
      /\ inbox' # <<>>
  <2>1. pending \in SUBSET pending /\ pending = pending \ {awaits[s]}
    BY <1>3
  <2>2. QED
    BY <1>1, <1>2, <1>3, <2>1, WasmCallKeeps
<1>6. TypeOK'
  <2>1. reqId \in Nat
    BY DEF IInv, TypeOK
  <2>2. outbox' \in Seq(AnswerSet(reqId'))
    <3>1. outbox \in Seq(AnswerSet(reqId)) /\ AnswerSet(reqId) \subseteq AnswerSet(reqId')
      BY <1>5, <2>1 DEF IInv, TypeOK, AnswerSet
    <3>2. QED
      BY <1>4, <3>1, Widened
  <2>3. ran' \subseteq 1..reqId' /\ resolved' \subseteq 1..reqId' /\ rejected' \subseteq 1..reqId'
    <3>1. 1..reqId \subseteq 1..reqId'
      BY <1>5, <2>1
    <3>2. QED
      BY <1>4, <3>1 DEF IInv, TypeOK
  <2>4. /\ role' \in Sessions \cup {None} /\ key' \in [Sessions -> Keys]
        /\ running' \in BOOLEAN /\ startup' \in BOOLEAN /\ loads' \in 0..1
        /\ ready' \in BOOLEAN /\ overlapped' \in BOOLEAN
        /\ pake' \in [by : Sessions \cup {None}, role : Sessions \cup {None}, complete : BOOLEAN]
    BY <1>4 DEF IInv, TypeOK
  <2>5. QED
    BY <1>5, <2>2, <2>3, <2>4 DEF TypeOK, CallSet, AnswerSet
<1>7. OneLoad' /\ Roled'
  BY <1>3, <1>4, <1>5 DEF IInv, OneLoad, Roled
<1>8. Ordered' /\ Accounted'
  <2>1. /\ 0 <= Len(outbox)
        /\ Len(outbox) \in Nat
        /\ reqId \in Nat
    BY DEF IInv, TypeOK
  <2>2. /\ Len(outbox') = Len(outbox) - 0
        /\ \A k \in 1..Len(outbox') : outbox'[k] = outbox[k + 0]
        /\ 0 \in 0..1 /\ 1 \in 0..1 /\ ran' = ran
        /\ 1 = 1 => inbox'[Len(inbox) + 1].id = reqId + 1
        /\ \A i \in pending' : \/ 1 = 1 /\ i = reqId + 1
                               \/ i \in pending /\ (0 = 1 => i # outbox[1].id)
    BY <1>4, <1>5, <2>1
  <2>3. /\ Ordered'
        /\ \A i \in pending' : \/ \E k \in 1..Len(outbox') : outbox'[k].id = i
                               \/ \E k \in 1..Len(inbox') : inbox'[k].id = i
        /\ \A k \in 1..Len(outbox') : outbox'[k].ok => outbox'[k].id \in ran'
    BY <1>5, <2>1, <2>2, PageQueues
  <2>4. pending' = (1..reqId') \ (resolved' \cup rejected')
    <3>1. 1..reqId' = (1..reqId) \cup {reqId + 1}
      BY <1>5, <2>1
    <3>2. reqId + 1 \notin resolved \cup rejected
      BY <2>1 DEF IInv, TypeOK
    <3>3. QED
      BY <1>4, <1>5, <3>1, <3>2 DEF IInv, Accounted
  <2>5. QED
    BY <2>3, <2>4 DEF Accounted
<1>9. QED
  BY <1>5, <1>6, <1>7, <1>8 DEF IInv

\* What rejecting some pending calls keeps: the chains that await them end, the
\* other ones still await a pending call.
LEMMA RejectKeeps ==
    ASSUME IInv, NEW ids \in SUBSET pending, pending' = pending \ ids, RejectCalls(ids),
           NEW answer, Take(answer), answer.id \notin pending \ ids,
           UNCHANGED <<role, overlapped, workerVars>>
    PROVE  IInv'
<1>1. /\ UNCHANGED <<role, overlapped, key, reqId, inbox, resolved>>
      /\ UNCHANGED <<running, startup, loads, ready, pake, ran>>
      /\ rejected' = rejected \cup ids
  BY DEF RejectCalls, workerVars
<1>2. /\ answer = outbox[1]
      /\ Len(outbox) \in Nat \ {0}
      /\ 1 <= Len(outbox)
      /\ Len(outbox') = Len(outbox) - 1
      /\ \A k \in 1..Len(outbox') : outbox'[k] = outbox[k + 1]
      /\ outbox' \in Seq(AnswerSet(reqId))
  BY TakeFirst
<1>3. /\ step' \in [Sessions -> Steps]
      /\ awaits' \in [Sessions -> Nat]
      /\ \A p \in Sessions : /\ step'[p] = IF awaits[p] \in ids THEN "failed" ELSE step[p]
                             /\ awaits'[p] = IF awaits[p] \in ids THEN 0 ELSE awaits[p]
  BY DEF IInv, TypeOK, RejectCalls, Steps
<1>4. \A p \in Sessions :
        awaits'[p] \in (IF step'[p] \in WasmFunctions THEN pending' ELSE {0})
  <2> SUFFICES ASSUME NEW p \in Sessions
               PROVE  awaits'[p] \in (IF step'[p] \in WasmFunctions THEN pending' ELSE {0})
    OBVIOUS
  <2>1. awaits[p] \in (IF step[p] \in WasmFunctions THEN pending ELSE {0})
    BY DEF IInv, TypeOK
  <2>2. "failed" \notin WasmFunctions
    BY DEF WasmFunctions, Exchange
  <2>3. QED
    BY <1>3, <2>1, <2>2
<1>5. TypeOK'
  <2>1. rejected' \subseteq 1..reqId /\ pending' \subseteq 1..reqId
    BY <1>1 DEF IInv, TypeOK
  <2>2. outbox' \in Seq([id : 0..reqId', ok : BOOLEAN, key : Keys])
    BY <1>1, <1>2 DEF AnswerSet
  <2>3. QED
    BY <1>1, <1>3, <1>4, <2>1, <2>2 DEF IInv, TypeOK
<1>6. OneLoad' /\ Roled' /\ Separate'
  <2>1. OneLoad' /\ (running' => inbox' # <<>>)
    BY <1>1 DEF IInv, OneLoad, Roled
  <2>2. \A p \in Sessions : step'[p] # "off" => role' \in Sessions
    <3>1. ASSUME NEW p \in Sessions, step'[p] # "off" PROVE step[p] # "off"
      <4>1. awaits[p] \in (IF step[p] \in WasmFunctions THEN pending ELSE {0})
        BY DEF IInv, TypeOK
      <4>2. "off" \notin WasmFunctions /\ 0 \notin ids
        BY DEF IInv, TypeOK, WasmFunctions, Exchange
      <4>3. QED
        BY <1>3, <3>1, <4>1, <4>2
    <3>2. QED
      BY <1>1, <3>1 DEF IInv, Roled
  <2>3. Separate'
    BY <1>3 DEF IInv, TypeOK, Separate, Sessions
  <2>4. QED
    BY <2>1, <2>2, <2>3 DEF Roled
<1>7. Ordered' /\ Accounted'
  <2>1. Len(inbox) \in Nat
    BY QueueNumbers
  <2>2. /\ 0 \in 0..1 /\ 1 \in 0..1
        /\ Len(inbox') = Len(inbox) + 0
        /\ \A k \in 1..Len(inbox) : inbox'[k] = inbox[k]
        /\ 0 = 1 => inbox'[Len(inbox) + 1].id = reqId + 1
        /\ ran' = ran
        /\ \A i \in pending' : \/ 0 = 1 /\ i = reqId + 1
                               \/ i \in pending /\ (1 = 1 => i # outbox[1].id)
    BY <1>1, <1>2, <2>1
  <2>3. /\ Ordered'
        /\ \A i \in pending' : \/ \E k \in 1..Len(outbox') : outbox'[k].id = i
                               \/ \E k \in 1..Len(inbox') : inbox'[k].id = i
        /\ \A k \in 1..Len(outbox') : outbox'[k].ok => outbox'[k].id \in ran'
    BY <1>2, <2>2, PageQueues
  <2>4. pending' = (1..reqId') \ (resolved' \cup rejected')
    BY <1>1 DEF IInv, Accounted
  <2>5. QED
    BY <2>3, <2>4 DEF Accounted
<1>8. QED
  BY <1>5, <1>6, <1>7 DEF IInv

\* A fatal message rejects every pending call.
LEMMA OnFatalKeeps == ASSUME IInv, OnFatal PROVE IInv'
<1>1. pending \in SUBSET pending /\ pending' = pending \ pending /\ RejectCalls(pending)
  BY DEF OnFatal, RejectAll
<1>2. QED
  BY <1>1, RejectKeeps DEF OnFatal

\* An error rejects the call it answers.
LEMMA OnErrorKeeps == ASSUME IInv, NEW answer, OnError(answer) PROVE IInv'
<1>1. {answer.id} \in SUBSET pending /\ answer.id \notin pending \ {answer.id}
  BY DEF OnError
<1>2. QED
  BY <1>1, RejectKeeps DEF OnError

\* A late answer is dropped.
LEMMA OnLateAnswerKeeps == ASSUME IInv, NEW answer, OnLateAnswer(answer) PROVE IInv'
<1>1. {} \in SUBSET pending /\ pending' = pending \ {} /\ answer.id \notin pending \ {}
  BY DEF OnLateAnswer, pageVars
<1>2. RejectCalls({})
  <2>1. /\ step = [s \in Sessions |-> step[s]]
        /\ awaits = [s \in Sessions |-> awaits[s]]
    BY DEF IInv, TypeOK
  <2>2. QED
    BY <2>1 DEF OnLateAnswer, pageVars, RejectCalls
<1>3. QED
  BY <1>1, <1>2, RejectKeeps DEF OnLateAnswer, pageVars

\* A chain whose call is resolved either calls again, or ends its event with no
\* call under way.
LEMMA Continues ==
    ASSUME IInv, NEW answer \in AnswerSet(reqId), NEW s \in Sessions, Continue(s, answer)
    PROVE  /\ \/ \E fn \in WasmFunctions : WasmCall(s, fn, pending \ {answer.id})
              \/ /\ \E to \in {"peer", "keyed"} : step' = [step EXCEPT ![s] = to]
                 /\ awaits' = [awaits EXCEPT ![s] = 0]
                 /\ pending' = pending \ {answer.id}
                 /\ UNCHANGED <<reqId, inbox>>
           /\ key' \in [Sessions -> Keys]
<1>1. key \in [Sessions -> Keys] /\ answer.key \in Keys
  BY DEF IInv, TypeOK, AnswerSet
<1>2. /\ "wasmGetPAKEMessage" \in WasmFunctions
      /\ "wasmGetSessionKey" \in WasmFunctions
  BY DEF WasmFunctions, Exchange
<1>3. QED
  BY <1>1, <1>2 DEF Continue

\* A result resolves its call, and the chain goes on.
LEMMA OnResultKeeps == ASSUME IInv, NEW answer, OnResult(answer) PROVE IInv'
<1>1. /\ answer = outbox[1] /\ answer \in AnswerSet(reqId)
      /\ Len(outbox) \in Nat \ {0}
      /\ 1 <= Len(outbox)
      /\ Len(outbox') = Len(outbox) - 1
      /\ \A k \in 1..Len(outbox') : outbox'[k] = outbox[k + 1]
      /\ outbox' \in Seq(AnswerSet(reqId))
  BY TakeFirst DEF OnResult
<1>2. /\ UNCHANGED <<role, rejected, overlapped>>
      /\ UNCHANGED <<running, startup, loads, ready, pake, ran>>
      /\ resolved' = resolved \cup {answer.id}
      /\ answer.id \in pending
  BY DEF OnResult, workerVars
<1>3. PICK s \in Sessions : awaits[s] = answer.id /\ Continue(s, answer)
  BY DEF OnResult
<1> DEFINE rest == pending \ {answer.id}
<1>4. key' \in [Sessions -> Keys]
  BY <1>1, <1>3, Continues
<1>5. /\ reqId \in Nat /\ pending \subseteq 1..reqId /\ Len(inbox) \in Nat
      /\ answer.id \in 1..reqId
      /\ \A p \in Sessions : awaits[p] \in (IF step[p] \in WasmFunctions THEN pending ELSE {0})
  BY <1>2, QueueNumbers DEF IInv, TypeOK
<1>6. role \in Sessions
  <2>1. step[s] # "off"
    BY <1>3, <1>5 DEF WasmFunctions, Exchange
  <2>2. QED
    BY <2>1 DEF IInv, Roled
<1>7. /\ ran' \subseteq 1..reqId /\ resolved' \subseteq 1..reqId /\ rejected' \subseteq 1..reqId
      /\ role' \in Sessions \cup {None}
      /\ running' \in BOOLEAN /\ startup' \in BOOLEAN /\ loads' \in 0..1
      /\ ready' \in BOOLEAN /\ overlapped' \in BOOLEAN
      /\ pake' \in [by : Sessions \cup {None}, role : Sessions \cup {None}, complete : BOOLEAN]
  BY <1>2, <1>5 DEF IInv, TypeOK
<1>8. OneLoad'
  BY <1>2 DEF IInv, OneLoad
<1>9. \A p \in Sessions : p # s => awaits[p] # answer.id
  BY <1>3, <1>5 DEF IInv, Separate, Sessions
<1>10. CASE \E fn \in WasmFunctions : WasmCall(s, fn, rest)
  <2>1. PICK fn \in WasmFunctions : WasmCall(s, fn, rest)
    BY <1>10
  <2>2. /\ reqId' = reqId + 1
        /\ \A p \in Sessions :
              awaits'[p] \in (IF step'[p] \in WasmFunctions THEN pending' ELSE {0})
        /\ step' \in [Sessions -> Steps]
        /\ awaits' \in [Sessions -> Nat]
        /\ Separate'
        /\ reqId' \in Nat
        /\ pending' = rest \cup {reqId + 1}
        /\ pending' \subseteq 1..reqId'
        /\ inbox' \in Seq(CallSet(reqId'))
        /\ Len(inbox') = Len(inbox) + 1
        /\ \A k \in 1..Len(inbox) : inbox'[k] = inbox[k]
        /\ inbox'[Len(inbox) + 1].id = reqId + 1
        /\ inbox' # <<>>
    <3>1. /\ rest \in SUBSET pending /\ rest = pending \ {awaits[s]}
          /\ awaits[s] \notin rest /\ awaits[s] \in (pending \ rest) \cup {0}
      BY <1>2, <1>3
    <3>2. QED
      BY <1>6, <2>1, <3>1, WasmCallKeeps
  <2>3. TypeOK'
    <3>1. outbox' \in Seq(AnswerSet(reqId'))
      <4>1. AnswerSet(reqId) \subseteq AnswerSet(reqId')
        BY <1>5, <2>2 DEF AnswerSet
      <4>2. QED
        BY <1>1, <4>1, Widened
    <3>2. ran' \subseteq 1..reqId' /\ resolved' \subseteq 1..reqId' /\ rejected' \subseteq 1..reqId'
      <4>1. 1..reqId \subseteq 1..reqId'
        BY <1>5, <2>2
      <4>2. QED
        BY <1>7, <4>1
    <3>3. QED
      BY <1>4, <1>7, <2>2, <3>1, <3>2 DEF TypeOK, CallSet, AnswerSet
  <2>4. Roled'
    BY <1>2, <1>6, <2>2 DEF Roled
  <2>5. /\ 1 \in 0..1 /\ ran' = ran
        /\ 1 = 1 => inbox'[Len(inbox) + 1].id = reqId + 1
        /\ \A i \in pending' : \/ 1 = 1 /\ i = reqId + 1
                               \/ i \in pending /\ (1 = 1 => i # outbox[1].id)
    BY <1>1, <1>2, <2>2
  <2>6. /\ Ordered'
        /\ \A i \in pending' : \/ \E k \in 1..Len(outbox') : outbox'[k].id = i
                               \/ \E k \in 1..Len(inbox') : inbox'[k].id = i
        /\ \A k \in 1..Len(outbox') : outbox'[k].ok => outbox'[k].id \in ran'
    BY <1>1, <2>2, <2>5, PageQueues
  <2>7. pending' = (1..reqId') \ (resolved' \cup rejected')
    <3>1. 1..reqId' = (1..reqId) \cup {reqId + 1}
      BY <1>5, <2>2
    <3>2. reqId + 1 \notin resolved' \cup rejected'
      BY <1>5, <1>7
    <3>3. QED
      BY <1>2, <2>2, <3>1, <3>2 DEF IInv, Accounted
  <2>8. QED
    BY <1>8, <2>2, <2>3, <2>4, <2>6, <2>7 DEF IInv, Accounted
<1>11. CASE /\ \E to \in {"peer", "keyed"} : step' = [step EXCEPT ![s] = to]
            /\ awaits' = [awaits EXCEPT ![s] = 0]
            /\ pending' = rest
            /\ UNCHANGED <<reqId, inbox>>
  <2>1. PICK to \in {"peer", "keyed"} : step' = [step EXCEPT ![s] = to]
    BY <1>11
  <2>2. to \in Steps /\ to \notin WasmFunctions
    BY DEF Steps, WasmFunctions, Exchange
  <2>3. /\ step' \in [Sessions -> Steps] /\ step'[s] = to
        /\ awaits' \in [Sessions -> Nat] /\ awaits'[s] = 0
        /\ \A p \in Sessions : p # s => step'[p] = step[p] /\ awaits'[p] = awaits[p]
    BY <1>11, <2>1, <2>2 DEF IInv, TypeOK
  <2>4. \A p \in Sessions :
          awaits'[p] \in (IF step'[p] \in WasmFunctions THEN pending' ELSE {0})
    BY <1>5, <1>9, <1>11, <2>2, <2>3
  <2>5. TypeOK'
    <3>1. /\ inbox' \in Seq([id : 1..reqId', by : Sessions, fn : WasmFunctions, role : Sessions])
          /\ outbox' \in Seq([id : 0..reqId', ok : BOOLEAN, key : Keys])
          /\ pending' \subseteq 1..reqId' /\ reqId' \in Nat
      BY <1>1, <1>11 DEF IInv, TypeOK, AnswerSet
    <3>2. QED
      BY <1>4, <1>7, <1>11, <2>3, <2>4, <3>1 DEF TypeOK
  <2>6. Roled' /\ Separate'
    BY <1>2, <1>6, <1>11, <2>3 DEF IInv, Roled, Separate, Sessions
  <2>7. /\ 0 \in 0..1 /\ 1 \in 0..1 /\ ran' = ran
        /\ Len(inbox') = Len(inbox) + 0
        /\ \A k \in 1..Len(inbox) : inbox'[k] = inbox[k]
        /\ 0 = 1 => inbox'[Len(inbox) + 1].id = reqId + 1
        /\ \A i \in pending' : \/ 0 = 1 /\ i = reqId + 1
                               \/ i \in pending /\ (1 = 1 => i # outbox[1].id)
    BY <1>1, <1>2, <1>5, <1>11
  <2>8. /\ Ordered'
        /\ \A i \in pending' : \/ \E k \in 1..Len(outbox') : outbox'[k].id = i
                               \/ \E k \in 1..Len(inbox') : inbox'[k].id = i
        /\ \A k \in 1..Len(outbox') : outbox'[k].ok => outbox'[k].id \in ran'
    BY <1>1, <2>7, PageQueues
  <2>9. pending' = (1..reqId') \ (resolved' \cup rejected')
    BY <1>2, <1>11 DEF IInv, Accounted
  <2>10. QED
    BY <1>8, <2>5, <2>6, <2>8, <2>9 DEF IInv, Accounted
<1>12. QED
  BY <1>1, <1>3, <1>10, <1>11, Continues

-----------------------------------------------------------------------------
(* Each step of the worker                                                   *)

\* What the worker does to the queues: it finishes t calls, the first one, whose
\* answer is the last message it posts; any other one is the fatal message.
LEMMA WorkerQueues ==
    ASSUME IInv, NEW t \in 0..1, t <= Len(inbox),
           Len(inbox') = Len(inbox) - t,
           \A k \in 1..Len(inbox') : inbox'[k] = inbox[k + t],
           Len(outbox') \in Nat, Len(outbox) + t <= Len(outbox'),
           \A k \in 1..Len(outbox) : outbox'[k] = outbox[k],
           \A k \in (Len(outbox) + 1)..Len(outbox') :
                outbox'[k].id = IF t = 1 /\ k = Len(outbox') THEN inbox[1].id ELSE 0,
           \A k \in (Len(outbox) + 1)..Len(outbox') : outbox'[k].ok => outbox'[k].id \in ran',
           ran \subseteq ran', \A i \in ran' : i \in ran \/ (t = 1 /\ i = inbox[1].id),
           UNCHANGED <<pending, reqId, resolved, rejected>>
    PROVE  Ordered' /\ Accounted'
<1>1. /\ reqId \in Nat /\ Len(inbox) \in Nat /\ Len(outbox) \in Nat
      /\ \A k \in 1..Len(inbox) : inbox[k].id \in 1..reqId
      /\ \A k \in 1..Len(outbox) : outbox[k].id \in 0..reqId
  BY QueueNumbers
<1>2. \A k \in 1..Len(inbox') : k + t \in 1..Len(inbox) /\ inbox'[k] = inbox[k + t]
  BY <1>1
<1>3. \A k \in 1..Len(outbox') : \/ k \in 1..Len(outbox) /\ outbox'[k] = outbox[k]
                                 \/ k \in (Len(outbox) + 1)..Len(outbox')
  BY <1>1
<1>4. t = 1 => 1 \in 1..Len(inbox)
  BY <1>1
<1>5. t = 1 => \A k \in 1..Len(inbox') : inbox[1].id < inbox'[k].id
  <2> SUFFICES ASSUME t = 1, NEW k \in 1..Len(inbox') PROVE inbox[1].id < inbox'[k].id
    OBVIOUS
  <2>1. k + 1 \in 1..Len(inbox) /\ 1 < k + 1 /\ inbox'[k] = inbox[k + 1]
    BY <1>1, <1>2
  <2>2. QED
    BY <1>4, <2>1 DEF IInv, Ordered
<1>6. Ordered'
  <2>1. ASSUME NEW j \in 1..Len(inbox'), NEW k \in 1..Len(inbox'), j < k
        PROVE  inbox'[j].id < inbox'[k].id
    <3>1. j + t < k + t
      BY <1>1, <2>1
    <3>2. QED
      BY <1>2, <3>1 DEF IInv, Ordered
  <2>2. ASSUME NEW j \in 1..Len(outbox'), NEW k \in 1..Len(inbox')
        PROVE  outbox'[j].id < inbox'[k].id
    <3>1. k + t \in 1..Len(inbox) /\ inbox'[k] = inbox[k + t] /\ inbox'[k].id \in 1..reqId
      BY <1>1, <1>2
    <3>2. CASE j \in 1..Len(outbox) /\ outbox'[j] = outbox[j]
      BY <3>1, <3>2 DEF IInv, Ordered
    <3>3. CASE j \in (Len(outbox) + 1)..Len(outbox')
      BY <1>1, <1>5, <3>1, <3>3
    <3>4. QED
      BY <1>3, <3>2, <3>3
  <2>3. ASSUME NEW j \in 1..Len(outbox'), NEW k \in 1..Len(outbox'),
               j < k, outbox'[k].id # 0
        PROVE  outbox'[j].id < outbox'[k].id
    <3>1. CASE k \in 1..Len(outbox) /\ outbox'[k] = outbox[k]
      <4>1. j \in 1..Len(outbox) /\ outbox'[j] = outbox[j]
        BY <1>1, <2>3, <3>1
      <4>2. QED
        BY <2>3, <3>1, <4>1 DEF IInv, Ordered
    <3>2. CASE k \in (Len(outbox) + 1)..Len(outbox')
      <4>1. t = 1 /\ k = Len(outbox') /\ outbox'[k].id = inbox[1].id
        BY <2>3, <3>2
      <4>2. CASE j \in 1..Len(outbox) /\ outbox'[j] = outbox[j]
        BY <1>4, <4>1, <4>2 DEF IInv, Ordered
      <4>3. CASE j \in (Len(outbox) + 1)..Len(outbox')
        <5>1. outbox'[j].id = 0
          BY <1>1, <2>3, <4>1, <4>3
        <5>2. QED
          BY <1>1, <1>4, <4>1, <5>1
      <4>4. QED
        BY <1>3, <4>2, <4>3
    <3>3. QED
      BY <1>3, <3>1, <3>2
  <2>4. ASSUME NEW i \in ran', NEW k \in 1..Len(inbox') PROVE i < inbox'[k].id
    <3>1. CASE i \in ran
      BY <1>2, <3>1 DEF IInv, Ordered
    <3>2. CASE t = 1 /\ i = inbox[1].id
      BY <1>5, <3>2
    <3>3. QED
      BY <3>1, <3>2
  <2>5. QED
    BY <2>1, <2>2, <2>3, <2>4 DEF Ordered
<1>7. ASSUME NEW i \in pending'
      PROVE  \/ \E k \in 1..Len(outbox') : outbox'[k].id = i
             \/ \E k \in 1..Len(inbox') : inbox'[k].id = i
  <2>1. CASE \E k \in 1..Len(outbox) : outbox[k].id = i
    BY <1>1, <2>1
  <2>2. CASE \E k \in 1..Len(inbox) : inbox[k].id = i
    <3>1. PICK k \in 1..Len(inbox) : inbox[k].id = i
      BY <2>2
    <3>2. CASE t = 1 /\ k = 1
      <4>1. /\ Len(outbox') \in 1..Len(outbox')
            /\ Len(outbox') \in (Len(outbox) + 1)..Len(outbox')
        BY <1>1, <3>2
      <4>2. QED
        BY <3>1, <3>2, <4>1
    <3>3. CASE ~(t = 1 /\ k = 1)
      <4>1. k - t \in 1..Len(inbox') /\ (k - t) + t = k
        BY <1>1, <3>1, <3>3
      <4>2. QED
        BY <1>2, <3>1, <4>1
    <3>4. QED
      BY <3>2, <3>3
  <2>3. QED
    BY <1>7, <2>1, <2>2 DEF IInv, Accounted
<1>8. \A k \in 1..Len(outbox') : outbox'[k].ok => outbox'[k].id \in ran'
  BY <1>3 DEF IInv, Accounted
<1>9. QED
  BY <1>6, <1>7, <1>8 DEF IInv, Accounted

\* ensureWasm joins the load that is under way.
LEMMA BeginKeeps == ASSUME IInv, Begin PROVE IInv'
<1>1. /\ UNCHANGED pageVars /\ UNCHANGED <<startup, ready, pake, ran, inbox, outbox>>
      /\ running' /\ inbox # <<>>
      /\ loads' = IF ready \/ loads > 0 THEN loads ELSE 1
  BY DEF Begin, EnsureWasm
<1>2. loads' \in 0..1 /\ OneLoad'
  BY <1>1 DEF IInv, TypeOK, OneLoad
<1>3. TypeOK'
  <2>1. running' \in BOOLEAN
    BY DEF Begin
  <2>2. QED
    BY <1>1, <1>2, <2>1 DEF IInv, TypeOK, pageVars
<1>4. Roled' /\ Separate' /\ Ordered' /\ Accounted'
  BY <1>1 DEF IInv, Roled, Separate, Ordered, Accounted, pageVars
<1>5. QED
  BY <1>2, <1>3, <1>4 DEF IInv

\* The only load ends: there was no exchange to lose.
LEMMA LoadedKeeps == ASSUME IInv, Loaded PROVE IInv'
<1>1. /\ UNCHANGED pageVars /\ UNCHANGED <<running, ran, inbox, outbox>>
      /\ startup' = FALSE /\ ready' = TRUE /\ pake' = NoPake
      /\ loads > 0 /\ loads' = loads - 1
  BY DEF Loaded
<1>2. loads' \in 0..1 /\ OneLoad'
  BY <1>1 DEF IInv, TypeOK, OneLoad
<1>3. TypeOK'
  <2>1. pake' \in [by : Sessions \cup {None}, role : Sessions \cup {None}, complete : BOOLEAN]
    BY <1>1 DEF NoPake
  <2>2. startup' \in BOOLEAN /\ ready' \in BOOLEAN
    BY <1>1
  <2>3. QED
    BY <1>1, <1>2, <2>1, <2>2 DEF IInv, TypeOK, pageVars
<1>4. Roled' /\ Separate' /\ Ordered' /\ Accounted'
  BY <1>1 DEF IInv, Roled, Separate, Ordered, Accounted, pageVars
<1>5. QED
  BY <1>2, <1>3, <1>4 DEF IInv

\* The fatal message comes before the answer to the call that waits for the load.
LEMMA FailuresPosted ==
    ASSUME IInv
    PROVE  /\ Failures \in Seq(AnswerSet(reqId))
           /\ \A k \in 1..Len(Failures) :
                /\ ~Failures[k].ok
                /\ Failures[k].id = IF running /\ k = Len(Failures) THEN inbox[1].id ELSE 0
           /\ running => 1 <= Len(Failures)
<1>1. NoKey \in Keys
  BY DEF NoKey, Keys
<1>2. reqId \in Nat /\ Fatal \in AnswerSet(reqId) /\ Fatal.id = 0 /\ Fatal.ok = FALSE
  BY <1>1, QueueNumbers DEF Fatal, Answer, AnswerSet
<1>3. CASE running
  <2> DEFINE answer == Answer(Head(inbox).id, FALSE, NoKey)
  <2>1. inbox # <<>> /\ inbox \in Seq(CallSet(reqId))
    BY <1>3 DEF IInv, Roled, TypeOK, CallSet
  <2>2. Head(inbox) = inbox[1] /\ inbox[1] \in CallSet(reqId)
    BY <2>1, Taken
  <2>3. answer \in AnswerSet(reqId) /\ answer.id = inbox[1].id /\ answer.ok = FALSE
    BY <1>1, <1>2, <2>2 DEF Answer, AnswerSet, CallSet
  <2> HIDE DEF answer
  <2>4. Failures = (IF startup THEN <<Fatal>> ELSE <<>>) \o <<answer>>
    BY <1>3 DEF Failures, answer
  <2>5. CASE startup
    <3>1. Failures = <<Fatal>> \o <<answer>>
      BY <2>4, <2>5
    <3>2. QED
      BY <1>2, <1>3, <2>3, <3>1
  <2>6. CASE ~startup
    <3>1. Failures = <<answer>>
      BY <2>4, <2>6
    <3>2. QED
      BY <1>2, <1>3, <2>3, <3>1
  <2>7. QED
    BY <2>5, <2>6
<1>4. CASE ~running
  <2>1. Failures = IF startup THEN <<Fatal>> ELSE <<>>
    BY <1>4 DEF Failures
  <2>2. QED
    BY <1>2, <1>4, <2>1
<1>5. QED
  BY <1>3, <1>4

\* What appending messages to a queue keeps.
LEMMA PostedAll ==
    ASSUME NEW S, NEW q \in Seq(S), NEW r \in Seq(S)
    PROVE  /\ q \o r \in Seq(S)
           /\ Len(q \o r) = Len(q) + Len(r)
           /\ \A k \in 1..Len(q) : (q \o r)[k] = q[k]
           /\ \A k \in (Len(q) + 1)..(Len(q) + Len(r)) : (q \o r)[k] = r[k - Len(q)]
  OBVIOUS

\* A load fails: those who wait for it are answered.
LEMMA LoadFailsKeeps == ASSUME IInv, LoadFails PROVE IInv'
<1>1. /\ UNCHANGED pageVars /\ UNCHANGED <<ready, pake, ran>>
      /\ running' = FALSE /\ startup' = FALSE
      /\ loads > 0 /\ loads' = loads - 1
      /\ outbox' = outbox \o Failures
      /\ inbox' = IF running THEN Tail(inbox) ELSE inbox
  BY DEF LoadFails
<1>2. loads' \in 0..1 /\ OneLoad'
  BY <1>1 DEF IInv, TypeOK, OneLoad
<1>3. inbox \in Seq(CallSet(reqId)) /\ outbox \in Seq(AnswerSet(reqId))
  BY DEF IInv, TypeOK, CallSet, AnswerSet
<1>4. /\ outbox' \in Seq(AnswerSet(reqId))
      /\ Len(outbox') = Len(outbox) + Len(Failures)
      /\ \A k \in 1..Len(outbox) : outbox'[k] = outbox[k]
      /\ \A k \in (Len(outbox) + 1)..(Len(outbox) + Len(Failures)) :
            outbox'[k] = Failures[k - Len(outbox)]
  BY <1>1, <1>3, FailuresPosted, PostedAll
<1> DEFINE t == IF running THEN 1 ELSE 0
<1>5. /\ t \in 0..1 /\ t <= Len(inbox) /\ Len(inbox') = Len(inbox) - t
      /\ \A k \in 1..Len(inbox') : inbox'[k] = inbox[k + t]
      /\ inbox' \in Seq(CallSet(reqId))
  <2>1. CASE running
    <3>1. inbox # <<>>
      BY <2>1 DEF IInv, Roled
    <3>2. inbox' = Tail(inbox)
      BY <1>1, <2>1
    <3>3. QED
      BY <1>3, <2>1, <3>1, <3>2, Taken
  <2>2. CASE ~running
    <3>1. inbox' = inbox /\ t = 0 /\ Len(inbox) \in Nat
      BY <1>1, <1>3, <2>2
    <3>2. QED
      BY <1>3, <3>1
  <2>3. QED
    BY <2>1, <2>2
<1>6. TypeOK'
  <2>1. /\ inbox' \in Seq([id : 1..reqId', by : Sessions, fn : WasmFunctions, role : Sessions])
        /\ outbox' \in Seq([id : 0..reqId', ok : BOOLEAN, key : Keys])
    BY <1>1, <1>4, <1>5 DEF CallSet, AnswerSet, pageVars
  <2>2. running' \in BOOLEAN /\ startup' \in BOOLEAN
    BY <1>1
  <2>3. QED
    BY <1>1, <1>2, <2>1, <2>2 DEF IInv, TypeOK, pageVars
<1>7. Roled' /\ Separate'
  BY <1>1 DEF IInv, Roled, Separate, pageVars
<1>8. Ordered' /\ Accounted'
  <2>1. /\ Len(Failures) \in Nat /\ Len(outbox) \in Nat /\ Len(outbox') \in Nat
        /\ Len(outbox) + t <= Len(outbox')
    BY <1>3, <1>4, FailuresPosted
  <2>2. ASSUME NEW k \in (Len(outbox) + 1)..Len(outbox')
        PROVE  /\ outbox'[k].id = IF t = 1 /\ k = Len(outbox') THEN inbox[1].id ELSE 0
               /\ ~outbox'[k].ok
    <3>1. k - Len(outbox) \in 1..Len(Failures) /\ outbox'[k] = Failures[k - Len(outbox)]
      BY <1>4, <2>1
    <3>2. k = Len(outbox') <=> k - Len(outbox) = Len(Failures)
      BY <1>4, <2>1
    <3>3. QED
      BY <3>1, <3>2, FailuresPosted
  <2>3. UNCHANGED <<pending, reqId, resolved, rejected>> /\ ran' = ran
    BY <1>1 DEF pageVars
  <2> HIDE DEF t
  <2>4. /\ \A k \in (Len(outbox) + 1)..Len(outbox') :
              outbox'[k].id = IF t = 1 /\ k = Len(outbox') THEN inbox[1].id ELSE 0
        /\ \A k \in (Len(outbox) + 1)..Len(outbox') :
              outbox'[k].ok => outbox'[k].id \in ran'
        /\ ran \subseteq ran'
        /\ \A i \in ran' : i \in ran \/ (t = 1 /\ i = inbox[1].id)
    BY <2>2, <2>3
  <2>5. QED
    BY <1>4, <1>5, <2>1, <2>3, <2>4, WorkerQueues
<1>9. QED
  BY <1>2, <1>6, <1>7, <1>8 DEF IInv

\* What a function answers has its types, and an exchange goes on or begins anew,
\* but is not lost.
LEMMA ResultsOf ==
    ASSUME IInv, NEW call \in CallSet(reqId), NEW result \in Results(call)
    PROVE  /\ result.ok \in BOOLEAN /\ result.key \in Keys
           /\ result.pake \in [by : Sessions \cup {None}, role : Sessions \cup {None},
                               complete : BOOLEAN]
           /\ pake # NoPake => result.pake # NoPake
<1> DEFINE Pakes == [by : Sessions \cup {None}, role : Sessions \cup {None},
                     complete : BOOLEAN]
<1>1. /\ NoKey \in Keys /\ pake \in Pakes
      /\ [by |-> pake.by, role |-> pake.role] \in Keys
  BY DEF IInv, TypeOK, NoKey, Keys
<1>2. InitPAKE(call) \in Pakes /\ InitPAKE(call) # NoPake
  <2>1. call.by \in Sessions /\ call.role \in Sessions
    BY DEF CallSet
  <2>2. InitPAKE(call).by \in Sessions /\ NoPake.by \notin Sessions
    BY <2>1 DEF InitPAKE, NoPake, Sessions, None
  <2>3. QED
    BY <2>1, <2>2 DEF InitPAKE
<1>3. /\ [pake EXCEPT !.complete = TRUE] \in Pakes
      /\ pake # NoPake => [pake EXCEPT !.complete = TRUE] # NoPake
  <2>1. /\ [pake EXCEPT !.complete = TRUE] \in Pakes
        /\ [pake EXCEPT !.complete = TRUE].complete
    BY <1>1
  <2>2. ~NoPake.complete
    BY DEF NoPake
  <2>3. QED
    BY <2>1, <2>2
<1>4. result \in {[ok |-> FALSE, key |-> NoKey, pake |-> pake],
                  [ok |-> TRUE, key |-> NoKey, pake |-> pake],
                  [ok |-> TRUE, key |-> NoKey, pake |-> InitPAKE(call)],
                  [ok |-> TRUE, key |-> NoKey, pake |-> [pake EXCEPT !.complete = TRUE]],
                  [ok |-> TRUE, key |-> [by |-> pake.by, role |-> pake.role],
                   pake |-> pake]}
  <2> USE DEF Results
  <2>1. CASE call.fn = "wasmInitPAKE"
    BY <2>1
  <2>2. CASE call.fn = "wasmGetPAKEMessage"
    BY <2>2
  <2>3. CASE call.fn = "wasmProcessPAKEMessage"
    BY <2>3
  <2>4. CASE call.fn = "wasmGetSessionKey"
    BY <2>4
  <2>5. CASE call.fn \in {"wasmEncrypt", "wasmDecrypt"}
    BY <2>5
  <2>6. QED
    BY <2>1, <2>2, <2>3, <2>4, <2>5 DEF CallSet, WasmFunctions, Exchange
<1> HIDE DEF Pakes
<1>5. CASE result = [ok |-> FALSE, key |-> NoKey, pake |-> pake]
  BY <1>1, <1>5 DEF Pakes
<1>6. CASE result = [ok |-> TRUE, key |-> NoKey, pake |-> pake]
  BY <1>1, <1>6 DEF Pakes
<1>7. CASE result = [ok |-> TRUE, key |-> NoKey, pake |-> InitPAKE(call)]
  BY <1>1, <1>2, <1>7 DEF Pakes
<1>8. CASE result = [ok |-> TRUE, key |-> NoKey, pake |-> [pake EXCEPT !.complete = TRUE]]
  BY <1>1, <1>3, <1>8 DEF Pakes
<1>9. CASE result = [ok |-> TRUE, key |-> [by |-> pake.by, role |-> pake.role],
                     pake |-> pake]
  BY <1>1, <1>9 DEF Pakes
<1>10. QED
  BY <1>4, <1>5, <1>6, <1>7, <1>8, <1>9

\* The first call runs and is answered.
LEMMA RunSteps ==
    ASSUME IInv, Run
    PROVE  /\ inbox # <<>> /\ 1 \in 1..Len(inbox) /\ inbox[1].id \in 1..reqId
           /\ ran' = ran \cup {inbox[1].id}
           /\ UNCHANGED pageVars /\ UNCHANGED <<startup, loads, ready>>
           /\ ready /\ ~running' /\ running' \in BOOLEAN
           /\ inbox' \in Seq(CallSet(reqId))
           /\ Len(inbox') = Len(inbox) - 1
           /\ \A k \in 1..Len(inbox') : inbox'[k] = inbox[k + 1]
           /\ outbox' \in Seq(AnswerSet(reqId))
           /\ Len(outbox') = Len(outbox) + 1
           /\ \A k \in 1..Len(outbox) : outbox'[k] = outbox[k]
           /\ outbox'[Len(outbox) + 1].id = inbox[1].id
           /\ pake' \in [by : Sessions \cup {None}, role : Sessions \cup {None},
                         complete : BOOLEAN]
           /\ pake # NoPake => pake' # NoPake
<1>1. inbox # <<>> /\ inbox \in Seq(CallSet(reqId)) /\ outbox \in Seq(AnswerSet(reqId))
  BY DEF IInv, Roled, TypeOK, CallSet, AnswerSet, Run
<1>2. /\ Len(inbox) \in Nat \ {0} /\ Head(inbox) = inbox[1] /\ inbox[1] \in CallSet(reqId)
      /\ Tail(inbox) \in Seq(CallSet(reqId))
      /\ Len(Tail(inbox)) = Len(inbox) - 1
      /\ \A k \in 1..(Len(inbox) - 1) : Tail(inbox)[k] = inbox[k + 1]
  BY <1>1, Taken
<1>3. /\ ran' = ran \cup {inbox[1].id} /\ inbox' = Tail(inbox)
      /\ UNCHANGED pageVars /\ UNCHANGED <<startup, loads, ready>>
      /\ ready /\ running' = FALSE
  BY <1>2 DEF Run
<1>4. PICK result \in Results(inbox[1]) :
        /\ pake' = result.pake
        /\ outbox' = Append(outbox, Answer(inbox[1].id, result.ok, result.key))
  BY <1>2 DEF Run
<1> DEFINE answer == Answer(inbox[1].id, result.ok, result.key)
<1>5. inbox[1].id \in 1..reqId /\ reqId \in Nat
  BY <1>2, QueueNumbers DEF CallSet
<1>6. /\ result.ok \in BOOLEAN /\ result.key \in Keys
      /\ result.pake \in [by : Sessions \cup {None}, role : Sessions \cup {None},
                          complete : BOOLEAN]
      /\ pake # NoPake => result.pake # NoPake
  BY <1>2, ResultsOf
<1>7. answer \in AnswerSet(reqId) /\ answer.id = inbox[1].id
  BY <1>5, <1>6 DEF Answer, AnswerSet
<1> HIDE DEF answer
<1>8. /\ outbox' \in Seq(AnswerSet(reqId))
      /\ Len(outbox') = Len(outbox) + 1
      /\ \A k \in 1..Len(outbox) : outbox'[k] = outbox[k]
      /\ outbox'[Len(outbox) + 1] = answer
  <2>1. outbox' = Append(outbox, answer)
    BY <1>4 DEF answer
  <2>2. QED
    BY <1>1, <1>7, <2>1, Posted
<1>9. /\ pake' \in [by : Sessions \cup {None}, role : Sessions \cup {None},
                      complete : BOOLEAN]
      /\ pake # NoPake => pake' # NoPake
  BY <1>4, <1>6
<1>10. /\ inbox' \in Seq(CallSet(reqId)) /\ 1 \in 1..Len(inbox)
       /\ Len(inbox') = Len(inbox) - 1
       /\ \A k \in 1..Len(inbox') : inbox'[k] = inbox[k + 1]
  BY <1>2, <1>3
<1>11. /\ ready /\ ~running' /\ running' \in BOOLEAN
       /\ UNCHANGED pageVars /\ UNCHANGED <<startup, loads, ready>>
  BY <1>3
<1>12. QED
  BY <1>1, <1>3, <1>5, <1>7, <1>8, <1>9, <1>10, <1>11

\* The worker's turn ends with the answer to its call.
LEMMA RunKeeps == ASSUME IInv, Run PROVE IInv'
<1>1. TypeOK'
  <2>1. /\ inbox' \in Seq([id : 1..reqId', by : Sessions, fn : WasmFunctions, role : Sessions])
        /\ outbox' \in Seq([id : 0..reqId', ok : BOOLEAN, key : Keys])
    BY RunSteps DEF CallSet, AnswerSet, pageVars
  <2>2. /\ ran' \subseteq 1..reqId' /\ running' \in BOOLEAN
        /\ pake' \in [by : Sessions \cup {None}, role : Sessions \cup {None},
                      complete : BOOLEAN]
    BY RunSteps DEF IInv, TypeOK, pageVars
  <2>3. QED
    BY <2>1, <2>2, RunSteps DEF IInv, TypeOK, pageVars
<1>2. OneLoad' /\ Roled' /\ Separate'
  BY RunSteps DEF IInv, OneLoad, Roled, Separate, pageVars
<1>3. Ordered' /\ Accounted'
  <2>1. Len(inbox) \in Nat /\ Len(outbox) \in Nat
    BY QueueNumbers
  <2>2. /\ 1 \in 0..1 /\ 1 <= Len(inbox)
        /\ Len(outbox') \in Nat /\ Len(outbox) + 1 <= Len(outbox')
        /\ ran \subseteq ran'
        /\ \A i \in ran' : i \in ran \/ (1 = 1 /\ i = inbox[1].id)
        /\ UNCHANGED <<pending, reqId, resolved, rejected>>
    BY <2>1, RunSteps DEF pageVars
  <2>3. \A k \in (Len(outbox) + 1)..Len(outbox') : k = Len(outbox) + 1 /\ k = Len(outbox')
    BY <2>1, RunSteps
  <2>4. /\ \A k \in (Len(outbox) + 1)..Len(outbox') :
              outbox'[k].id = IF 1 = 1 /\ k = Len(outbox') THEN inbox[1].id ELSE 0
        /\ \A k \in (Len(outbox) + 1)..Len(outbox') :
              outbox'[k].ok => outbox'[k].id \in ran'
    BY <2>3, RunSteps
  <2>5. QED
    BY <2>2, <2>4, RunSteps, WorkerQueues
<1>4. QED
  BY <1>1, <1>2, <1>3 DEF IInv

\* Nothing else changes any variable.
LEMMA StutterKeeps == ASSUME IInv, UNCHANGED vars PROVE IInv'
<1> USE DEF vars, pageVars, workerVars
<1>1. TypeOK'
  BY DEF IInv, TypeOK
<1>2. OneLoad' /\ Roled' /\ Separate'
  BY DEF IInv, OneLoad, Roled, Separate
<1>3. Ordered' /\ Accounted'
  BY DEF IInv, Ordered, Accounted
<1>4. QED
  BY <1>1, <1>2, <1>3 DEF IInv

-----------------------------------------------------------------------------
(* Theorems                                                                  *)

\* The invariant holds for any number of calls, fatal messages and failed loads.
THEOREM WorkerInvariant == Spec => []IInv
<1>1. ASSUME IInv, [Next]_vars PROVE IInv'
  <2>1. ASSUME NEW s \in Sessions, Start(s) PROVE IInv'
    BY <1>1, <2>1, StartKeeps
  <2>2. ASSUME NEW s \in Sessions, CallNext(s) PROVE IInv'
    BY <1>1, <2>2, CallNextKeeps
  <2>3. CASE OnMessage
    BY <1>1, <2>3, OnFatalKeeps, OnLateAnswerKeeps, OnErrorKeeps, OnResultKeeps DEF OnMessage
  <2>4. CASE Begin
    BY <1>1, <2>4, BeginKeeps
  <2>5. CASE Loaded
    BY <1>1, <2>5, LoadedKeeps
  <2>6. CASE LoadFails
    BY <1>1, <2>6, LoadFailsKeeps
  <2>7. CASE Run
    BY <1>1, <2>7, RunKeeps
  <2>8. CASE UNCHANGED vars
    BY <1>1, <2>8, StutterKeeps
  <2>9. QED
    BY <1>1, <2>1, <2>2, <2>3, <2>4, <2>5, <2>6, <2>7, <2>8 DEF Next
<1>2. QED
  BY <1>1, WorkerInit, PTL DEF Spec

\* Every chain that awaits a call awaits one that is pending, and at most one load
\* is under way (app.js:181-245, worker.js:36-62).
THEOREM WorkerTypeCorrect == Spec => []TypeOK
<1>1. IInv => TypeOK
  BY DEF IInv
<1>2. QED
  BY <1>1, WorkerInvariant, PTL

\* No load replaces the module in which an exchange was begun (worker.js:36-62).
THEOREM ExchangeNeverLost == Spec => ExchangeKept
<1>1. ASSUME IInv, [Next]_vars, pake # NoPake PROVE pake' # NoPake
  <2>1. CASE Loaded
    <3>1. loads > 0 /\ ready
      BY <1>1, <2>1 DEF Loaded, IInv, OneLoad
    <3>2. QED
      BY <1>1, <3>1 DEF IInv, OneLoad
  <2>2. CASE Run
    BY <1>1, <2>2, RunSteps
  <2>3. CASE UNCHANGED pake
    BY <1>1, <2>3
  <2>4. Loaded \/ Run \/ UNCHANGED pake
    BY <1>1 DEF Next, Start, CallNext, OnMessage, OnFatal, OnLateAnswer, OnError, OnResult,
                Begin, LoadFails, vars, workerVars
  <2>5. QED
    BY <2>1, <2>2, <2>3, <2>4
<1>2. QED
  BY <1>1, WorkerInvariant, PTL DEF Spec, ExchangeKept

\* A pending call has a number.
LEMMA PendingNumber ==
    ASSUME IInv, NEW i \in pending
    PROVE  i \in Nat /\ 1 <= i /\ i <= reqId /\ reqId \in Nat
<1>1. i \in 1..reqId /\ reqId \in Nat
  BY DEF IInv, TypeOK
<1>2. QED
  BY <1>1

\* An answer to a pending call is the first of all that are still to come.
LEMMA FirstAnswered ==
    ASSUME IInv, NEW answer, Take(answer), answer.id \in pending
    PROVE  \A j \in pending : answer.id <= j
<1>1. /\ answer = outbox[1] /\ 1 \in 1..Len(outbox)
      /\ answer.id \in Nat /\ \A j \in pending : j \in Nat /\ j # 0
      /\ \A k \in 1..Len(inbox) : inbox[k].id \in Nat
  BY TakeFirst, PendingNumber, QueueNumbers
<1>2. ASSUME NEW j \in pending PROVE answer.id <= j
  <2>1. CASE \E k \in 1..Len(outbox) : outbox[k].id = j
    <3>1. PICK k \in 1..Len(outbox) : outbox[k].id = j
      BY <2>1
    <3>2. CASE k = 1
      BY <1>1, <3>1, <3>2
    <3>3. CASE k # 1
      <4>1. 1 < k /\ outbox[k].id # 0
        BY <1>1, <3>1, <3>3
      <4>2. QED
        BY <1>1, <3>1, <4>1 DEF IInv, Ordered
    <3>4. QED
      BY <3>2, <3>3
  <2>2. CASE \E k \in 1..Len(inbox) : inbox[k].id = j
    BY <1>1, <2>2 DEF IInv, Ordered
  <2>3. QED
    BY <1>2, <2>1, <2>2 DEF IInv, Accounted
<1>3. QED
  BY <1>2

\* Every step of the page and the worker is one of RemoteCalls, or none.
LEMMA StepSimulates == ASSUME IInv, [Next]_vars PROVE [Calls!Next]_(Calls!vars)
<1> USE DEF Calls!vars
<1>1. Calls!Outstanding = pending
  BY DEF IInv, Accounted, Calls!Outstanding
<1>2. \A i \in pending : i \in Nat /\ 1 <= i /\ i <= reqId /\ reqId \in Nat
  BY PendingNumber
<1>3. ASSUME NEW s \in Sessions, Start(s) PROVE UNCHANGED Calls!vars
  BY <1>3 DEF Start, workerVars
<1>4. ASSUME NEW s \in Sessions, CallNext(s) PROVE Calls!Next
  <2>1. reqId' = reqId + 1 /\ UNCHANGED <<ran, resolved, rejected>>
    BY <1>4 DEF CallNext, WasmCall, workerVars
  <2>2. QED
    BY <2>1 DEF Calls!Next, Calls!Make
<1>5. CASE OnFatal
  <2>1. rejected' = rejected \cup pending /\ UNCHANGED <<reqId, ran, resolved>>
    BY <1>5 DEF OnFatal, RejectAll, RejectCalls, workerVars
  <2>2. CASE pending = {}
    BY <2>1, <2>2
  <2>3. CASE pending # {}
    <3>1. reqId \in 1..reqId /\ {j \in pending : j <= reqId} = pending
      BY <1>2, <2>3
    <3>2. Calls!RejectUpTo(reqId)
      BY <1>1, <2>1, <3>1 DEF Calls!RejectUpTo
    <3>3. QED
      BY <3>1, <3>2 DEF Calls!Next
  <2>4. QED
    BY <2>2, <2>3
<1>6. ASSUME NEW answer, OnLateAnswer(answer) PROVE UNCHANGED Calls!vars
  BY <1>6 DEF OnLateAnswer, pageVars, workerVars
<1>7. ASSUME NEW answer, OnError(answer) PROVE Calls!Next
  <2>1. /\ rejected' = rejected \cup {answer.id} /\ UNCHANGED <<reqId, ran, resolved>>
        /\ answer.id \in pending /\ Take(answer)
    BY <1>7 DEF OnError, RejectCalls, workerVars
  <2>2. {j \in pending : j <= answer.id} = {answer.id}
    <3>1. \A j \in pending : answer.id <= j
      BY <2>1, FirstAnswered
    <3>2. \A j \in pending : j <= answer.id => j = answer.id
      BY <1>2, <2>1, <3>1
    <3>3. answer.id <= answer.id
      BY <1>2, <2>1
    <3>4. QED
      BY <2>1, <3>2, <3>3
  <2>3. Calls!RejectUpTo(answer.id)
    BY <1>1, <2>1, <2>2 DEF Calls!RejectUpTo
  <2>4. QED
    BY <1>2, <2>1, <2>3 DEF Calls!Next
<1>8. ASSUME NEW answer, OnResult(answer) PROVE Calls!Next
  <2>1. /\ resolved' = resolved \cup {answer.id} /\ UNCHANGED <<ran, rejected>>
        /\ answer.id \in pending /\ Take(answer) /\ answer.ok
    BY <1>8 DEF OnResult, workerVars
  <2>2. answer \in AnswerSet(reqId) /\ answer = outbox[1] /\ 1 \in 1..Len(outbox)
    BY <2>1, TakeFirst
  <2>3. answer.id \in ran
    BY <2>1, <2>2 DEF IInv, Accounted
  <2>4. \A j \in pending : answer.id <= j
    BY <2>1, FirstAnswered
  <2>5. reqId' \in {reqId, reqId + 1}
    <3>1. PICK s \in Sessions : Continue(s, answer)
      BY <1>8 DEF OnResult
    <3>2. QED
      BY <2>2, <3>1, Continues DEF WasmCall
  <2>6. Calls!Resolve(answer.id)
    BY <1>1, <2>1, <2>3, <2>4, <2>5 DEF Calls!Resolve
  <2>7. QED
    BY <1>1, <2>1, <2>6 DEF Calls!Next
<1>9. CASE Begin \/ Loaded \/ LoadFails
  BY <1>9 DEF Begin, Loaded, LoadFails, pageVars
<1>10. CASE Run
  <2>1. /\ ran' = ran \cup {inbox[1].id} /\ UNCHANGED <<reqId, resolved, rejected>>
        /\ inbox[1].id \in 1..reqId /\ 1 \in 1..Len(inbox)
    BY <1>10, RunSteps DEF pageVars
  <2>2. \A j \in ran : j < inbox[1].id
    BY <2>1 DEF IInv, Ordered
  <2>3. Calls!Run(inbox[1].id)
    BY <2>1, <2>2 DEF Calls!Run
  <2>4. QED
    BY <2>1, <2>3 DEF Calls!Next
<1>11. CASE UNCHANGED vars
  BY <1>11 DEF vars, pageVars, workerVars
<1>12. QED
  BY <1>3, <1>4, <1>5, <1>6, <1>7, <1>8, <1>9, <1>10, <1>11 DEF Next, OnMessage

\* The queue of calls, the shared load, the fatal message and late answers give the
\* page the calls of RemoteCalls, in any interleaving (app.js:181-245,
\* worker.js:64-92).
THEOREM CallsImplemented == Spec => ImplementsCalls
<1>1. Init => Calls!Init
  BY DEF Init, Calls!Init
<1>2. QED
  BY <1>1, StepSimulates, WorkerInvariant, PTL DEF Spec, ImplementsCalls, Calls!Spec

-----------------------------------------------------------------------------
(* Whose exchange a key comes from                                           *)

\* Where a chain is that is not in the middle of an exchange.
Over == {"off", "keyed", "failed", "wasmEncrypt", "wasmDecrypt"}

\* A call says who made it and for which step of the chain.
Tagged ==
    \A s \in Sessions, k \in 1..Len(inbox) :
        /\ step[s] = "off" => inbox[k].by # s
        /\ inbox[k].id = awaits[s] => inbox[k].by = s /\ inbox[k].fn = step[s]

\* The session's exchange is the one in the module.
Began(s) ==
    \/ step[s] \in {"wasmGetPAKEMessage", "peer", "wasmProcessPAKEMessage", "wasmGetSessionKey"}
    \/ step[s] = "wasmInitPAKE" /\ awaits[s] \in ran

\* The other session is over, its calls on the exchange run before any of this
\* session's, and none of them is left once this one has begun its own.
Alone(s) ==
    /\ step[Other(s)] \in Over
    /\ \A k \in 1..Len(inbox) : inbox[k].by = s => inbox[k].role = s
    /\ \A j, k \in 1..Len(inbox) :
          inbox[j].by = Other(s) /\ inbox[j].fn \in Exchange /\ inbox[k].by = s => j < k
    /\ Began(s) =>
          /\ pake.by = s /\ pake.role = s
          /\ \A k \in 1..Len(inbox) : inbox[k].by = s \/ inbox[k].fn \notin Exchange
    /\ step[s] = "wasmGetSessionKey" =>
          \A k \in 1..Len(outbox) : outbox[k].id = awaits[s] /\ outbox[k].ok =>
              outbox[k].key = [by |-> s, role |-> s]

Undisturbed == ~overlapped /\ role # None => Alone(role)

KeyInv == Tagged /\ Undisturbed /\ OwnKeyUnlessOverlapped

\* An event of the page that makes no call: chains stay where they are, end, or
\* wait for the peer's message.
LEMMA PageRests ==
    ASSUME IInv, KeyInv, NEW d \in 0..1, d <= Len(outbox),
           Len(outbox') = Len(outbox) - d,
           \A k \in 1..Len(outbox') : outbox'[k] = outbox[k + d],
           UNCHANGED <<inbox, role, overlapped, pake, ran>>,
           \A p \in Sessions :
              \/ step'[p] = step[p] /\ awaits'[p] = awaits[p]
              \/ awaits'[p] = 0 /\ step'[p] \in {"failed", "keyed"}
              \/ awaits'[p] = 0 /\ step'[p] = "peer" /\ (~overlapped => p = role /\ Began(p))
    PROVE  Tagged' /\ Undisturbed'
<1>1. /\ Len(inbox) \in Nat /\ Len(outbox) \in Nat
      /\ \A k \in 1..Len(inbox) : inbox[k].id # 0
  BY QueueNumbers
<1>2. Tagged'
  BY <1>1 DEF KeyInv, Tagged
<1>3. ASSUME ~overlapped, role # None PROVE Alone(role)'
  <2>1. role \in Sessions /\ Alone(role) /\ Other(role) \in Sessions /\ Other(role) # role
    BY <1>3 DEF KeyInv, Undisturbed, IInv, TypeOK, Other, Sessions
  <2>2. Other(role)' = Other(role) /\ role' = role
    BY DEF Other
  <2>3. step'[Other(role)] \in Over
    BY <1>3, <2>1 DEF Alone, Over
  <2>4. Began(role)' => Began(role)
    <3>1. CASE step'[role] = step[role] /\ awaits'[role] = awaits[role]
      BY <3>1 DEF Began
    <3>2. CASE step'[role] \in {"failed", "keyed"}
      BY <3>2 DEF Began
    <3>3. CASE Began(role)
      BY <3>3
    <3>4. QED
      BY <1>3, <2>1, <3>1, <3>2, <3>3
  <2>5. ASSUME step'[role] = "wasmGetSessionKey", NEW k \in 1..Len(outbox'),
               outbox'[k].id = awaits'[role], outbox'[k].ok
        PROVE  outbox'[k].key = [by |-> role, role |-> role]
    <3>1. k + d \in 1..Len(outbox) /\ outbox'[k] = outbox[k + d]
      BY <1>1
    <3>2. step[role] = "wasmGetSessionKey" /\ awaits'[role] = awaits[role]
      BY <2>1, <2>5
    <3>3. QED
      BY <2>1, <2>5, <3>1, <3>2 DEF Alone
  <2>6. QED
    BY <2>1, <2>2, <2>3, <2>4, <2>5 DEF Alone
<1>4. QED
  BY <1>2, <1>3 DEF Undisturbed

\* An event of the page that makes a call, for the session that was started last if
\* the call is about the exchange.
LEMMA PageCalls ==
    ASSUME IInv, KeyInv, NEW d \in 0..1, d <= Len(outbox),
           Len(outbox') = Len(outbox) - d,
           \A k \in 1..Len(outbox') : outbox'[k] = outbox[k + d],
           UNCHANGED <<role, overlapped, pake, ran>>,
           NEW s \in Sessions, NEW fn \in WasmFunctions, NEW rest, WasmCall(s, fn, rest),
           ~overlapped /\ fn \in Exchange => s = role,
           ~overlapped /\ fn \in Exchange \ {"wasmInitPAKE"} => Began(s)
    PROVE  Tagged' /\ Undisturbed'
<1>1. /\ reqId \in Nat /\ Len(inbox) \in Nat /\ Len(outbox) \in Nat
      /\ \A k \in 1..Len(inbox) : inbox[k].id \in 1..reqId
      /\ \A k \in 1..Len(outbox) : outbox[k].id \in 0..reqId
      /\ \A i \in ran : i \in 1..reqId
  BY QueueNumbers
<1>2. /\ inbox \in Seq(CallSet(reqId))
      /\ step \in [Sessions -> Steps] /\ awaits \in [Sessions -> Nat]
      /\ \A p \in Sessions : awaits[p] \in 0..reqId
  <2>1. /\ inbox \in Seq(CallSet(reqId))
        /\ step \in [Sessions -> Steps] /\ awaits \in [Sessions -> Nat]
    BY DEF IInv, TypeOK, CallSet
  <2>2. pending \subseteq 1..reqId
        /\ \A p \in Sessions : awaits[p] \in (IF step[p] \in WasmFunctions THEN pending ELSE {0})
    BY DEF IInv, TypeOK
  <2>3. QED
    BY <1>1, <2>1, <2>2
<1> DEFINE call == Call(reqId + 1, s, fn)
<1>3. call.id = reqId + 1 /\ call.by = s /\ call.fn = fn /\ call.role = role
  BY DEF Call
<1>4. inbox' = Append(inbox, call) /\ reqId' = reqId + 1
  BY DEF WasmCall
<1> HIDE DEF call
<1>5. /\ Len(inbox') = Len(inbox) + 1
      /\ \A k \in 1..Len(inbox) : inbox'[k] = inbox[k]
      /\ inbox'[Len(inbox) + 1] = call
  BY <1>2, <1>4
<1>6. /\ step'[s] = fn /\ awaits'[s] = reqId + 1
      /\ \A p \in Sessions : p # s => step'[p] = step[p] /\ awaits'[p] = awaits[p]
  BY <1>2, <1>4 DEF WasmCall
<1>7. \A k \in 1..Len(inbox') : \/ k \in 1..Len(inbox) /\ inbox'[k] = inbox[k]
                                \/ k = Len(inbox) + 1 /\ inbox'[k] = call
  BY <1>1, <1>5
<1>8. ASSUME NEW p \in Sessions, NEW k \in 1..Len(inbox')
      PROVE  /\ step'[p] = "off" => inbox'[k].by # p
             /\ inbox'[k].id = awaits'[p] => inbox'[k].by = p /\ inbox'[k].fn = step'[p]
  <2>0. fn # "off"
    BY DEF WasmFunctions, Exchange
  <2>1. CASE p = s
    <3>1. step'[p] = fn /\ awaits'[p] = reqId + 1
      BY <1>6, <2>1
    <3>2. inbox'[k].id = reqId + 1 => inbox'[k] = call
      BY <1>1, <1>7
    <3>3. QED
      BY <1>3, <2>0, <2>1, <3>1, <3>2
  <2>2. CASE p # s
    <3>1. step'[p] = step[p] /\ awaits'[p] = awaits[p] /\ awaits[p] # reqId + 1
      BY <1>1, <1>2, <1>6, <2>2
    <3>2. QED
      BY <1>3, <1>7, <2>2, <3>1 DEF KeyInv, Tagged
  <2>3. QED
    BY <2>1, <2>2
<1>9. Tagged'
  BY <1>8 DEF Tagged
<1>10. ASSUME ~overlapped, role # None PROVE Alone(role)'
  <2>1. role \in Sessions /\ Alone(role) /\ Other(role) \in Sessions /\ Other(role) # role
    BY <1>10 DEF KeyInv, Undisturbed, IInv, TypeOK, Other, Sessions
  <2>2. Other(role)' = Other(role) /\ role' = role
    BY DEF Other
  <2>3. fn \in Exchange => s = role
    BY <1>10
  <2>4. step'[Other(role)] \in Over
    <3>1. CASE s = role
      BY <1>6, <2>1, <3>1 DEF Alone
    <3>2. CASE s # role
      <4>1. fn \in {"wasmEncrypt", "wasmDecrypt"}
        BY <2>3, <3>2 DEF WasmFunctions
      <4>2. s = Other(role)
        BY <2>1, <3>2 DEF Other, Sessions
      <4>3. QED
        BY <1>6, <4>1, <4>2 DEF Over
    <3>3. QED
      BY <3>1, <3>2
  <2>5. \A k \in 1..Len(inbox') : inbox'[k].by = role => inbox'[k].role = role
    BY <1>3, <1>7, <2>1 DEF Alone
  <2>6. ASSUME NEW j \in 1..Len(inbox'), NEW k \in 1..Len(inbox'),
               inbox'[j].by = Other(role), inbox'[j].fn \in Exchange, inbox'[k].by = role
        PROVE  j < k
    <3>1. j \in 1..Len(inbox) /\ inbox'[j] = inbox[j]
      BY <1>3, <1>7, <2>1, <2>3, <2>6
    <3>2. CASE k \in 1..Len(inbox) /\ inbox'[k] = inbox[k]
      BY <2>1, <2>6, <3>1, <3>2 DEF Alone
    <3>3. CASE k = Len(inbox) + 1
      BY <1>1, <3>1, <3>3
    <3>4. QED
      BY <1>7, <3>2, <3>3
  <2>7. Began(role)' => Began(role)
    <3>1. CASE s = role
      <4>1. CASE fn = "wasmInitPAKE"
        <5>1. reqId + 1 \notin ran
          BY <1>1
        <5>2. step'[role] = "wasmInitPAKE" /\ awaits'[role] \notin ran' /\ role' = role
          BY <1>6, <3>1, <4>1, <5>1
        <5>3. QED
          BY <5>2 DEF Began
      <4>2. CASE fn \in Exchange \ {"wasmInitPAKE"}
        BY <1>10, <3>1, <4>2
      <4>3. CASE fn \in {"wasmEncrypt", "wasmDecrypt"}
        <5>1. step'[role] \in {"wasmEncrypt", "wasmDecrypt"} /\ role' = role
          BY <1>6, <3>1, <4>3
        <5>2. QED
          BY <5>1 DEF Began
      <4>4. QED
        BY <4>1, <4>2, <4>3 DEF WasmFunctions
    <3>2. CASE s # role
      <4>1. step'[role] = step[role] /\ awaits'[role] = awaits[role]
        BY <1>6, <2>1, <3>2
      <4>2. QED
        BY <4>1 DEF Began
    <3>3. QED
      BY <3>1, <3>2
  <2>8. ASSUME Began(role)'
        PROVE  /\ pake'.by = role /\ pake'.role = role
               /\ \A k \in 1..Len(inbox') : inbox'[k].by = role \/ inbox'[k].fn \notin Exchange
    BY <1>3, <1>7, <2>1, <2>3, <2>7, <2>8 DEF Alone
  <2>9. ASSUME step'[role] = "wasmGetSessionKey", NEW k \in 1..Len(outbox'),
               outbox'[k].id = awaits'[role], outbox'[k].ok
        PROVE  outbox'[k].key = [by |-> role, role |-> role]
    <3>1. k + d \in 1..Len(outbox) /\ outbox'[k] = outbox[k + d]
      BY <1>1
    <3>2. awaits'[role] # reqId + 1
      BY <1>1, <2>9, <3>1
    <3>3. step[role] = "wasmGetSessionKey" /\ awaits'[role] = awaits[role]
      BY <1>6, <2>1, <2>9, <3>2
    <3>4. QED
      BY <2>1, <2>9, <3>1, <3>3 DEF Alone
  <2>10. QED
    BY <2>2, <2>4, <2>5, <2>6, <2>8, <2>9 DEF Alone
<1>11. QED
  BY <1>9, <1>10 DEF Undisturbed

\* What the worker does to the calls and to the exchange in its module: it ends t
\* calls, and only an exchange begins or goes on.
LEMMA WorkerTurns ==
    ASSUME IInv, KeyInv, NEW t \in 0..1, t <= Len(inbox),
           Len(inbox') = Len(inbox) - t,
           \A k \in 1..Len(inbox') : inbox'[k] = inbox[k + t],
           UNCHANGED pageVars,
           ~overlapped /\ role # None /\ Began(role)' =>
              /\ pake'.by = role /\ pake'.role = role
              /\ \A k \in 1..Len(inbox') : inbox'[k].by = role \/ inbox'[k].fn \notin Exchange,
           ~overlapped /\ role # None /\ step[role] = "wasmGetSessionKey" =>
              \A k \in 1..Len(outbox') : outbox'[k].id = awaits[role] /\ outbox'[k].ok =>
                  outbox'[k].key = [by |-> role, role |-> role]
    PROVE  KeyInv'
<1>1. Len(inbox) \in Nat
  BY QueueNumbers
<1>2. \A k \in 1..Len(inbox') : k + t \in 1..Len(inbox) /\ inbox'[k] = inbox[k + t]
  BY <1>1
<1>3. UNCHANGED <<role, step, awaits, key, overlapped>>
  BY DEF pageVars
<1>4. Tagged'
  <2>1. ASSUME NEW s \in Sessions, NEW k \in 1..Len(inbox')
        PROVE  /\ step'[s] = "off" => inbox'[k].by # s
               /\ inbox'[k].id = awaits'[s] => inbox'[k].by = s /\ inbox'[k].fn = step'[s]
    <3>1. k + t \in 1..Len(inbox) /\ inbox'[k] = inbox[k + t]
      BY <1>2
    <3>2. QED
      BY <1>3, <3>1 DEF KeyInv, Tagged
  <2>2. QED
    BY <2>1 DEF Tagged
<1>5. OwnKeyUnlessOverlapped'
  BY <1>3 DEF KeyInv, OwnKeyUnlessOverlapped, OwnKey
<1>6. ASSUME ~overlapped, role # None PROVE Alone(role)'
  <2>1. Alone(role) /\ Other(role)' = Other(role) /\ role' = role
    BY <1>3, <1>6 DEF KeyInv, Undisturbed, Other
  <2>2. step'[Other(role)] \in Over
    BY <1>3, <2>1 DEF Alone
  <2>3. \A k \in 1..Len(inbox') : inbox'[k].by = role => inbox'[k].role = role
    BY <1>2, <2>1 DEF Alone
  <2>4. ASSUME NEW j \in 1..Len(inbox'), NEW k \in 1..Len(inbox'),
               inbox'[j].by = Other(role), inbox'[j].fn \in Exchange, inbox'[k].by = role
        PROVE  j < k
    <3>1. j + t < k + t
      BY <1>2, <2>1, <2>4 DEF Alone
    <3>2. QED
      BY <1>1, <3>1
  <2>5. QED
    BY <1>3, <1>6, <2>1, <2>2, <2>3, <2>4 DEF Alone
<1>7. QED
  BY <1>3, <1>4, <1>5, <1>6 DEF KeyInv, Undisturbed

\* A failed load ends the call that waited for it, without a key.
LEMMA LoadFailsAlone == ASSUME IInv, KeyInv, LoadFails PROVE KeyInv'
<1>1. /\ UNCHANGED pageVars /\ UNCHANGED <<pake, ran>>
      /\ outbox' = outbox \o Failures
      /\ inbox' = IF running THEN Tail(inbox) ELSE inbox
  BY DEF LoadFails
<1>2. inbox \in Seq(CallSet(reqId)) /\ outbox \in Seq(AnswerSet(reqId))
  BY DEF IInv, TypeOK, CallSet, AnswerSet
<1> DEFINE t == IF running THEN 1 ELSE 0
<1>3. /\ t \in 0..1 /\ t <= Len(inbox) /\ Len(inbox') = Len(inbox) - t
      /\ \A k \in 1..Len(inbox') : inbox'[k] = inbox[k + t]
  <2>1. CASE running
    <3>1. inbox # <<>>
      BY <2>1 DEF IInv, Roled
    <3>2. QED
      BY <1>1, <1>2, <2>1, <3>1, Taken
  <2>2. CASE ~running
    <3>1. inbox' = inbox /\ t = 0 /\ Len(inbox) \in Nat
      BY <1>1, <1>2, <2>2
    <3>2. QED
      BY <3>1
  <2>3. QED
    BY <2>1, <2>2
<1> HIDE DEF t
<1>4. Len(inbox) \in Nat /\ Len(outbox) \in Nat /\ Len(Failures) \in Nat
  BY <1>2, FailuresPosted
<1>5. \A k \in 1..Len(outbox') :
         (k \in 1..Len(outbox) /\ outbox'[k] = outbox[k]) \/ ~outbox'[k].ok
  <2>1. /\ Len(outbox') = Len(outbox) + Len(Failures)
        /\ \A k \in 1..Len(outbox) : outbox'[k] = outbox[k]
        /\ \A k \in (Len(outbox) + 1)..(Len(outbox) + Len(Failures)) :
              outbox'[k] = Failures[k - Len(outbox)]
    BY <1>1, <1>2, FailuresPosted, PostedAll
  <2>2. ASSUME NEW k \in 1..Len(outbox'), k \notin 1..Len(outbox) PROVE ~outbox'[k].ok
    <3>1. k - Len(outbox) \in 1..Len(Failures) /\ outbox'[k] = Failures[k - Len(outbox)]
      BY <1>4, <2>1, <2>2
    <3>2. QED
      BY <3>1, FailuresPosted
  <2>3. QED
    BY <2>1, <2>2
<1>6. ASSUME ~overlapped, role # None PROVE Alone(role)
  BY <1>6 DEF KeyInv, Undisturbed
<1>7. Began(role)' => Began(role)
  BY <1>1 DEF Began, pageVars
<1>8. ~overlapped /\ role # None /\ Began(role)' =>
         /\ pake'.by = role /\ pake'.role = role
         /\ \A k \in 1..Len(inbox') : inbox'[k].by = role \/ inbox'[k].fn \notin Exchange
  <2> SUFFICES ASSUME ~overlapped, role # None, Began(role)'
               PROVE  /\ pake'.by = role /\ pake'.role = role
                      /\ \A k \in 1..Len(inbox') :
                            inbox'[k].by = role \/ inbox'[k].fn \notin Exchange
    OBVIOUS
  <2>1. Alone(role) /\ Began(role)
    BY <1>6, <1>7
  <2>2. \A k \in 1..Len(inbox') : k + t \in 1..Len(inbox)
    BY <1>3, <1>4
  <2>3. QED
    BY <1>1, <1>3, <2>1, <2>2 DEF Alone
<1>9. ~overlapped /\ role # None /\ step[role] = "wasmGetSessionKey" =>
         \A k \in 1..Len(outbox') : outbox'[k].id = awaits[role] /\ outbox'[k].ok =>
             outbox'[k].key = [by |-> role, role |-> role]
  BY <1>5, <1>6 DEF Alone
<1>10. QED
  BY <1>1, <1>3, <1>8, <1>9, WorkerTurns

\* What a function does to the exchange: initPAKE makes it that of the caller, the
\* others leave it whose it is, and a key is that of the exchange.
LEMMA ResultOwner ==
    ASSUME IInv, NEW call \in CallSet(reqId), NEW result \in Results(call)
    PROVE  /\ call.fn = "wasmInitPAKE" => result.pake.by = call.by /\ result.pake.role = call.role
           /\ call.fn # "wasmInitPAKE" => result.pake.by = pake.by /\ result.pake.role = pake.role
           /\ call.fn = "wasmGetSessionKey" /\ result.ok =>
                 result.key = [by |-> pake.by, role |-> pake.role]
<1> USE DEF Results
<1>1. pake \in [by : Sessions \cup {None}, role : Sessions \cup {None}, complete : BOOLEAN]
  BY DEF IInv, TypeOK
<1>2. CASE call.fn = "wasmInitPAKE"
  BY <1>2 DEF InitPAKE
<1>3. CASE call.fn = "wasmGetPAKEMessage"
  BY <1>3
<1>4. CASE call.fn = "wasmProcessPAKEMessage"
  BY <1>1, <1>4
<1>5. CASE call.fn = "wasmGetSessionKey"
  BY <1>5
<1>6. CASE call.fn \in {"wasmEncrypt", "wasmDecrypt"}
  BY <1>6
<1>7. QED
  BY <1>2, <1>3, <1>4, <1>5, <1>6 DEF CallSet, WasmFunctions, Exchange

\* The call that runs is about the exchange of the session started last, unless that
\* one has not begun its own.
LEMMA RunAlone == ASSUME IInv, KeyInv, Run PROVE KeyInv'
<1>1. /\ inbox # <<>> /\ 1 \in 1..Len(inbox) /\ ran' = ran \cup {inbox[1].id}
      /\ UNCHANGED pageVars
      /\ Len(inbox') = Len(inbox) - 1
      /\ \A k \in 1..Len(inbox') : inbox'[k] = inbox[k + 1]
      /\ Len(outbox') = Len(outbox) + 1
      /\ \A k \in 1..Len(outbox) : outbox'[k] = outbox[k]
      /\ outbox'[Len(outbox) + 1].id = inbox[1].id
  BY RunSteps
<1>2. /\ inbox \in Seq(CallSet(reqId)) /\ outbox \in Seq(AnswerSet(reqId))
      /\ Len(inbox) \in Nat /\ Len(outbox) \in Nat
  BY DEF IInv, TypeOK, CallSet, AnswerSet
<1>3. Head(inbox) = inbox[1] /\ inbox[1] \in CallSet(reqId)
  BY <1>1, <1>2, Taken
<1>4. PICK result \in Results(inbox[1]) :
        /\ pake' = result.pake
        /\ outbox' = Append(outbox, Answer(inbox[1].id, result.ok, result.key))
  BY <1>3 DEF Run
<1>5. /\ outbox'[Len(outbox) + 1].ok = result.ok
      /\ outbox'[Len(outbox) + 1].key = result.key
  <2> DEFINE answer == Answer(inbox[1].id, result.ok, result.key)
  <2>1. answer.ok = result.ok /\ answer.key = result.key
    BY DEF Answer
  <2>2. outbox'[Len(outbox) + 1] = answer
    <3> HIDE DEF answer
    <3>1. outbox' = Append(outbox, answer)
      BY <1>4 DEF answer
    <3>2. QED
      BY <1>2, <3>1
  <2>3. QED
    BY <2>1, <2>2
<1>6. /\ inbox[1].fn = "wasmInitPAKE" =>
            pake'.by = inbox[1].by /\ pake'.role = inbox[1].role
      /\ inbox[1].fn # "wasmInitPAKE" => pake'.by = pake.by /\ pake'.role = pake.role
      /\ inbox[1].fn = "wasmGetSessionKey" /\ result.ok =>
            result.key = [by |-> pake.by, role |-> pake.role]
  BY <1>3, <1>4, ResultOwner
<1>7. UNCHANGED <<role, step, awaits, overlapped>>
  BY <1>1 DEF pageVars
<1>8. ASSUME ~overlapped, role # None
      PROVE  /\ Alone(role) /\ role \in Sessions /\ inbox[1].by \in {role, Other(role)}
             /\ inbox[1].id = awaits[role] => inbox[1].by = role /\ inbox[1].fn = step[role]
  <2>1. Alone(role) /\ role \in Sessions
    BY <1>8 DEF KeyInv, Undisturbed, IInv, TypeOK
  <2>2. inbox[1].by \in {role, Other(role)}
    BY <1>3, <2>1 DEF CallSet, Other, Sessions
  <2>3. QED
    BY <1>1, <2>1, <2>2 DEF KeyInv, Tagged
<1>9. ASSUME ~overlapped, role # None, Began(role)'
      PROVE  /\ pake'.by = role /\ pake'.role = role
             /\ \A k \in 1..Len(inbox') : inbox'[k].by = role \/ inbox'[k].fn \notin Exchange
  <2>1. \A k \in 1..Len(inbox') : k + 1 \in 1..Len(inbox)
    BY <1>1, <1>2
  <2>2. CASE Began(role)
    <3>1. /\ pake.by = role /\ pake.role = role
          /\ \A k \in 1..Len(inbox) : inbox[k].by = role \/ inbox[k].fn \notin Exchange
      BY <1>8, <1>9, <2>2 DEF Alone
    <3>2. inbox[1].fn = "wasmInitPAKE" => inbox[1].by = role /\ inbox[1].role = role
      BY <1>1, <1>8, <1>9, <3>1 DEF Alone, Exchange
    <3>3. QED
      BY <1>1, <1>6, <2>1, <3>1, <3>2
  <2>3. CASE ~Began(role)
    <3>1. step[role] = "wasmInitPAKE" /\ awaits[role] = inbox[1].id
      BY <1>1, <1>7, <1>9, <2>3 DEF Began
    <3>2. inbox[1].by = role /\ inbox[1].fn = "wasmInitPAKE" /\ inbox[1].role = role
      BY <1>1, <1>8, <1>9, <3>1 DEF Alone
    <3>3. ASSUME NEW k \in 1..Len(inbox')
          PROVE  inbox'[k].by = role \/ inbox'[k].fn \notin Exchange
      <4>1. k + 1 \in 1..Len(inbox) /\ ~(k + 1 < 1) /\ inbox'[k] = inbox[k + 1]
        BY <1>1, <2>1
      <4>2. inbox[k + 1].by \in {role, Other(role)}
        <5>1. inbox[k + 1] \in CallSet(reqId)
          BY <1>2, <4>1
        <5>2. QED
          BY <1>8, <1>9, <5>1 DEF CallSet, Other, Sessions
      <4>3. QED
        BY <1>1, <1>8, <1>9, <3>2, <4>1, <4>2 DEF Alone
    <3>4. QED
      BY <1>6, <3>2, <3>3
  <2>4. QED
    BY <2>2, <2>3
<1>10. ASSUME ~overlapped, role # None, step[role] = "wasmGetSessionKey",
              NEW k \in 1..Len(outbox'), outbox'[k].id = awaits[role], outbox'[k].ok
       PROVE  outbox'[k].key = [by |-> role, role |-> role]
  <2>1. CASE k \in 1..Len(outbox)
    BY <1>1, <1>8, <1>10, <2>1 DEF Alone
  <2>2. CASE k = Len(outbox) + 1
    <3>1. inbox[1].id = awaits[role] /\ result.ok /\ outbox'[k].key = result.key
      BY <1>1, <1>5, <1>10, <2>2
    <3>2. inbox[1].fn = "wasmGetSessionKey"
      BY <1>8, <1>10, <3>1
    <3>3. Began(role)
      BY <1>10 DEF Began
    <3>4. pake.by = role /\ pake.role = role
      BY <1>8, <1>10, <3>3 DEF Alone
    <3>5. QED
      BY <1>6, <3>1, <3>2, <3>4
  <2>3. QED
    BY <1>1, <1>2, <2>1, <2>2
<1>11. /\ 1 \in 0..1 /\ 1 <= Len(inbox)
       /\ ~overlapped /\ role # None /\ Began(role)' =>
             /\ pake'.by = role /\ pake'.role = role
             /\ \A k \in 1..Len(inbox') : inbox'[k].by = role \/ inbox'[k].fn \notin Exchange
  BY <1>1, <1>2, <1>9
<1>12. ~overlapped /\ role # None /\ step[role] = "wasmGetSessionKey" =>
          \A k \in 1..Len(outbox') : outbox'[k].id = awaits[role] /\ outbox'[k].ok =>
              outbox'[k].key = [by |-> role, role |-> role]
  BY <1>10
<1>13. QED
  BY <1>1, <1>11, <1>12, WorkerTurns

\* A session that starts while the other is over finds none of its calls queued.
LEMMA StartAlone == ASSUME IInv, KeyInv, NEW s \in Sessions, Start(s) PROVE KeyInv'
<1>1. /\ step[s] = "off" /\ role' = s /\ step' = [step EXCEPT ![s] = "joined"]
      /\ overlapped' = (overlapped \/ step[Other(s)] \in Exchange \cup {"joined", "peer"})
      /\ UNCHANGED <<awaits, key, pake, ran, inbox, outbox>>
  BY DEF Start, workerVars
<1>2. /\ step \in [Sessions -> Steps] /\ awaits[s] = 0
      /\ Other(s) \in Sessions /\ Other(s) # s
  BY <1>1 DEF IInv, TypeOK, WasmFunctions, Exchange, Other, Sessions
<1>3. /\ step'[s] = "joined"
      /\ \A p \in Sessions : p # s => step'[p] = step[p]
  BY <1>1, <1>2
<1>4. \A k \in 1..Len(inbox) : inbox[k].id # 0 /\ inbox[k].by # s
  BY <1>1, QueueNumbers DEF KeyInv, Tagged
<1>5. Tagged'
  BY <1>1, <1>2, <1>3, <1>4 DEF KeyInv, Tagged
<1>6. ASSUME ~overlapped' PROVE Alone(role)'
  <2>1. step[Other(s)] \in Over
    BY <1>1, <1>2, <1>6 DEF Steps, WasmFunctions, Exchange, Over
  <2>2. ~Began(role)'
    BY <1>1, <1>3 DEF Began
  <2>3. Other(role)' = Other(s)
    BY <1>1 DEF Other
  <2>4. QED
    BY <1>1, <1>2, <1>3, <1>4, <2>1, <2>2, <2>3 DEF Alone
<1>7. OwnKeyUnlessOverlapped'
  BY <1>1 DEF KeyInv, OwnKeyUnlessOverlapped, OwnKey
<1>8. QED
  BY <1>5, <1>6, <1>7 DEF KeyInv, Undisturbed

\* Unless the sessions overlapped, the one whose chain is in the middle of an
\* exchange is the one that was started last.
LEMMA LastInExchange ==
    ASSUME IInv, KeyInv, ~overlapped, NEW s \in Sessions, step[s] \notin Over
    PROVE  s = role /\ Alone(s)
<1>1. step[s] # "off"
  BY DEF Over
<1>2. role \in Sessions /\ role # None
  BY <1>1 DEF IInv, Roled, Sessions, None
<1>3. s = role \/ s = Other(role)
  BY <1>2 DEF Other, Sessions
<1>4. QED
  BY <1>2, <1>3 DEF KeyInv, Undisturbed, Alone

\* What a chain calls of its own.
LEMMA CallNextAlone == ASSUME IInv, KeyInv, NEW s \in Sessions, CallNext(s) PROVE KeyInv'
<1>1. PICK fn \in NextCalls(s) : WasmCall(s, fn, pending)
  BY DEF CallNext
<1>2. \/ step[s] = "joined" /\ fn = "wasmInitPAKE"
      \/ step[s] = "peer" /\ fn = "wasmProcessPAKEMessage"
      \/ step[s] = "keyed" /\ fn \in {"wasmEncrypt", "wasmDecrypt"}
  BY DEF NextCalls
<1>3. fn \in WasmFunctions
  BY <1>2 DEF WasmFunctions, Exchange
<1>4. UNCHANGED <<role, key, overlapped, pake, ran, outbox>>
  BY DEF CallNext, workerVars
<1>5. ~overlapped /\ fn \in Exchange => s = role
  BY <1>2, LastInExchange DEF Over, Exchange
<1>6. ~overlapped /\ fn \in Exchange \ {"wasmInitPAKE"} => Began(s)
  BY <1>2 DEF Began, Exchange
<1>7. /\ 0 \in 0..1 /\ 0 <= Len(outbox) /\ Len(outbox') = Len(outbox) - 0
      /\ \A k \in 1..Len(outbox') : outbox'[k] = outbox[k + 0]
  BY <1>4, QueueNumbers
<1>8. Tagged' /\ Undisturbed'
  BY <1>1, <1>3, <1>4, <1>5, <1>6, <1>7, PageCalls
<1>9. OwnKeyUnlessOverlapped'
  BY <1>4 DEF KeyInv, OwnKeyUnlessOverlapped, OwnKey
<1>10. QED
  BY <1>8, <1>9 DEF KeyInv

\* Calls are rejected, and with them their chains; or an answer comes too late.
LEMMA RejectAlone ==
    ASSUME IInv, KeyInv, NEW answer, Take(answer), NEW ids, RejectCalls(ids) \/ UNCHANGED pageVars,
           UNCHANGED <<inbox, role, overlapped, pake, ran>>
    PROVE  KeyInv'
<1>1. /\ 1 \in 0..1 /\ 1 <= Len(outbox) /\ Len(outbox') = Len(outbox) - 1
      /\ \A k \in 1..Len(outbox') : outbox'[k] = outbox[k + 1]
  BY TakeFirst
<1>2. ASSUME NEW p \in Sessions
      PROVE  \/ step'[p] = step[p] /\ awaits'[p] = awaits[p]
             \/ awaits'[p] = 0 /\ step'[p] \in {"failed", "keyed"}
  BY DEF RejectCalls, pageVars
<1>3. Tagged' /\ Undisturbed'
  BY <1>1, <1>2, PageRests
<1>4. key' = key
  BY DEF RejectCalls, pageVars
<1>5. OwnKeyUnlessOverlapped'
  BY <1>4 DEF KeyInv, OwnKeyUnlessOverlapped, OwnKey
<1>6. QED
  BY <1>3, <1>5 DEF KeyInv

\* A result comes from a call that ran, so a resolved initPAKE means that the
\* exchange in the module is this session's.
LEMMA OnResultAlone == ASSUME IInv, KeyInv, NEW answer, OnResult(answer) PROVE KeyInv'
<1>1. /\ answer = outbox[1] /\ answer \in AnswerSet(reqId)
      /\ Len(outbox) \in Nat \ {0} /\ 1 <= Len(outbox)
      /\ Len(outbox') = Len(outbox) - 1
      /\ \A k \in 1..Len(outbox') : outbox'[k] = outbox[k + 1]
  BY TakeFirst DEF OnResult
<1>2. /\ UNCHANGED <<role, overlapped, pake, ran>>
      /\ answer.id \in pending /\ answer.ok
  BY DEF OnResult, workerVars
<1>3. PICK s \in Sessions : awaits[s] = answer.id /\ Continue(s, answer)
  BY DEF OnResult
<1>4. /\ step \in [Sessions -> Steps] /\ awaits \in [Sessions -> Nat]
      /\ key \in [Sessions -> Keys]
  BY DEF IInv, TypeOK
<1>5. awaits[s] \in ran
  <2>1. 1 \in 1..Len(outbox)
    BY <1>1
  <2>2. QED
    BY <1>1, <1>2, <1>3, <2>1 DEF IInv, Accounted
<1>6. step[s] \in Exchange => (~overlapped => s = role /\ Alone(s))
  BY LastInExchange DEF Over, Exchange
<1>7. step[s] \in Exchange => Began(s)
  BY <1>5 DEF Began, Exchange
<1> DEFINE rest == pending \ {answer.id}
           Idle(to) == step' = [step EXCEPT ![s] = to] /\ awaits' = [awaits EXCEPT ![s] = 0]
                       /\ UNCHANGED inbox
<1>8. \/ /\ step[s] \in {"wasmInitPAKE", "wasmGetPAKEMessage"}
         /\ Idle("peer") \/ WasmCall(s, "wasmGetPAKEMessage", rest)
         /\ UNCHANGED key
      \/ /\ step[s] = "wasmProcessPAKEMessage"
         /\ WasmCall(s, "wasmGetSessionKey", rest)
         /\ UNCHANGED key
      \/ /\ step[s] = "wasmGetSessionKey"
         /\ Idle("keyed")
         /\ key' = [key EXCEPT ![s] = answer.key]
      \/ /\ step[s] \in {"wasmEncrypt", "wasmDecrypt"}
         /\ Idle("keyed")
         /\ UNCHANGED key
  BY <1>3 DEF Continue
<1>9. ASSUME NEW to \in {"peer", "keyed"}, Idle(to), to = "peer" => step[s] \in Exchange
      PROVE  Tagged' /\ Undisturbed'
  <2>1. ASSUME NEW p \in Sessions
        PROVE  \/ step'[p] = step[p] /\ awaits'[p] = awaits[p]
               \/ awaits'[p] = 0 /\ step'[p] \in {"failed", "keyed"}
               \/ awaits'[p] = 0 /\ step'[p] = "peer" /\ (~overlapped => p = role /\ Began(p))
    BY <1>4, <1>6, <1>7, <1>9
  <2>2. 1 \in 0..1
    OBVIOUS
  <2>3. QED
    BY <1>1, <1>2, <1>9, <2>1, <2>2, PageRests
<1>10. ASSUME NEW fn \in Exchange, WasmCall(s, fn, rest), step[s] \in Exchange
       PROVE  Tagged' /\ Undisturbed'
  <2>1. fn \in WasmFunctions /\ 1 \in 0..1
    BY DEF WasmFunctions
  <2>2. ~overlapped => s = role /\ Began(s)
    BY <1>6, <1>7, <1>10
  <2> HIDE DEF rest
  <2>3. QED
    BY <1>1, <1>2, <1>10, <2>1, <2>2, PageCalls
<1>11. Tagged' /\ Undisturbed'
  <2> HIDE DEF rest, Idle
  <2>1. QED
    BY <1>8, <1>9, <1>10 DEF Exchange
<1>12. OwnKeyUnlessOverlapped'
  <2>1. CASE UNCHANGED key
    BY <1>2, <2>1 DEF KeyInv, OwnKeyUnlessOverlapped, OwnKey
  <2>2. CASE step[s] = "wasmGetSessionKey" /\ key' = [key EXCEPT ![s] = answer.key]
    <3>1. ASSUME ~overlapped PROVE answer.key = [by |-> s, role |-> s]
      <4>1. Alone(s) /\ 1 \in 1..Len(outbox)
        BY <1>1, <1>6, <2>2, <3>1 DEF Exchange
      <4>2. QED
        BY <1>1, <1>2, <1>3, <2>2, <4>1 DEF Alone
    <3>2. QED
      BY <1>2, <1>4, <2>2, <3>1 DEF KeyInv, OwnKeyUnlessOverlapped, OwnKey
  <2>3. QED
    BY <1>8, <2>1, <2>2
<1>13. QED
  BY <1>11, <1>12 DEF KeyInv

\* A session that did not begin in the middle of the other one's exchange, nor meet
\* another one in the middle of its own, gets the key of its own exchange, however
\* many calls of a failed session are still to run (app.js:682-722, main.go:74-98).
THEOREM KeysAreOwn == Spec => []OwnKeyUnlessOverlapped
<1>1. Init => KeyInv
  <2> SUFFICES ASSUME Init PROVE KeyInv
    OBVIOUS
  <2>1. Len(inbox) = 0 /\ role = None
    BY DEF Init
  <2>2. QED
    BY <2>1 DEF Init, KeyInv, Tagged, Undisturbed, OwnKeyUnlessOverlapped
<1>2. ASSUME IInv, KeyInv, [Next]_vars PROVE KeyInv'
  <2>1. ASSUME NEW s \in Sessions, Start(s) PROVE KeyInv'
    BY <1>2, <2>1, StartAlone
  <2>2. ASSUME NEW s \in Sessions, CallNext(s) PROVE KeyInv'
    BY <1>2, <2>2, CallNextAlone
  <2>3. CASE OnMessage
    <3>1. CASE OnFatal
      <4>1. Take(Fatal) /\ RejectCalls(pending) /\ UNCHANGED <<role, overlapped, pake, ran>>
        BY <3>1 DEF OnFatal, RejectAll, workerVars
      <4>2. UNCHANGED inbox
        BY <4>1 DEF RejectCalls
      <4>3. QED
        BY <1>2, <4>1, <4>2, RejectAlone
    <3>2. ASSUME NEW answer, OnLateAnswer(answer) PROVE KeyInv'
      <4>1. Take(answer) /\ UNCHANGED pageVars /\ UNCHANGED <<inbox, role, overlapped, pake, ran>>
        BY <3>2 DEF OnLateAnswer, pageVars, workerVars
      <4>2. QED
        BY <1>2, <4>1, RejectAlone
    <3>3. ASSUME NEW answer, OnError(answer) PROVE KeyInv'
      <4>1. Take(answer) /\ RejectCalls({answer.id}) /\ UNCHANGED <<role, overlapped, pake, ran>>
        BY <3>3 DEF OnError, workerVars
      <4>2. UNCHANGED inbox
        BY <4>1 DEF RejectCalls
      <4>3. QED
        BY <1>2, <4>1, <4>2, RejectAlone
    <3>4. QED
      BY <1>2, <2>3, <3>1, <3>2, <3>3, OnResultAlone DEF OnMessage
  <2>4. CASE Begin \/ UNCHANGED vars
    <3>1. /\ UNCHANGED pageVars /\ UNCHANGED <<pake, ran, inbox, outbox>>
          /\ 0 \in 0..1 /\ 0 <= Len(inbox) /\ Len(inbox') = Len(inbox) - 0
          /\ \A k \in 1..Len(inbox') : inbox'[k] = inbox[k + 0]
      BY <1>2, <2>4, QueueNumbers DEF Begin, vars, workerVars
    <3>2. Began(role)' => Began(role)
      BY <3>1 DEF Began, pageVars
    <3>3. QED
      BY <1>2, <3>1, <3>2, WorkerTurns DEF KeyInv, Undisturbed, Alone
  <2>5. CASE Loaded
    <3>1. /\ UNCHANGED pageVars /\ UNCHANGED <<ran, inbox, outbox>>
          /\ 0 \in 0..1 /\ 0 <= Len(inbox) /\ Len(inbox') = Len(inbox) - 0
          /\ \A k \in 1..Len(inbox') : inbox'[k] = inbox[k + 0]
      BY <1>2, <2>5, QueueNumbers DEF Loaded
    <3>2. pake = NoPake
      BY <1>2, <2>5 DEF Loaded, IInv, OneLoad
    <3>3. ~overlapped /\ role # None => ~Began(role)
      <4>1. NoPake.by = None
        BY DEF NoPake
      <4>2. QED
        BY <1>2, <3>2, <4>1 DEF KeyInv, Undisturbed, Alone
    <3>4. Began(role)' => Began(role)
      BY <3>1 DEF Began, pageVars
    <3>5. QED
      BY <1>2, <3>1, <3>3, <3>4, WorkerTurns DEF KeyInv, Undisturbed, Alone
  <2>6. CASE LoadFails
    BY <1>2, <2>6, LoadFailsAlone
  <2>7. CASE Run
    BY <1>2, <2>7, RunAlone
  <2>8. QED
    BY <1>2, <2>1, <2>2, <2>3, <2>4, <2>5, <2>6, <2>7 DEF Next
<1>3. KeyInv => OwnKeyUnlessOverlapped
  BY DEF KeyInv
<1>4. QED
  BY <1>1, <1>2, <1>3, WorkerInvariant, PTL DEF Spec

=============================================================================
