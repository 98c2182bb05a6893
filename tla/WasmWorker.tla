------------------------------ MODULE WasmWorker ------------------------------
(***************************************************************************)
(* The bridge between a page and the Worker that hosts the Go module       *)
(* (src/public/app.js, src/public/worker.js): calls and their answers, the *)
(* one load of the module that all calls share, its failure and the next   *)
(* attempt, and the single PAKE that the module keeps (src/wasm/main.go)   *)
(* for the two sessions that a page may start, one of each role.           *)
(*                                                                         *)
(* Each thread runs one event, with its microtasks, at a time.  What the   *)
(* functions compute is left out, but for whose exchange a key comes from. *)
(***************************************************************************)
EXTENDS Naturals, Sequences

CONSTANT MaxCalls  \* bound: no encryption or decryption after so many calls

ASSUME WorkerAssumption == MaxCalls \in Nat

VARIABLES
    role,        \* the page's state.role
    step,        \* how far each session's chain is
    awaits,      \* the call each session's chain awaits, or 0
    key,         \* the key each session was given
    reqId,       \* reqId
    pending,     \* the keys of pending
    inbox,       \* calls posted to the worker and not finished: wasmQueue
    outbox,      \* what the worker has posted
    running,     \* the first of these calls awaits ensureWasm
    startup,     \* so does the script itself
    loads,       \* loads under way; wasmLoading is one of them
    ready,       \* wasmReady
    pake,        \* currentPake
    ran,         \* history: the calls that ran
    resolved,    \* history: the calls whose promise was resolved
    rejected,    \* history: or rejected
    overlapped   \* history: a session began in the middle of the other's exchange

pageVars == <<role, step, awaits, key, reqId, pending, resolved, rejected, overlapped>>
workerVars == <<running, startup, loads, ready, pake, ran>>
vars == <<pageVars, workerVars, inbox, outbox>>

Sessions == {"send", "receive"}
Other(s) == IF s = "send" THEN "receive" ELSE "send"

\* The functions a chain awaits, which also name its steps.
Exchange == {"wasmInitPAKE", "wasmGetPAKEMessage", "wasmProcessPAKEMessage",
             "wasmGetSessionKey"}
WasmFunctions == Exchange \cup {"wasmEncrypt", "wasmDecrypt"}
Steps == WasmFunctions \cup {"off", "joined", "peer", "keyed", "failed"}

None == "none"
NoPake == [by |-> None, role |-> None, complete |-> FALSE]
NoKey == [by |-> None, role |-> None]

Call(i, s, fn) == [id |-> i, by |-> s, fn |-> fn, role |-> role]
Answer(i, ok, k) == [id |-> i, ok |-> ok, key |-> k]
Fatal == Answer(0, FALSE, NoKey)

Keys == [by : Sessions \cup {None}, role : Sessions \cup {None}]

TypeOK ==
    /\ role \in Sessions \cup {None}
    /\ step \in [Sessions -> Steps]
    /\ awaits \in [Sessions -> Nat]
    /\ \A s \in Sessions : awaits[s] \in (IF step[s] \in WasmFunctions THEN pending ELSE {0})
    /\ key \in [Sessions -> Keys]
    /\ reqId \in Nat
    /\ pending \subseteq 1..reqId
    /\ inbox \in Seq([id : 1..reqId, by : Sessions, fn : WasmFunctions, role : Sessions])
    /\ outbox \in Seq([id : 0..reqId, ok : BOOLEAN, key : Keys])
    /\ running \in BOOLEAN
    /\ startup \in BOOLEAN
    /\ loads \in 0..1
    /\ ready \in BOOLEAN
    /\ pake \in [by : Sessions \cup {None}, role : Sessions \cup {None}, complete : BOOLEAN]
    /\ ran \subseteq 1..reqId
    /\ resolved \subseteq 1..reqId
    /\ rejected \subseteq 1..reqId
    /\ overlapped \in BOOLEAN

\* The worker's script has just called ensureWasm.
Init ==
    /\ role = None
    /\ step = [s \in Sessions |-> "off"]
    /\ awaits = [s \in Sessions |-> 0]
    /\ key = [s \in Sessions |-> NoKey]
    /\ reqId = 0 /\ pending = {}
    /\ inbox = <<>> /\ outbox = <<>>
    /\ running = FALSE /\ startup = TRUE /\ loads = 1 /\ ready = FALSE
    /\ pake = NoPake
    /\ ran = {} /\ resolved = {} /\ rejected = {}
    /\ overlapped = FALSE

-----------------------------------------------------------------------------
(* The page                                                                  *)

\* startSend, startReceive: the card that starts a session is hidden for good,
\* the other one is not.
Start(s) ==
    /\ step[s] = "off"
    /\ role' = s
    /\ step' = [step EXCEPT ![s] = "joined"]
    /\ overlapped' = (overlapped \/ step[Other(s)] \in Exchange \cup {"joined", "peer"})
    /\ UNCHANGED <<awaits, key, reqId, pending, resolved, rejected, workerVars,
                   inbox, outbox>>

\* wasmCall, in a state whose pending calls are those in rest.
WasmCall(s, fn, rest) ==
    /\ reqId' = reqId + 1
    /\ pending' = rest \cup {reqId'}
    /\ inbox' = Append(inbox, Call(reqId', s, fn))
    /\ awaits' = [awaits EXCEPT ![s] = reqId']
    /\ step' = [step EXCEPT ![s] = fn]

\* What a session's chain does of its own: "paired" has come, then the peer's
\* message, then chunks.  The role is that of the session started last.
NextCalls(s) ==
    CASE step[s] = "joined" -> {"wasmInitPAKE"}
      [] step[s] = "peer" -> {"wasmProcessPAKEMessage"}
      [] step[s] = "keyed" /\ reqId < MaxCalls ->
            {IF s = "send" THEN "wasmEncrypt" ELSE "wasmDecrypt"}
      [] OTHER -> {}

CallNext(s) ==
    /\ \E fn \in NextCalls(s) : WasmCall(s, fn, pending)
    /\ UNCHANGED <<role, key, resolved, rejected, overlapped, workerVars, outbox>>

\* The chain of a session whose call is resolved goes on in the same event.
Continue(s, answer) ==
    LET fn == step[s]
        rest == pending \ {answer.id}
        Idle(to) == /\ step' = [step EXCEPT ![s] = to]
                    /\ awaits' = [awaits EXCEPT ![s] = 0]
                    /\ pending' = rest
                    /\ UNCHANGED <<reqId, inbox>>
    IN  \/ /\ fn = "wasmInitPAKE"
           /\ IF role = "send" THEN WasmCall(s, "wasmGetPAKEMessage", rest) ELSE Idle("peer")
           /\ UNCHANGED key
        \/ fn = "wasmGetPAKEMessage" /\ Idle("peer") /\ UNCHANGED key
        \/ /\ fn = "wasmProcessPAKEMessage"
           /\ WasmCall(s, "wasmGetSessionKey", rest)
           /\ UNCHANGED key
        \/ /\ fn = "wasmGetSessionKey"
           /\ Idle("keyed")
           /\ key' = [key EXCEPT ![s] = answer.key]
        \/ fn \in {"wasmEncrypt", "wasmDecrypt"} /\ Idle("keyed") /\ UNCHANGED key

\* The promises of these calls are rejected, and the chains that await them.
RejectCalls(ids) ==
    /\ rejected' = rejected \cup ids
    /\ step' = [s \in Sessions |-> IF awaits[s] \in ids THEN "failed" ELSE step[s]]
    /\ awaits' = [s \in Sessions |-> IF awaits[s] \in ids THEN 0 ELSE awaits[s]]
    /\ UNCHANGED <<key, reqId, inbox, resolved>>

\* Mutant: only the latest call is taken for pending.
RejectAll_Latest == pending' = pending \ {reqId} /\ RejectCalls(pending \cap {reqId})
\* Mutant: the calls are forgotten, but their promises are not rejected.
RejectAll_Silent == pending' = {} /\ RejectCalls({})
\* The worker's fatal message.
RejectAll == pending' = {} /\ RejectCalls(pending)

\* worker.onmessage: what the worker posted is taken.
Take(answer) ==
    /\ outbox # <<>>
    /\ answer = Head(outbox)
    /\ outbox' = Tail(outbox)

OnFatal ==
    /\ Take(Fatal)
    /\ RejectAll
    /\ UNCHANGED <<role, overlapped, workerVars>>

\* A call that is no longer pending was rejected by a fatal message.
OnLateAnswer(answer) ==
    /\ Take(answer)
    /\ answer # Fatal
    /\ answer.id \notin pending
    /\ UNCHANGED <<pageVars, workerVars, inbox>>

OnError(answer) ==
    /\ Take(answer)
    /\ answer.id \in pending
    /\ ~answer.ok
    /\ pending' = pending \ {answer.id}
    /\ RejectCalls({answer.id})
    /\ UNCHANGED <<role, overlapped, workerVars>>

OnResult(answer) ==
    /\ Take(answer)
    /\ answer.id \in pending
    /\ answer.ok
    /\ resolved' = resolved \cup {answer.id}
    /\ \E s \in Sessions : awaits[s] = answer.id /\ Continue(s, answer)
    /\ UNCHANGED <<role, rejected, overlapped, workerVars>>

OnMessage ==
    \/ OnFatal
    \/ LET answer == Head(outbox)
       IN  OnLateAnswer(answer) \/ OnError(answer) \/ OnResult(answer)

-----------------------------------------------------------------------------
(* The worker                                                                *)

\* Mutant: wasmLoading is not kept, every caller loads the module.
EnsureWasm_NotShared == loads' = IF ready THEN loads ELSE loads + 1
\* ensureWasm, up to its await.
EnsureWasm == loads' = IF ready \/ loads > 0 THEN loads ELSE 1

\* The turn of the next call has come.
Begin ==
    /\ inbox # <<>>
    /\ ~running
    /\ running' = TRUE
    /\ EnsureWasm
    /\ UNCHANGED <<pageVars, startup, ready, pake, ran, inbox, outbox>>

\* The module is compiled and its main has registered the exports.
Loaded ==
    /\ loads > 0
    /\ loads' = loads - 1
    /\ ready' = TRUE
    /\ startup' = FALSE
    /\ pake' = NoPake
    /\ UNCHANGED <<pageVars, running, ran, inbox, outbox>>

\* Mutant: only the script's own attempt is reported.
Failures_Unanswered == IF startup THEN <<Fatal>> ELSE <<>>
\* What those who await the load post when it fails, in this order.
Failures ==
    (IF startup THEN <<Fatal>> ELSE <<>>)
        \o (IF running THEN <<Answer(Head(inbox).id, FALSE, NoKey)>> ELSE <<>>)

\* fetch or instantiateStreaming fails; the next call loads again.
LoadFails ==
    /\ loads > 0
    /\ loads' = loads - 1
    /\ outbox' = outbox \o Failures
    /\ inbox' = IF running THEN Tail(inbox) ELSE inbox
    /\ running' = FALSE
    /\ startup' = FALSE
    /\ UNCHANGED <<pageVars, ready, pake, ran>>

\* Mutant: an exchange that was begun is not begun anew.
InitPAKE_Once(call) ==
    IF pake = NoPake THEN [by |-> call.by, role |-> call.role, complete |-> FALSE] ELSE pake
\* initPAKE
InitPAKE(call) == [by |-> call.by, role |-> call.role, complete |-> FALSE]

\* What a function may answer, and what it leaves in currentPake: one error is
\* as good as another, and the peer's message or a chunk may be wrong.
Results(call) ==
    LET Result(ok, k, p) == [ok |-> ok, key |-> k, pake |-> p]
        Error == Result(FALSE, NoKey, pake)
        Fine(p) == Result(TRUE, NoKey, p)
    IN  CASE call.fn = "wasmInitPAKE" -> {Fine(InitPAKE(call))}
          [] call.fn = "wasmGetPAKEMessage" -> {IF pake = NoPake THEN Error ELSE Fine(pake)}
          [] call.fn = "wasmProcessPAKEMessage" ->
                {Error} \cup IF pake = NoPake THEN {}
                             ELSE {Fine([pake EXCEPT !.complete = TRUE])}
          [] call.fn = "wasmGetSessionKey" ->
                {IF pake.complete
                 THEN Result(TRUE, [by |-> pake.by, role |-> pake.role], pake)
                 ELSE Error}
          [] OTHER -> {Error, Fine(pake)}

\* ensureWasm returns and the function runs.
Run ==
    LET call == Head(inbox)
    IN  /\ running
        /\ ready
        /\ \E result \in Results(call) :
            /\ pake' = result.pake
            /\ outbox' = Append(outbox, Answer(call.id, result.ok, result.key))
        /\ ran' = ran \cup {call.id}
        /\ inbox' = Tail(inbox)
        /\ running' = FALSE
        /\ UNCHANGED <<pageVars, startup, loads, ready>>

-----------------------------------------------------------------------------

Next ==
    \/ \E s \in Sessions : Start(s) \/ CallNext(s)
    \/ OnMessage
    \/ Begin \/ Loaded \/ LoadFails \/ Run

Spec == Init /\ [][Next]_vars

\* Both event loops turn, and fetching the module ends one way or the other.
Fairness ==
    /\ WF_vars(OnMessage)
    /\ WF_vars(Begin)
    /\ WF_vars(Loaded \/ LoadFails)
    /\ WF_vars(Run)

FairSpec == Spec /\ Fairness

-----------------------------------------------------------------------------
(* What is checked                                                           *)

Calls == INSTANCE RemoteCalls WITH made <- reqId

\* Queue, shared load, fatal message and late answers together give the page
\* the calls of RemoteCalls (app.js:181-245, worker.js:64-92).
ImplementsCalls == Calls!Spec

\* Every call is answered, even one that came while a load was failing, or
\* after one failed (worker.js:36-62, 78-92).
CallsEnd == \A i \in 1..(MaxCalls + 8) : i \in pending ~> i \notin pending

\* No load ever replaces the module in which a key exchange was begun: the
\* PAKE lives in the module's memory (worker.js:36-62, main.go:19-20).
ExchangeKept == [][pake # NoPake => pake' # NoPake]_vars

OwnKey(s) == key[s] = [by |-> s, role |-> s]

\* A session that did not meet the other one in the middle of an exchange gets
\* the key of its own exchange, even if calls of a session that has failed are
\* still to run (app.js:682-722, main.go:74-98).
OwnKeyUnlessOverlapped ==
    ~overlapped => \A s \in Sessions : key[s] # NoKey => OwnKey(s)

\* main.go:19 "Global PAKE instance (one at a time)": a session's key comes from
\* the exchange that it began, in its own role.
OneExchangeAtATime == \A s \in Sessions : key[s] # NoKey => OwnKey(s)

=============================================================================
