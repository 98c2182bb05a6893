----------------------------- MODULE RateLimiter -----------------------------
(***************************************************************************)
(* ipRateLimiter (src/relay/ratelimit.go): a request counter per client    *)
(* address, guarded by one mutex, shared by the goroutines that serve      *)
(* requests and by the one that deletes expired counters.                  *)
(*                                                                         *)
(* allow and cleanupLoop read the clock before they take the mutex, so the *)
(* clock may have moved on when they use what they read: reading and       *)
(* deciding are two steps.  Time is counted in ticks.                      *)
(***************************************************************************)
EXTENDS Integers, FiniteSets, FiniteSetsExt

CONSTANTS Addrs,    \* client addresses
          Callers,  \* goroutines in allow
          Limit,    \* requests per window
          Window,   \* ticks of a window
          MaxLag,   \* bound: ticks a goroutine may wait for the mutex
          MaxTime,  \* bound: the last tick
          None

ASSUME LimiterAssumption ==
    /\ Limit \in Nat \ {0}
    /\ Window \in Nat \ {0}
    /\ MaxLag \in Nat
    /\ MaxTime \in Nat
    /\ None \notin Int
    /\ None \notin Addrs
    /\ None \notin [count : Nat, resetAt : Nat]

VARIABLES
    clock,     \* time.Now()
    counters,  \* ipRateLimiter.counters
    addr,      \* the address each caller asks about
    now,       \* the time each caller read
    sweepNow,  \* the time cleanupLoop read
    until,     \* history: when the last window of each address ends
    grants,    \* history: how many requests that read each tick were granted
    lagged     \* history: the addresses a late caller was served for

vars == <<clock, counters, addr, now, sweepNow, until, grants, lagged>>

Ticks == 0..MaxTime
Counters == [count : Nat \ {0}, resetAt : Nat]

TypeOK ==
    /\ clock \in Ticks
    /\ counters \in [Addrs -> Counters \cup {None}]
    /\ addr \in [Callers -> Addrs \cup {None}]
    /\ now \in [Callers -> Ticks]
    /\ sweepNow \in Ticks \cup {None}
    /\ until \in [Addrs -> Nat \cup {-1}]
    /\ grants \in [Addrs -> [Ticks -> Nat]]
    /\ lagged \subseteq Addrs

Init ==
    /\ clock = 0
    /\ counters = [a \in Addrs |-> None]
    /\ addr = [c \in Callers |-> None]
    /\ now = [c \in Callers |-> 0]
    /\ sweepNow = None
    /\ until = [a \in Addrs |-> -1]
    /\ grants = [a \in Addrs |-> [t \in Ticks |-> 0]]
    /\ lagged = {}

InTime == \A c \in Callers : addr[c] # None => clock - now[c] < MaxLag

Tick ==
    /\ clock < MaxTime
    /\ InTime
    /\ clock' = clock + 1
    /\ UNCHANGED <<counters, addr, now, sweepNow, until, grants, lagged>>

ReadClock(c, a) ==
    /\ addr[c] = None
    /\ addr' = [addr EXCEPT ![c] = a]
    /\ now' = [now EXCEPT ![c] = clock]
    /\ UNCHANGED <<clock, counters, sweepNow, until, grants, lagged>>

\* Mutant: a counter is never reset.
Expired_Never(a, t) == counters[a] = None
Expired(a, t) == counters[a] # None => t > counters[a].resetAt

\* Unlock, return.
Return(c) ==
    /\ addr' = [addr EXCEPT ![c] = None]
    /\ now' = [now EXCEPT ![c] = 0]

Grant(c) ==
    /\ grants' = [grants EXCEPT ![addr[c]][now[c]] = @ + 1]
    /\ lagged' = IF now[c] < clock THEN lagged \cup {addr[c]} ELSE lagged
    /\ Return(c)
    /\ UNCHANGED <<clock, sweepNow>>

\* Mutant: the request that opens a window is not counted.
NewWindow_CountZero(c) ==
    LET end == now[c] + Window
    IN  /\ addr[c] # None
        /\ Expired(addr[c], now[c])
        /\ counters' = [counters EXCEPT ![addr[c]] = [count |-> 0, resetAt |-> end]]
        /\ until' = [until EXCEPT ![addr[c]] = end]
        /\ Grant(c)

NewWindow(c) ==
    LET end == now[c] + Window
    IN  /\ addr[c] # None
        /\ Expired(addr[c], now[c])
        /\ counters' = [counters EXCEPT ![addr[c]] = [count |-> 1, resetAt |-> end]]
        /\ until' = [until EXCEPT ![addr[c]] = end]
        /\ Grant(c)

\* Mutant: ">" for ">=" in the comparison with the limit.
CountUp_OffByOne(c) ==
    /\ addr[c] # None
    /\ ~Expired(addr[c], now[c])
    /\ counters[addr[c]].count <= Limit
    /\ counters' = [counters EXCEPT ![addr[c]].count = @ + 1]
    /\ Grant(c)
    /\ UNCHANGED until

CountUp(c) ==
    /\ addr[c] # None
    /\ ~Expired(addr[c], now[c])
    /\ counters[addr[c]].count < Limit
    /\ counters' = [counters EXCEPT ![addr[c]].count = @ + 1]
    /\ Grant(c)
    /\ UNCHANGED until

Refuse(c) ==
    /\ addr[c] # None
    /\ ~Expired(addr[c], now[c])
    /\ counters[addr[c]].count >= Limit
    /\ Return(c)
    /\ UNCHANGED <<clock, counters, sweepNow, until, grants, lagged>>

SweepReadClock ==
    /\ sweepNow = None
    /\ sweepNow' = clock
    /\ UNCHANGED <<clock, counters, addr, now, until, grants, lagged>>

\* Mutant: cleanupLoop empties the map.
SweepDelete_All ==
    /\ sweepNow # None
    /\ counters' = [a \in Addrs |-> None]
    /\ sweepNow' = None
    /\ UNCHANGED <<clock, addr, now, until, grants, lagged>>

SweepDelete ==
    /\ sweepNow # None
    /\ counters' = [a \in Addrs |-> IF Expired(a, sweepNow) THEN None
                                    ELSE counters[a]]
    /\ sweepNow' = None
    /\ UNCHANGED <<clock, addr, now, until, grants, lagged>>

Next ==
    \/ Tick
    \/ \E c \in Callers, a \in Addrs : ReadClock(c, a)
    \/ \E c \in Callers : NewWindow(c) \/ CountUp(c) \/ Refuse(c)
    \/ SweepReadClock
    \/ SweepDelete

Spec == Init /\ [][Next]_vars

-----------------------------------------------------------------------------

(* Properties *)

GrantsIn(a, from, to) ==
    MapThenSumSet(LAMBDA t : grants[a][t], (from..to) \cap Ticks)

\* As long as every caller gets the mutex within the tick it read, no interval
\* as long as a window sees more than twice the limit granted to one address,
\* whatever cleanupLoop deletes meanwhile (ratelimit.go:58-73, 86-97).
BurstBound ==
    \A a \in Addrs \ lagged : \A t \in Ticks :
        GrantsIn(a, t, t + Window) <= 2 * Limit

\* A request is refused only if that many requests of its own address were
\* granted within the last window, give or take the wait for the mutex: a
\* refusal never outlives its window and never comes from another address.
RefusalsDeserved ==
    [][\A c \in Callers :
          (addr[c] # None /\ addr'[c] = None /\ grants' = grants)
              => GrantsIn(addr[c], now[c] - Window - MaxLag, now[c] + MaxLag) >= Limit
      ]_vars

\* The window of an address is never cut short: a caller that is served in time
\* opens a new one only after the last one ended, so cleanupLoop, whose clock
\* reading is older than its deletions, forgets no running window.
WindowsDisjoint ==
    [][\A c \in Callers : \A a \in Addrs \ lagged' :
          (addr[c] = a /\ addr'[c] = None /\ counters'[a].count = 1
                       /\ grants'[a] # grants[a])
              => now[c] > until[a]
      ]_vars

=============================================================================
