------------------------- MODULE RateLimiter_proofs -------------------------
(***************************************************************************)
(* The rate limiter for any limit, any window and any number of callers,   *)
(* however long they wait for the mutex: first the windows, then the       *)
(* requests that were granted in them.                                     *)
(***************************************************************************)
EXTENDS RateLimiter, SumTheorems

\* Everybody who read the clock read it in the past.
Past ==
    /\ \A c \in Callers : now[c] <= clock
    /\ sweepNow # None => sweepNow <= clock

\* The counter of an address that was always served in time is that of its last
\* window, and it is forgotten only once that window is over.
Remembered ==
    \A a \in Addrs \ lagged :
        IF counters[a] = None THEN until[a] < clock \/ until[a] = -1
        ELSE counters[a].resetAt = until[a]

IInv == TypeOK /\ Past /\ Remembered

\* No counter exists at the start, so nothing is remembered wrongly (newIPRateLimiter).
LEMMA LimiterInit == Init => IInv
  BY LimiterAssumption DEF Init, IInv, TypeOK, Past, Remembered, Ticks

\* Counting up leaves the end of the window alone.
LEMMA CountedUp ==
    ASSUME NEW k \in [count : Nat \ {0}, resetAt : Nat]
    PROVE  /\ [k EXCEPT !.count = @ + 1] \in [count : Nat \ {0}, resetAt : Nat]
           /\ [k EXCEPT !.count = @ + 1].resetAt = k.resetAt
<1>1. [k EXCEPT !.count = @ + 1] \in [count : Nat \ {0}, resetAt : Nat]
  OBVIOUS
<1>2. [k EXCEPT !.count = @ + 1].resetAt = k.resetAt
  OBVIOUS
<1>3. QED
  BY <1>1, <1>2

\* Every step of allow, cleanupLoop and the clock keeps the invariant: a running
\* window stays in the map, and no reading of the clock is ahead of it.
LEMMA LimiterNext == IInv /\ [Next]_vars => IInv'
<1> SUFFICES ASSUME IInv, [Next]_vars PROVE IInv'
  OBVIOUS
<1> USE LimiterAssumption DEF IInv, TypeOK, Ticks, Counters
<1>1. CASE Tick
  BY <1>1 DEF Tick, Past, Remembered
<1>2. ASSUME NEW c \in Callers, NEW a \in Addrs, ReadClock(c, a) PROVE IInv'
  <2>1. TypeOK'
    BY <1>2 DEF ReadClock
  <2>2. Past'
    BY <1>2 DEF ReadClock, Past
  <2>3. Remembered'
    BY <1>2 DEF ReadClock, Remembered
  <2>4. QED
    BY <2>1, <2>2, <2>3
<1>3. ASSUME NEW c \in Callers, addr[c] # None, Grant(c)
      PROVE  /\ grants' \in [Addrs -> [Ticks -> Nat]]
             /\ lagged \subseteq lagged' /\ lagged' \subseteq Addrs
             /\ addr[c] \in lagged' \/ now[c] = clock
             /\ addr' \in [Callers -> Addrs \cup {None}]
             /\ now' \in [Callers -> Ticks]
             /\ clock' = clock /\ sweepNow' = sweepNow
             /\ Past'
  <2>1. grants' \in [Addrs -> [Ticks -> Nat]]
    BY <1>3 DEF Grant
  <2>2. QED
    BY <1>3, <2>1 DEF Grant, Return, Past
<1>4. ASSUME NEW c \in Callers, NewWindow(c) PROVE IInv'
  <2> DEFINE end == now[c] + Window
  <2>1. addr[c] \in Addrs /\ addr[c] # None /\ now[c] \in Nat /\ end \in Nat /\ Grant(c)
    BY <1>4 DEF NewWindow
  <2>2. counters' = [counters EXCEPT ![addr[c]] = [count |-> 1, resetAt |-> end]]
    BY <1>4 DEF NewWindow
  <2>3. until' = [until EXCEPT ![addr[c]] = end]
    BY <1>4 DEF NewWindow
  <2> HIDE DEF end
  <2>4. [count |-> 1, resetAt |-> end] \in Counters
    BY <2>1
  <2>5. counters' \in [Addrs -> Counters \cup {None}]
    BY <2>1, <2>2, <2>4
  <2>6. until' \in [Addrs -> Nat \cup {-1}]
    BY <2>1, <2>3
  <2>7. TypeOK'
    <3>1. clock' \in 0..MaxTime /\ sweepNow' \in (0..MaxTime) \cup {None}
      BY <1>3, <2>1
    <3>2. QED
      BY <1>3, <2>1, <2>5, <2>6, <3>1
  <2>8. Remembered'
    <3> SUFFICES ASSUME NEW a \in Addrs, a \notin lagged'
                 PROVE  IF counters'[a] = None
                        THEN until'[a] < clock' \/ until'[a] = -1
                        ELSE counters'[a].resetAt = until'[a]
      BY DEF Remembered
    <3>1. CASE a = addr[c]
      <4>1. counters'[a] = [count |-> 1, resetAt |-> end] /\ until'[a] = end
        BY <2>1, <2>2, <2>3, <3>1
      <4>2. counters'[a] # None
        BY <4>1, <2>1
      <4>3. QED
        BY <4>1, <4>2
    <3>2. CASE a # addr[c]
      <4>1. counters'[a] = counters[a] /\ until'[a] = until[a]
        BY <2>1, <2>2, <2>3, <3>2
      <4>2. a \notin lagged /\ clock' = clock
        BY <1>3, <2>1
      <4>3. QED
        BY <4>1, <4>2 DEF Remembered
    <3>3. QED
      BY <3>1, <3>2
  <2>9. QED
    BY <1>3, <2>1, <2>7, <2>8
<1>5. ASSUME NEW c \in Callers, CountUp(c) PROVE IInv'
  <2>1. addr[c] \in Addrs /\ addr[c] # None /\ Grant(c) /\ until' = until
    BY <1>5 DEF CountUp
  <2>2. counters[addr[c]] \in Counters
    BY <1>5, <2>1 DEF CountUp, Expired
  <2> DEFINE more == [counters[addr[c]] EXCEPT !.count = @ + 1]
  <2>3. more \in Counters /\ more.resetAt = counters[addr[c]].resetAt
    BY <2>2, CountedUp
  <2>4. counters' = [counters EXCEPT ![addr[c]] = more]
    BY <1>5 DEF CountUp
  <2> HIDE DEF more
  <2>5. counters' \in [Addrs -> Counters \cup {None}]
    BY <2>1, <2>3, <2>4
  <2>6. TypeOK'
    <3>1. clock' \in 0..MaxTime /\ sweepNow' \in (0..MaxTime) \cup {None}
      BY <1>3, <2>1
    <3>2. QED
      BY <1>3, <2>1, <2>5, <3>1
  <2>7. Remembered'
    <3> SUFFICES ASSUME NEW a \in Addrs, a \notin lagged'
                 PROVE  IF counters'[a] = None
                        THEN until'[a] < clock' \/ until'[a] = -1
                        ELSE counters'[a].resetAt = until'[a]
      BY DEF Remembered
    <3>1. a \notin lagged /\ clock' = clock
      BY <1>3, <2>1
    <3>2. CASE a = addr[c]
      <4>1. counters'[a] = more
        BY <2>1, <2>4, <3>2
      <4>2. counters'[a] # None /\ counters[a] # None
        BY <4>1, <2>2, <2>3, <3>2
      <4>3. QED
        BY <4>1, <4>2, <3>1, <2>1, <2>3, <3>2 DEF Remembered
    <3>3. CASE a # addr[c]
      <4>1. counters'[a] = counters[a]
        BY <2>1, <2>4, <3>3
      <4>2. QED
        BY <4>1, <3>1, <2>1 DEF Remembered
    <3>4. QED
      BY <3>2, <3>3
  <2>8. QED
    BY <1>3, <2>1, <2>6, <2>7
<1>6. ASSUME NEW c \in Callers, Refuse(c) PROVE IInv'
  BY <1>6 DEF Refuse, Return, Past, Remembered
<1>7. CASE SweepReadClock
  BY <1>7 DEF SweepReadClock, Past, Remembered
<1>8. CASE SweepDelete
  <2>1. TypeOK' /\ Past'
    BY <1>8 DEF SweepDelete, Past
  <2>2. Remembered'
    BY <1>8 DEF SweepDelete, Expired, Past, Remembered
  <2>3. QED
    BY <2>1, <2>2
<1>9. CASE UNCHANGED vars
  BY <1>9 DEF vars, Past, Remembered
<1>10. QED
  BY <1>1, <1>2, <1>4, <1>5, <1>6, <1>7, <1>8, <1>9 DEF Next

\* The invariant holds throughout, for any limit, window and number of callers.
LEMMA LimiterCorrect == Spec => []IInv
<1>1. Init => IInv
  BY LimiterInit
<1>2. IInv /\ [Next]_vars => IInv'
  BY LimiterNext
<1>3. QED
  BY <1>1, <1>2, PTL DEF Spec

\* The types of the limiter's state, for any limit and any window.
THEOREM LimiterTypeCorrect == Spec => []TypeOK
<1>1. IInv => TypeOK
  BY DEF IInv
<1>2. QED
  BY <1>1, LimiterCorrect, PTL

\* A window is never cut short for an address that is served in time, whatever
\* the sweep deletes and whenever it read the clock.
THEOREM NoWindowCutShort == Spec => WindowsDisjoint
<1> DEFINE Fresh == \A c \in Callers : \A a \in Addrs \ lagged' :
              (addr[c] = a /\ addr'[c] = None /\ counters'[a].count = 1
                           /\ grants'[a] # grants[a])
                  => now[c] > until[a]
<1>1. IInv /\ [Next]_vars => Fresh
  <2> SUFFICES ASSUME IInv, [Next]_vars,
                      NEW c \in Callers, NEW a \in Addrs, a \notin lagged',
                      addr[c] = a, addr'[c] = None, counters'[a].count = 1,
                      grants'[a] # grants[a]
               PROVE  now[c] > until[a]
    OBVIOUS
  <2> USE LimiterAssumption DEF IInv, TypeOK, Ticks, Counters
  <2>1. ASSUME NEW d \in Callers, NewWindow(d) PROVE now[c] > until[a]
    <3>1. addr[d] = a /\ d = c
      BY <2>1 DEF NewWindow, Grant, Return
    <3>2. a \notin lagged /\ now[c] = clock
      BY <2>1, <3>1 DEF NewWindow, Grant, Past
    <3>3. Expired(a, now[c])
      BY <2>1, <3>1 DEF NewWindow
    <3>4. QED
      BY <3>2, <3>3 DEF Expired, Remembered
  <2>2. ASSUME NEW d \in Callers, CountUp(d) PROVE FALSE
    <3>1. addr[d] = a /\ counters[a] \in Counters
      BY <2>2 DEF CountUp, Grant, Expired
    <3>2. counters'[a].count = counters[a].count + 1 /\ counters[a].count >= 1
      BY <2>2, <3>1 DEF CountUp
    <3>3. QED
      BY <3>2, <3>1
  <2>3. QED
    BY <2>1, <2>2
    DEF Next, Tick, ReadClock, Refuse, SweepReadClock, SweepDelete, vars
<1>2. QED
  BY <1>1, LimiterCorrect, PTL DEF Spec, WindowsDisjoint

-----------------------------------------------------------------------------
(* Grants in an interval                                                     *)

\* The ticks from from to to.
Span(from, to) == (from..to) \cap Ticks

\* There are finitely many ticks in an interval.
LEMMA SpanFinite ==
    ASSUME NEW from \in Int, NEW to \in Int
    PROVE  IsFiniteSet(Span(from, to)) /\ Span(from, to) \subseteq Ticks
<1>1. IsFiniteSet(Ticks)
  BY LimiterAssumption, FS_Interval DEF Ticks
<1> QED BY <1>1, FS_Subset, Span(from, to) \subseteq Ticks DEF Span

\* GrantsIn is a sum in the sense of SumTheorems.
LEMMA GrantsAreSums ==
    \A a, from, to : GrantsIn(a, from, to) = SumOf(grants[a], Span(from, to))
BY DEF GrantsIn, SumOf, Span

\* A granted request counts in the intervals that hold the time it read.
LEMMA GrantCounted ==
    ASSUME TypeOK, NEW c \in Callers, addr[c] \in Addrs, Grant(c),
           NEW a \in Addrs
    PROVE  \A from, to \in Int :
               SumOf(grants'[a], Span(from, to)) =
                   SumOf(grants[a], Span(from, to))
                   + (IF a = addr[c] /\ now[c] \in from..to THEN 1 ELSE 0)
<1> SUFFICES ASSUME NEW from \in Int, NEW to \in Int
             PROVE  SumOf(grants'[a], Span(from, to)) =
                        SumOf(grants[a], Span(from, to))
                        + (IF a = addr[c] /\ now[c] \in from..to THEN 1 ELSE 0)
  OBVIOUS
<1> DEFINE S == Span(from, to)
           y == now[c]
<1>1. IsFiniteSet(S) /\ S \subseteq Ticks
  BY SpanFinite
<1>2. \A x \in S : grants[a][x] \in Nat
  BY <1>1 DEF TypeOK
<1>3. y \in Ticks /\ (y \in S <=> y \in from..to)
  BY DEF TypeOK, Span
<1>4. CASE a = addr[c]
  <2>1. \A x \in S : grants'[a][x] = IF x = y THEN grants[a][x] + 1 ELSE grants[a][x]
    BY <1>1, <1>3, <1>4 DEF Grant, TypeOK
  <2> HIDE DEF S, y
  <2>2. SumOf(grants'[a], S) = SumOf(grants[a], S) + (IF y \in S THEN 1 ELSE 0)
    BY <1>1, <1>2, <2>1, SumIncrement
  <2> QED BY <1>3, <1>4, <2>2 DEF S, y
<1>5. CASE a # addr[c]
  <2>1. grants'[a] = grants[a]
    BY <1>5 DEF Grant, TypeOK
  <2>2. SumOf(grants[a], S) \in Nat
    BY <1>1, <1>2, SumInNat
  <2> QED BY <1>5, <2>1, <2>2
<1> QED BY <1>4, <1>5

\* Numbers of grants are natural, and a longer interval has at least as many.
LEMMA SpanGrows ==
    ASSUME NEW g \in [Ticks -> Nat],
           NEW from \in Int, NEW to \in Int, NEW lo \in Int, NEW hi \in Int
    PROVE  /\ SumOf(g, Span(from, to)) \in Nat
           /\ lo <= from /\ to <= hi => SumOf(g, Span(from, to)) <= SumOf(g, Span(lo, hi))
<1>1. \A x \in Ticks : g[x] \in Nat
  OBVIOUS
<1>2. IsFiniteSet(Span(from, to)) /\ Span(from, to) \subseteq Ticks
  BY SpanFinite
<1>3. IsFiniteSet(Span(lo, hi)) /\ Span(lo, hi) \subseteq Ticks
  BY SpanFinite
<1>4. SumOf(g, Span(from, to)) \in Nat
  BY <1>1, <1>2, SumInNat
<1>5. ASSUME lo <= from, to <= hi
      PROVE  SumOf(g, Span(from, to)) <= SumOf(g, Span(lo, hi))
  <2>1. Span(from, to) \in SUBSET Span(lo, hi)
    BY <1>5 DEF Span, Ticks
  <2> QED BY <1>1, <1>3, <2>1, SumMonotone
<1> QED BY <1>4, <1>5

\* An interval cut in two.
LEMMA SpanSplits ==
    ASSUME NEW g \in [Ticks -> Nat],
           NEW from \in Int, NEW mid \in Int, NEW to \in Int,
           from <= mid, mid - 1 <= to
    PROVE  SumOf(g, Span(from, to)) =
               SumOf(g, Span(from, mid - 1)) + SumOf(g, Span(mid, to))
<1> DEFINE S == Span(from, mid - 1)
           T == Span(mid, to)
<1>1. IsFiniteSet(S) /\ S \subseteq Ticks
  BY SpanFinite
<1>2. IsFiniteSet(T) /\ T \subseteq Ticks
  BY SpanFinite
<1>3. S \cap T = {} /\ S \cup T = Span(from, to)
  BY DEF Span, Ticks
<1>4. \A x \in S \cup T : g[x] \in Nat
  BY <1>1, <1>2
<1> HIDE DEF S, T
<1>5. SumOf(g, S \cup T) = SumOf(g, S) + SumOf(g, T)
  BY <1>1, <1>2, <1>3, <1>4, SumDisjoint
<1> QED BY <1>3, <1>5 DEF S, T

\* Nothing is counted in an interval without grants.
LEMMA SpanEmpty ==
    ASSUME NEW g \in [Ticks -> Nat], NEW from \in Int, NEW to \in Int,
           \A t \in Ticks : t >= from => g[t] = 0
    PROVE  SumOf(g, Span(from, to)) = 0
<1> DEFINE S == Span(from, to)
<1>1. IsFiniteSet(S) /\ S \subseteq Ticks
  BY SpanFinite
<1>2. \A x \in S : g[x] \in Nat /\ g[x] <= 0
  BY <1>1 DEF Span, Ticks
<1>3. Cardinality(S) \in Nat /\ 0 \in Nat
  BY <1>1, FS_CardinalityType
<1> HIDE DEF S
<1>4. SumOf(g, S) <= Cardinality(S) * 0
  BY <1>1, <1>2, <1>3, SumBound
<1>5. SumOf(g, S) \in Nat
  BY <1>1, <1>2, SumInNat
<1>6. SumOf(g, S) = 0
  BY <1>3, <1>4, <1>5
<1> QED BY <1>6 DEF S

\* No grant is later than this tick.
Ever == MaxTime + Window

\* An interval as long as a window, which is not over before the last window begins,
\* meets only that window and the one before.
LEMMA TwoWindows ==
    ASSUME NEW g \in [Ticks -> Nat], NEW u \in Int,
           SumOf(g, Span(u - Window, Ever)) <= Limit,
           SumOf(g, Span(u - 2 * Window, u - Window - 1)) <= Limit,
           NEW t \in Ticks, t + Window >= u - Window
    PROVE  SumOf(g, Span(t, t + Window)) <= 2 * Limit
<1> DEFINE s == u - Window
<1>0. /\ t \in Int /\ t <= MaxTime /\ Window \in Int /\ s \in Int /\ Ever \in Int
      /\ t + Window \in Int /\ u - 2 * Window \in Int /\ Limit \in Nat
  BY LimiterAssumption DEF Ticks, Ever
<1>1. CASE t >= s
  <2>1. t + Window <= Ever
    BY <1>0, LimiterAssumption DEF Ever
  <2>2. SumOf(g, Span(t, t + Window)) <= SumOf(g, Span(s, Ever))
    BY <1>0, <1>1, <2>1, SpanGrows
  <2>3. SumOf(g, Span(t, t + Window)) \in Nat /\ SumOf(g, Span(s, Ever)) \in Nat
    BY <1>0, SpanGrows
  <2> QED BY <1>0, <2>2, <2>3
<1>2. CASE t < s
  <2>1. s - 1 <= t + Window /\ u - 2 * Window <= t /\ t + Window <= Ever /\ t <= s
    BY <1>0, <1>2, LimiterAssumption DEF Ever
  <2>2. SumOf(g, Span(t, t + Window)) = SumOf(g, Span(t, s - 1)) + SumOf(g, Span(s, t + Window))
    BY <1>0, <2>1, SpanSplits
  <2>3. SumOf(g, Span(t, s - 1)) <= SumOf(g, Span(u - 2 * Window, s - 1))
    <3>1. s - 1 \in Int /\ s - 1 <= s - 1
      BY <1>0
    <3> QED BY <1>0, <2>1, <3>1, SpanGrows
  <2>4. SumOf(g, Span(s, t + Window)) <= SumOf(g, Span(s, Ever))
    <3>1. s <= s
      BY <1>0
    <3> QED BY <1>0, <2>1, <3>1, SpanGrows
  <2>5. /\ SumOf(g, Span(t, s - 1)) \in Nat /\ SumOf(g, Span(u - 2 * Window, s - 1)) \in Nat
        /\ SumOf(g, Span(s, t + Window)) \in Nat /\ SumOf(g, Span(s, Ever)) \in Nat
    <3>1. s - 1 \in Int
      BY <1>0
    <3> QED BY <1>0, <3>1, SpanGrows
  <2> QED BY <1>0, <2>2, <2>3, <2>4, <2>5
<1> QED BY <1>0, <1>1, <1>2

-----------------------------------------------------------------------------
(* The grants of the last two windows                                        *)

Granted(a, from, to) == SumOf(grants[a], Span(from, to))

\* Nobody waits longer for the mutex than MaxLag.
Waits == \A c \in Callers : addr[c] # None => clock - now[c] <= MaxLag

\* A counter counts requests of its own address that were granted lately.
Counted ==
    \A a \in Addrs : counters[a] # None =>
        /\ counters[a].resetAt <= clock + Window
        /\ counters[a].count <= Limit
        /\ counters[a].count <= Granted(a, counters[a].resetAt - Window - MaxLag, clock)

\* The last window of an address was opened in the past, no grant is later than
\* its end, ...
LastWindow ==
    \A a \in Addrs : /\ until[a] <= clock + Window
                     /\ a \notin lagged => \A t \in Ticks : t > until[a] => grants[a][t] = 0

\* ... and neither it nor the time before it, as long as a window, saw more grants
\* than the limit.
WindowsFilled ==
    \A a \in Addrs \ lagged :
        /\ Granted(a, until[a] - Window, Ever)
               <= IF counters[a] = None THEN Limit ELSE counters[a].count
        /\ Granted(a, until[a] - 2 * Window, until[a] - Window - 1) <= Limit

Bursts == \A a \in Addrs \ lagged : \A t \in Ticks : Granted(a, t, t + Window) <= 2 * Limit

GrantInv == Waits /\ Counted /\ LastWindow /\ WindowsFilled /\ Bursts

\* Nothing is granted before the first request.
LEMMA GrantsInit == Init => GrantInv
<1> SUFFICES ASSUME Init PROVE GrantInv
  OBVIOUS
<1> USE LimiterAssumption
<1>1. ASSUME NEW a \in Addrs, NEW from \in Int, NEW to \in Int
      PROVE  Granted(a, from, to) = 0
  <2>1. grants[a] \in [Ticks -> Nat] /\ \A t \in Ticks : grants[a][t] = 0
    BY DEF Init
  <2> QED BY <2>1, SpanEmpty DEF Granted
<1>2. \A a \in Addrs : until[a] = -1 /\ counters[a] = None
  BY DEF Init
<1>3. Waits /\ Counted /\ LastWindow
  BY <1>2 DEF Init, Waits, Counted, LastWindow, Ticks
<1>4. WindowsFilled
  <2> SUFFICES ASSUME NEW a \in Addrs
               PROVE  /\ Granted(a, until[a] - Window, Ever) = 0
                      /\ Granted(a, until[a] - 2 * Window, until[a] - Window - 1) = 0
    BY <1>2 DEF WindowsFilled
  <2>1. /\ until[a] - Window \in Int /\ Ever \in Int /\ until[a] - 2 * Window \in Int
        /\ until[a] - Window - 1 \in Int
    BY <1>2 DEF Ever
  <2> QED BY <1>1, <2>1
<1>5. Bursts
  <2> SUFFICES ASSUME NEW a \in Addrs, NEW t \in Ticks
               PROVE  Granted(a, t, t + Window) = 0
    BY DEF Bursts
  <2>1. t \in Int /\ t + Window \in Int
    BY DEF Ticks
  <2> QED BY <1>1, <2>1
<1> QED BY <1>3, <1>4, <1>5 DEF GrantInv

\* A step that grants nothing keeps the counts, though the clock may tick and the
\* sweep may delete counters.
LEMMA NothingGrantedNext ==
    ASSUME IInv, GrantInv, grants' = grants, until' = until, lagged' = lagged,
           clock' \in {clock, clock + 1},
           \A a \in Addrs : counters'[a] \in {counters[a], None}
    PROVE  (Counted /\ LastWindow /\ WindowsFilled /\ Bursts)'
<1> USE LimiterAssumption DEF IInv, TypeOK, GrantInv
<1>1. Counted'
  <2> SUFFICES ASSUME NEW a \in Addrs, counters'[a] # None
               PROVE  /\ counters'[a].resetAt <= clock' + Window
                      /\ counters'[a].count <= Limit
                      /\ counters'[a].count <=
                            SumOf(grants'[a],
                                  Span(counters'[a].resetAt - Window - MaxLag, clock'))
    BY DEF Counted, Granted
  <2>1. /\ counters'[a] = counters[a] /\ counters[a] \in Counters
        /\ clock \in Nat /\ clock' \in Nat /\ clock <= clock'
    BY DEF Ticks
  <2> DEFINE from == counters[a].resetAt - Window - MaxLag
             k == counters[a].count
  <2>2. from \in Int /\ k \in Nat /\ counters[a].resetAt \in Nat
    BY <2>1 DEF Counters
  <2>3. /\ counters[a].resetAt <= clock + Window /\ k <= Limit
        /\ k <= SumOf(grants[a], Span(from, clock))
    BY <2>1 DEF Counted, Granted
  <2>4. grants[a] \in [Ticks -> Nat] /\ clock \in Int /\ clock' \in Int /\ from <= from
    BY <2>1, <2>2
  <2> HIDE DEF from, k
  <2>5. SumOf(grants[a], Span(from, clock)) <= SumOf(grants[a], Span(from, clock'))
    BY <2>1, <2>2, <2>4, SpanGrows
  <2>6. /\ SumOf(grants[a], Span(from, clock)) \in Nat
        /\ SumOf(grants[a], Span(from, clock')) \in Nat
    BY <2>2, <2>4, SpanGrows
  <2>7. k <= SumOf(grants[a], Span(from, clock'))
    BY <2>2, <2>3, <2>5, <2>6
  <2> QED BY <2>1, <2>2, <2>3, <2>7 DEF from, k
<1>2. LastWindow'
  <2>1. \A a \in Addrs : until[a] <= clock' + Window
    <3>1. clock \in Nat /\ Window \in Nat
      BY DEF Ticks
    <3>2. \A a \in Addrs : until[a] \in Int /\ until[a] <= clock + Window
      BY DEF LastWindow
    <3> QED BY ONLY <3>1, <3>2, clock' \in {clock, clock + 1}
  <2>2. \A a \in Addrs : a \notin lagged => \A t \in Ticks : t > until[a] => grants[a][t] = 0
    BY DEF LastWindow
  <2> QED BY <2>1, <2>2 DEF LastWindow
<1>3. WindowsFilled'
  <2> SUFFICES ASSUME NEW a \in Addrs, a \notin lagged
               PROVE  /\ SumOf(grants[a], Span(until[a] - Window, Ever))
                             <= IF counters'[a] = None THEN Limit ELSE counters'[a].count
                      /\ SumOf(grants[a], Span(until[a] - 2 * Window, until[a] - Window - 1))
                             <= Limit
    BY DEF WindowsFilled, Granted
  <2> DEFINE w == SumOf(grants[a], Span(until[a] - Window, Ever))
  <2>1. /\ w <= IF counters[a] = None THEN Limit ELSE counters[a].count
        /\ SumOf(grants[a], Span(until[a] - 2 * Window, until[a] - Window - 1)) <= Limit
    BY DEF WindowsFilled, Granted
  <2>2. counters[a] # None => counters[a].count \in Nat /\ counters[a].count <= Limit
    BY DEF Counted, Counters
  <2>3. w \in Nat
    BY SpanGrows DEF Ever
  <2> HIDE DEF w
  <2>4. w <= IF counters'[a] = None THEN Limit ELSE counters'[a].count
    BY <2>1, <2>2, <2>3
  <2> QED BY <2>1, <2>4 DEF w
<1>4. Bursts'
  BY DEF Bursts, Granted
<1> QED BY <1>1, <1>2, <1>3, <1>4

\* A granted request is counted: its window was opened for it, or has room for it.
LEMMA GrantNext ==
    ASSUME IInv, GrantInv, NEW c \in Callers, NewWindow(c) \/ CountUp(c)
    PROVE  (Counted /\ LastWindow /\ WindowsFilled /\ Bursts)'
<1> USE LimiterAssumption DEF IInv, TypeOK, GrantInv
<1> DEFINE b == addr[c]
           n == now[c]
<1>1. b \in Addrs /\ addr[c] # None /\ Grant(c) /\ TypeOK
  BY DEF NewWindow, CountUp
<1>2. /\ clock \in Nat /\ clock <= MaxTime /\ n \in Ticks /\ n \in Nat /\ n <= clock
      /\ clock - MaxLag <= n /\ clock' = clock /\ n <= MaxTime
  BY <1>1 DEF Grant, Waits, Past, Ticks
<1>3. ASSUME NEW a \in Addrs
      PROVE  /\ grants[a] \in [Ticks -> Nat] /\ grants'[a] \in [Ticks -> Nat]
             /\ \A from, to \in Int :
                   SumOf(grants'[a], Span(from, to)) =
                       SumOf(grants[a], Span(from, to))
                       + (IF a = b /\ n \in from..to THEN 1 ELSE 0)
             /\ a # b => grants'[a] = grants[a]
             /\ \A t \in Ticks : t # n => grants'[a][t] = grants[a][t]
             /\ a \notin lagged' => a \notin lagged
  <2>1. \A from, to \in Int :
                   SumOf(grants'[a], Span(from, to)) =
                       SumOf(grants[a], Span(from, to))
                       + (IF a = b /\ n \in from..to THEN 1 ELSE 0)
    BY <1>1, GrantCounted
  <2>2. grants[a] \in [Ticks -> Nat] /\ grants'[a] \in [Ticks -> Nat]
    BY <1>1, <1>2 DEF Grant
  <2>3. (a # b => grants'[a] = grants[a]) /\ \A t \in Ticks : t # n => grants'[a][t] = grants[a][t]
    BY <1>1, <1>2 DEF Grant
  <2>4. a \notin lagged' => a \notin lagged
    BY <1>1 DEF Grant
  <2> QED BY <2>1, <2>2, <2>3, <2>4
<1>4. b \notin lagged' => n = clock /\ b \notin lagged
  <2>1. n < clock => b \in lagged'
    BY <1>1 DEF Grant
  <2>2. lagged \subseteq lagged'
    BY <1>1 DEF Grant
  <2> QED BY ONLY <1>2, <2>1, <2>2
<1>5. \A a \in Addrs : a # b => counters'[a] = counters[a] /\ until'[a] = until[a]
  BY <1>1 DEF NewWindow, CountUp
\* What the step means for the addresses that did not ask.
<1>6. ASSUME NEW a \in Addrs, a # b
      PROVE  /\ counters'[a] # None =>
                    /\ counters'[a].resetAt <= clock' + Window
                    /\ counters'[a].count <= Limit
                    /\ counters'[a].count <=
                         SumOf(grants'[a],
                               Span(counters'[a].resetAt - Window - MaxLag, clock'))
             /\ until'[a] <= clock' + Window
             /\ a \notin lagged' =>
                    /\ \A t \in Ticks : t > until'[a] => grants'[a][t] = 0
                    /\ SumOf(grants'[a], Span(until'[a] - Window, Ever))
                         <= IF counters'[a] = None THEN Limit ELSE counters'[a].count
                    /\ SumOf(grants'[a], Span(until'[a] - 2 * Window, until'[a] - Window - 1))
                         <= Limit
                    /\ \A t \in Ticks : SumOf(grants'[a], Span(t, t + Window)) <= 2 * Limit
  <2>1. /\ counters'[a] = counters[a] /\ until'[a] = until[a] /\ grants'[a] = grants[a]
        /\ clock' = clock /\ (a \notin lagged' => a \notin lagged)
    BY <1>2, <1>3, <1>5, <1>6
  <2>2. /\ counters[a] # None =>
               /\ counters[a].resetAt <= clock + Window
               /\ counters[a].count <= Limit
               /\ counters[a].count <=
                    SumOf(grants[a], Span(counters[a].resetAt - Window - MaxLag, clock))
        /\ until[a] <= clock + Window
    BY DEF Counted, LastWindow, Granted
  <2>3. a \notin lagged =>
               /\ \A t \in Ticks : t > until[a] => grants[a][t] = 0
               /\ SumOf(grants[a], Span(until[a] - Window, Ever))
                    <= IF counters[a] = None THEN Limit ELSE counters[a].count
               /\ SumOf(grants[a], Span(until[a] - 2 * Window, until[a] - Window - 1))
                    <= Limit
               /\ \A t \in Ticks : SumOf(grants[a], Span(t, t + Window)) <= 2 * Limit
    BY DEF LastWindow, WindowsFilled, Bursts, Granted
  <2> QED BY <2>1, <2>2, <2>3
\* What is left to show, for the address that asked.
<1>7. ASSUME /\ counters'[b] # None =>
                    /\ counters'[b].resetAt <= clock' + Window
                    /\ counters'[b].count <= Limit
                    /\ counters'[b].count <=
                         SumOf(grants'[b],
                               Span(counters'[b].resetAt - Window - MaxLag, clock'))
             /\ until'[b] <= clock' + Window
             /\ b \notin lagged' =>
                    /\ \A t \in Ticks : t > until'[b] => grants'[b][t] = 0
                    /\ SumOf(grants'[b], Span(until'[b] - Window, Ever))
                         <= IF counters'[b] = None THEN Limit ELSE counters'[b].count
                    /\ SumOf(grants'[b], Span(until'[b] - 2 * Window, until'[b] - Window - 1))
                         <= Limit
                    /\ \A t \in Ticks : SumOf(grants'[b], Span(t, t + Window)) <= 2 * Limit
      PROVE  (Counted /\ LastWindow /\ WindowsFilled /\ Bursts)'
  <2>1. Counted'
    BY <1>6, <1>7 DEF Counted, Granted
  <2>2. LastWindow'
    BY <1>6, <1>7 DEF LastWindow
  <2>3. WindowsFilled'
    BY <1>6, <1>7 DEF WindowsFilled, Granted
  <2>4. Bursts'
    BY <1>6, <1>7 DEF Bursts, Granted
  <2> QED BY <2>1, <2>2, <2>3, <2>4
<1>8. CASE NewWindow(c)
  <2> DEFINE end == n + Window
  <2>1. end \in Nat /\ Window \in Nat /\ MaxLag \in Nat /\ Limit \in Nat /\ 1 <= Limit
    BY <1>2
  <2>2. counters'[b] = [count |-> 1, resetAt |-> end] /\ until'[b] = end
    BY <1>1, <1>8 DEF NewWindow
  <2>3. counters'[b] # None /\ counters'[b].count = 1 /\ counters'[b].resetAt = end
    BY <2>1, <2>2
  <2>4. 1 <= SumOf(grants'[b], Span(end - Window - MaxLag, clock))
    <3>1. end - Window - MaxLag \in Int /\ clock \in Int /\ n \in (end - Window - MaxLag)..clock
      BY <1>2, <2>1
    <3> DEFINE m == SumOf(grants[b], Span(end - Window - MaxLag, clock))
    <3>2. m \in Nat
      BY <1>1, <1>3, <3>1, SpanGrows
    <3>3. SumOf(grants'[b], Span(end - Window - MaxLag, clock)) = m + 1
      BY <1>1, <1>3, <3>1
    <3> HIDE DEF m
    <3> QED BY <3>2, <3>3
  <2>5. end <= clock + Window
    BY <1>2, <2>1
  <2>6. ASSUME b \notin lagged'
        PROVE  /\ \A t \in Ticks : t > end => grants'[b][t] = 0
               /\ SumOf(grants'[b], Span(end - Window, Ever)) <= 1
               /\ SumOf(grants'[b], Span(end - 2 * Window, end - Window - 1)) <= Limit
               /\ \A t \in Ticks : SumOf(grants'[b], Span(t, t + Window)) <= 2 * Limit
    <3> DEFINE u == until[b]
               g == grants[b]
               h == grants'[b]
    <3>1. b \notin lagged /\ n = clock
      BY <1>4, <2>6
    <3>2. n > u /\ u \in Int
      <4>1. counters[b] # None => n > counters[b].resetAt
        BY <1>8 DEF NewWindow, Expired
      <4>2. IF counters[b] = None THEN u < clock \/ u = -1
                                 ELSE counters[b].resetAt = u
        BY <1>1, <3>1 DEF Remembered
      <4>3. u \in Nat \cup {-1}
        BY <1>1
      <4> HIDE DEF u
      <4> QED BY ONLY <1>2, <3>1, <4>1, <4>2, <4>3
    <3>3. /\ \A t \in Ticks : t > u => g[t] = 0
          /\ SumOf(g, Span(u - Window, Ever)) <= Limit
          /\ \A t \in Ticks : SumOf(g, Span(t, t + Window)) <= 2 * Limit
      <4>1. counters[b] # None => counters[b].count <= Limit /\ counters[b].count \in Nat
        BY <1>1 DEF Counted, Counters
      <4>2. SumOf(g, Span(u - Window, Ever))
                 <= IF counters[b] = None THEN Limit ELSE counters[b].count
        BY <1>1, <3>1 DEF WindowsFilled, Granted
      <4>3. SumOf(g, Span(u - Window, Ever)) \in Nat
        <5>1. u - Window \in Int /\ Ever \in Int
          BY <2>1, <3>2 DEF Ever
        <5> QED BY <1>1, <1>3, <5>1, SpanGrows
      <4>4. SumOf(g, Span(u - Window, Ever)) <= Limit
        BY ONLY <2>1, <4>1, <4>2, <4>3
      <4> QED BY <1>1, <3>1, <4>4 DEF LastWindow, Bursts, Granted
    <3>4. g \in [Ticks -> Nat] /\ h \in [Ticks -> Nat] /\ \A t \in Ticks : t # n => h[t] = g[t]
      BY <1>1, <1>3
    <3>5. \A from, to \in Int :
             SumOf(h, Span(from, to)) = SumOf(g, Span(from, to))
                                        + (IF n \in from..to THEN 1 ELSE 0)
      BY <1>1, <1>3
    <3>6. /\ Ever \in Int /\ n \in Int /\ end - Window = n /\ n \in n..Ever
          /\ end - 2 * Window = n - Window /\ end - Window - 1 = n - 1
          /\ n - Window \in Int /\ n - 1 \in Int /\ n \notin (n - Window)..(n - 1)
          /\ n - 1 <= Ever /\ u - Window <= n - Window /\ u - Window \in Int
      BY <1>2, <2>1, <3>2, LimiterAssumption DEF Ever
    <3> HIDE DEF g, h, u
    <3>7. \A t \in Ticks : t > end => h[t] = 0
      <4> SUFFICES ASSUME NEW t \in Ticks, t > end PROVE h[t] = 0
        OBVIOUS
      <4>1. t \in Nat /\ t > n /\ t > u
        BY <1>2, <2>1, <3>2 DEF Ticks
      <4>2. t # n
        BY <1>2, <4>1
      <4> QED BY ONLY <3>3, <3>4, <4>1, <4>2, t \in Ticks
    <3>8. SumOf(h, Span(n, Ever)) = 1
      <4>1. SumOf(g, Span(n, Ever)) = 0
        <5>1. \A t \in Ticks : t >= n => g[t] = 0
          BY <1>2, <3>2, <3>3 DEF Ticks
        <5> QED BY <3>4, <3>6, <5>1, SpanEmpty
      <4> QED BY <3>5, <3>6, <4>1
    <3>9. SumOf(h, Span(n - Window, n - 1)) <= Limit
      <4>1. SumOf(g, Span(n - Window, n - 1)) <= SumOf(g, Span(u - Window, Ever))
        BY <3>4, <3>6, SpanGrows
      <4>2. SumOf(g, Span(n - Window, n - 1)) \in Nat /\ SumOf(g, Span(u - Window, Ever)) \in Nat
        BY <3>4, <3>6, SpanGrows
      <4>3. SumOf(h, Span(n - Window, n - 1)) = SumOf(g, Span(n - Window, n - 1)) + 0
        BY <3>5, <3>6
      <4> QED BY <2>1, <3>3, <4>1, <4>2, <4>3
    <3>10. ASSUME NEW t \in Ticks PROVE SumOf(h, Span(t, t + Window)) <= 2 * Limit
      <4>1. t \in Int /\ t + Window \in Int
        BY <2>1 DEF Ticks
      <4>2. CASE t + Window >= n
        <5>1. /\ end \in Int /\ SumOf(h, Span(end - Window, Ever)) <= Limit
              /\ SumOf(h, Span(end - 2 * Window, end - Window - 1)) <= Limit
              /\ t + Window >= end - Window
          BY <2>1, <3>6, <3>8, <3>9, <4>2
        <5> HIDE DEF end
        <5> QED BY <3>4, <5>1, TwoWindows
      <4>3. CASE t + Window < n
        <5>1. n \notin t..(t + Window)
          BY <1>2, <4>1, <4>3
        <5>2. SumOf(h, Span(t, t + Window)) = SumOf(g, Span(t, t + Window)) + 0
          BY <3>5, <4>1, <5>1
        <5>3. SumOf(g, Span(t, t + Window)) \in Nat
          BY <3>4, <4>1, SpanGrows
        <5> QED BY <3>3, <5>2, <5>3
      <4> QED BY <1>2, <4>1, <4>2, <4>3
    <3> QED BY <2>1, <3>6, <3>7, <3>8, <3>9, <3>10 DEF h
  <2> HIDE DEF end
  <2> QED BY <1>2, <1>7, <2>1, <2>2, <2>3, <2>4, <2>5, <2>6
<1>9. CASE CountUp(c)
  <2> DEFINE k == counters[b]
             end == k.resetAt
  <2>1. /\ k # None /\ k \in Counters /\ n <= end /\ k.count < Limit
        /\ until' = until /\ counters'[b] = [k EXCEPT !.count = @ + 1]
    <3>1. k # None /\ ~(n > end)
      BY <1>9 DEF CountUp, Expired
    <3>2. k \in Counters /\ end \in Nat
      BY <1>1, <3>1 DEF Counters
    <3>3. k.count < Limit /\ until' = until /\ counters'[b] = [k EXCEPT !.count = @ + 1]
      BY <1>1, <1>9 DEF CountUp
    <3>4. n <= end
      BY ONLY <1>2, <3>1, <3>2
    <3> QED BY <3>1, <3>2, <3>3, <3>4
  <2>2. /\ counters'[b] # None /\ counters'[b].count = k.count + 1
        /\ counters'[b].resetAt = end
    BY <2>1, CountedUp DEF Counters
  <2>3. /\ end \in Nat /\ Window \in Nat /\ MaxLag \in Nat /\ Limit \in Nat
        /\ k.count \in Nat
    BY <2>1 DEF Counters
  <2>4. /\ end <= clock + Window
        /\ k.count <= SumOf(grants[b], Span(end - Window - MaxLag, clock))
    BY <1>1, <2>1 DEF Counted, Granted
  <2>5. k.count + 1 <= SumOf(grants'[b], Span(end - Window - MaxLag, clock))
    <3>1. end - Window - MaxLag \in Int /\ clock \in Int /\ n \in (end - Window - MaxLag)..clock
      BY <1>2, <2>3, <2>4
    <3> DEFINE m == SumOf(grants[b], Span(end - Window - MaxLag, clock))
    <3>2. m \in Nat
      BY <1>1, <1>3, <3>1, SpanGrows
    <3>3. SumOf(grants'[b], Span(end - Window - MaxLag, clock)) = m + 1
      BY <1>1, <1>3, <3>1
    <3>4. k.count <= m
      BY <2>4
    <3> HIDE DEF m, k, end
    <3> QED BY <2>3, <3>2, <3>3, <3>4
  <2>6. ASSUME b \notin lagged'
        PROVE  /\ \A t \in Ticks : t > end => grants'[b][t] = 0
               /\ SumOf(grants'[b], Span(end - Window, Ever)) <= k.count + 1
               /\ SumOf(grants'[b], Span(end - 2 * Window, end - Window - 1)) <= Limit
               /\ \A t \in Ticks : SumOf(grants'[b], Span(t, t + Window)) <= 2 * Limit
               /\ until[b] = end
    <3> DEFINE g == grants[b]
               h == grants'[b]
    <3>1. b \notin lagged /\ n = clock
      BY <1>4, <2>6
    <3>2. until[b] = end
      BY <1>1, <2>1, <3>1 DEF Remembered
    <3>3. /\ \A t \in Ticks : t > end => g[t] = 0
          /\ SumOf(g, Span(end - Window, Ever)) <= k.count
          /\ SumOf(g, Span(end - 2 * Window, end - Window - 1)) <= Limit
          /\ \A t \in Ticks : SumOf(g, Span(t, t + Window)) <= 2 * Limit
      BY <1>1, <2>1, <3>1, <3>2 DEF LastWindow, WindowsFilled, Bursts, Granted
    <3>4. g \in [Ticks -> Nat] /\ h \in [Ticks -> Nat] /\ \A t \in Ticks : t # n => h[t] = g[t]
      BY <1>1, <1>3
    <3>5. \A from, to \in Int :
             SumOf(h, Span(from, to)) = SumOf(g, Span(from, to))
                                        + (IF n \in from..to THEN 1 ELSE 0)
      BY <1>1, <1>3
    <3> HIDE DEF g, h, end, k
    <3>6. /\ Ever \in Int /\ end - Window \in Int /\ n \in (end - Window)..Ever
          /\ end - 2 * Window \in Int /\ end - Window - 1 \in Int
          /\ n \notin (end - 2 * Window)..(end - Window - 1)
      BY <1>2, <2>3, <2>4, <3>1, LimiterAssumption DEF Ever
    <3>7. \A t \in Ticks : t > end => h[t] = 0
      <4> SUFFICES ASSUME NEW t \in Ticks, t > end PROVE h[t] = 0
        OBVIOUS
      <4>1. t # n
        BY <1>2, <2>1, <2>3 DEF Ticks, end
      <4> QED BY ONLY <3>3, <3>4, <4>1, t \in Ticks, t > end
    <3>8. SumOf(h, Span(end - Window, Ever)) <= k.count + 1
      <4>1. SumOf(g, Span(end - Window, Ever)) \in Nat
        BY <3>4, <3>6, SpanGrows
      <4>2. SumOf(h, Span(end - Window, Ever)) = SumOf(g, Span(end - Window, Ever)) + 1
        BY <3>5, <3>6
      <4> QED BY <2>3, <3>3, <4>1, <4>2
    <3>9. SumOf(h, Span(end - 2 * Window, end - Window - 1)) <= Limit
      <4>1. SumOf(g, Span(end - 2 * Window, end - Window - 1)) \in Nat
        BY <3>4, <3>6, SpanGrows
      <4>2. SumOf(h, Span(end - 2 * Window, end - Window - 1)) =
                SumOf(g, Span(end - 2 * Window, end - Window - 1)) + 0
        BY <3>5, <3>6
      <4> QED BY <3>3, <4>1, <4>2
    <3>10. ASSUME NEW t \in Ticks PROVE SumOf(h, Span(t, t + Window)) <= 2 * Limit
      <4>1. t \in Int /\ t + Window \in Int
        BY <2>3 DEF Ticks
      <4>2. CASE t + Window >= end - Window
        <5>1. SumOf(h, Span(end - Window, Ever)) <= Limit
          <6>1. SumOf(h, Span(end - Window, Ever)) \in Nat
            BY <3>4, <3>6, SpanGrows
          <6>2. k.count + 1 <= Limit
            BY <2>1, <2>3 DEF k
          <6> QED BY <2>3, <3>8, <6>1, <6>2
        <5>2. end \in Int
          BY <2>3
        <5> QED BY <3>4, <3>9, <4>2, <5>1, <5>2, TwoWindows
      <4>3. CASE t + Window < end - Window
        <5>1. n \notin t..(t + Window)
          BY <1>2, <2>3, <3>6, <4>1, <4>3
        <5>2. SumOf(h, Span(t, t + Window)) = SumOf(g, Span(t, t + Window)) + 0
          BY <3>5, <4>1, <5>1
        <5>3. SumOf(g, Span(t, t + Window)) \in Nat
          BY <3>4, <4>1, SpanGrows
        <5> QED BY <3>3, <5>2, <5>3
      <4> QED BY <2>3, <4>1, <4>2, <4>3
    <3> QED BY <3>2, <3>7, <3>8, <3>9, <3>10 DEF h
  <2>7. until[b] \in Int /\ until[b] <= clock + Window
    BY <1>1 DEF LastWindow
  <2> HIDE DEF end, k
  <2>8. k.count + 1 <= Limit
    BY <2>1, <2>3 DEF k
  <2> QED BY <1>2, <1>7, <2>1, <2>2, <2>3, <2>4, <2>5, <2>6, <2>7, <2>8
<1> QED BY <1>8, <1>9

\* Every step keeps the counts.
LEMMA GrantsNext == IInv /\ GrantInv /\ [Next]_vars => GrantInv'
<1> SUFFICES ASSUME IInv, GrantInv, [Next]_vars PROVE GrantInv'
  OBVIOUS
<1> USE LimiterAssumption
<1>1. Waits'
  <2> SUFFICES ASSUME NEW d \in Callers, addr'[d] # None
               PROVE  clock' - now'[d] <= MaxLag
    BY DEF Waits
  <2>0. /\ clock \in Nat /\ now \in [Callers -> Ticks] /\ addr \in [Callers -> Addrs \cup {None}]
        /\ \A e \in Callers : now[e] \in Nat
    BY DEF IInv, TypeOK, Ticks
  <2>1. addr[d] # None => clock - now[d] <= MaxLag
    BY DEF GrantInv, Waits
  <2>2. CASE Tick
    BY <2>0, <2>2 DEF Tick, InTime
  <2>3. ASSUME NEW c \in Callers, NEW a \in Addrs, ReadClock(c, a)
        PROVE  clock' - now'[d] <= MaxLag
    BY <2>0, <2>1, <2>3 DEF ReadClock
  <2>4. ASSUME NEW c \in Callers, NewWindow(c) \/ CountUp(c) \/ Refuse(c)
        PROVE  clock' - now'[d] <= MaxLag
    <3>1. Return(c) /\ clock' = clock
      BY <2>4 DEF NewWindow, CountUp, Refuse, Grant
    <3> QED BY <2>0, <2>1, <3>1 DEF Return
  <2>5. CASE SweepReadClock \/ SweepDelete \/ UNCHANGED vars
    BY <2>1, <2>5 DEF SweepReadClock, SweepDelete, vars
  <2> QED BY <2>2, <2>3, <2>4, <2>5 DEF Next
<1>2. (Counted /\ LastWindow /\ WindowsFilled /\ Bursts)'
  <2>1. ASSUME NEW c \in Callers, NewWindow(c) \/ CountUp(c)
        PROVE  (Counted /\ LastWindow /\ WindowsFilled /\ Bursts)'
    BY <2>1, GrantNext
  <2>2. CASE Tick \/ (\E c \in Callers, a \in Addrs : ReadClock(c, a))
             \/ (\E c \in Callers : Refuse(c)) \/ SweepReadClock \/ UNCHANGED vars
    <3>1. /\ grants' = grants /\ until' = until /\ lagged' = lagged /\ counters' = counters
          /\ clock' \in {clock, clock + 1}
      BY <2>2 DEF Tick, ReadClock, Refuse, SweepReadClock, vars
    <3> QED BY <3>1, NothingGrantedNext
  <2>3. CASE SweepDelete
    <3>1. /\ grants' = grants /\ until' = until /\ lagged' = lagged /\ clock' = clock
          /\ \A a \in Addrs : counters'[a] \in {counters[a], None}
      BY <2>3 DEF SweepDelete
    <3> QED BY <3>1, NothingGrantedNext
  <2> QED BY <2>1, <2>2, <2>3 DEF Next
<1> QED BY <1>1, <1>2 DEF GrantInv

\* The counts are right throughout.
LEMMA GrantsCorrect == Spec => []GrantInv
<1>1. Init => IInv /\ GrantInv
  BY LimiterInit, GrantsInit
<1>2. (IInv /\ GrantInv) /\ [Next]_vars => (IInv /\ GrantInv)'
  BY LimiterNext, GrantsNext
<1> QED BY <1>1, <1>2, PTL DEF Spec

\* No interval as long as a window sees more than twice the limit granted to an
\* address that is served in time, for any limit, any window and any number of
\* callers (ratelimit.go:58-73, 86-97).
THEOREM BurstsBounded == Spec => []BurstBound
<1>1. GrantInv => BurstBound
  BY GrantsAreSums DEF GrantInv, Bursts, Granted, BurstBound
<1> QED BY <1>1, GrantsCorrect, PTL

\* A refused request comes after as many granted ones of its own address within a
\* window, give or take the wait for the mutex.
THEOREM RefusalsAreDeserved == Spec => RefusalsDeserved
<1> DEFINE Earned == \A c \in Callers :
              (addr[c] # None /\ addr'[c] = None /\ grants' = grants)
                  => GrantsIn(addr[c], now[c] - Window - MaxLag, now[c] + MaxLag) >= Limit
<1>1. IInv /\ GrantInv /\ [Next]_vars => Earned
  <2> SUFFICES ASSUME IInv, GrantInv, [Next]_vars, NEW c \in Callers,
                      addr[c] # None, addr'[c] = None, grants' = grants
               PROVE  GrantsIn(addr[c], now[c] - Window - MaxLag, now[c] + MaxLag) >= Limit
    OBVIOUS
  <2> USE LimiterAssumption
  <2>1. /\ addr[c] \in Addrs /\ now[c] \in Ticks /\ now[c] \in Nat /\ clock \in Nat
        /\ Window \in Nat /\ MaxLag \in Nat /\ Limit \in Nat
        /\ grants[addr[c]] \in [Ticks -> Nat]
    BY DEF IInv, TypeOK, Ticks
  <2>2. ASSUME NEW d \in Callers, NewWindow(d) \/ CountUp(d) PROVE FALSE
    <3>1. Grant(d) /\ addr[d] \in Addrs /\ now[d] \in Ticks
      BY <2>2 DEF NewWindow, CountUp, IInv, TypeOK
    <3>2. grants'[addr[d]][now[d]] = grants[addr[d]][now[d]] + 1
      BY <3>1 DEF Grant, IInv, TypeOK
    <3>3. grants[addr[d]][now[d]] \in Nat
      BY <3>1 DEF IInv, TypeOK
    <3> QED BY <3>2, <3>3
  <2>3. Refuse(c)
    <3>1. PICK d \in Callers : Refuse(d)
      BY <2>1, <2>2 DEF Next, Tick, ReadClock, SweepReadClock, SweepDelete, vars, IInv, TypeOK
    <3>2. d = c
      BY <3>1 DEF Refuse, Return, IInv, TypeOK
    <3> QED BY <3>1, <3>2
  <2> DEFINE k == counters[addr[c]]
             from == k.resetAt - Window - MaxLag
  <2>4. k # None /\ k \in Counters /\ k.count \in Nat /\ k.resetAt \in Nat
    BY <2>1, <2>3 DEF Refuse, Expired, IInv, TypeOK, Counters
  <2>5. k.count >= Limit /\ now[c] <= k.resetAt
    <3>1. k.count >= Limit /\ ~(now[c] > k.resetAt)
      BY <2>3 DEF Refuse, Expired
    <3> HIDE DEF k
    <3> QED BY <2>1, <2>4, <3>1
  <2>6. k.count <= SumOf(grants[addr[c]], Span(from, clock))
    BY <2>1, <2>4 DEF GrantInv, Counted, Granted
  <2>7. clock <= now[c] + MaxLag
    BY <2>1 DEF GrantInv, Waits
  <2> HIDE DEF k
  <2>8. /\ from \in Int /\ clock \in Int /\ now[c] - Window - MaxLag \in Int
        /\ now[c] + MaxLag \in Int /\ now[c] - Window - MaxLag <= from
    BY <2>1, <2>4, <2>5
  <2> HIDE DEF from
  <2> DEFINE m == SumOf(grants[addr[c]], Span(from, clock))
             r == SumOf(grants[addr[c]], Span(now[c] - Window - MaxLag, now[c] + MaxLag))
  <2>9. m <= r /\ m \in Nat /\ r \in Nat
    BY <2>1, <2>7, <2>8, SpanGrows
  <2>10. GrantsIn(addr[c], now[c] - Window - MaxLag, now[c] + MaxLag) = r
    BY GrantsAreSums
  <2> HIDE DEF m, r
  <2>11. r >= Limit
    BY <2>1, <2>4, <2>5, <2>6, <2>9 DEF m
  <2> QED BY <2>10, <2>11
<1> QED BY <1>1, LimiterCorrect, GrantsCorrect, PTL DEF Spec, RefusalsDeserved

=============================================================================
