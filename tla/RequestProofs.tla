---------------------------- MODULE RequestProofs ----------------------------
(***************************************************************************)
(* What holds of a request to the server, proved with TLAPS: of the        *)
(* limiter that it meets first, for every set of keys, every window and    *)
(* every limit (RateLimiter), and of the handlers of friendships, for      *)
(* every set of users and every number of requests in flight               *)
(* (Friendships).  The two share no state.                                 *)
(***************************************************************************)
EXTENDS Friendships, RateLimiter, TLAPS

-----------------------------------------------------------------------------
(* The limiter *)

LEMMA CountedType ==
  ASSUME NEW wc \in Windows
  PROVE  Counted(wc) \in Windows /\ ~Ended(Counted(wc))
BY WindowAssumption DEF Counted, Windows, Ended, Past

LEMMA ElapsedType ==
  ASSUME NEW wc \in Windows
  PROVE  Elapsed(wc) \in Windows /\ (Ended(wc) => Ended(Elapsed(wc)))
BY WindowAssumption DEF Elapsed, Windows, Ended, Past

LEMMA NoWindowType == NoWindow \in Windows /\ Ended(NoWindow)
BY WindowAssumption DEF NoWindow, Windows, Ended, Past

LEMMA Ends0 == 0 \in Ages /\ Window \in Ages
BY WindowAssumption DEF Ages

LEMMA AgedType ==
  ASSUME NEW f \in [Ages -> Nat]
  PROVE  Aged(f) \in [Ages -> Nat]
<1>1. \A a \in Ages : a # 0 => a - 1 \in Ages
  BY WindowAssumption DEF Ages
<1> QED
  BY <1>1 DEF Aged

LEMMA OneMoreType ==
  ASSUME NEW f \in [Ages -> Nat]
  PROVE  OneMore(f) \in [Ages -> Nat]
BY DEF OneMore

LEMMA LimiterTypeStep == LimiterTypeOK /\ [LimiterNext]_limiterVars => LimiterTypeOK'
<1> SUFFICES ASSUME LimiterTypeOK, [LimiterNext]_limiterVars PROVE LimiterTypeOK'
  OBVIOUS
<1>1. ASSUME NEW k \in Keys, allow(k) PROVE LimiterTypeOK'
  <2>1. counters' \in [Keys -> Windows] /\ kept' \in [Keys -> Windows]
    BY <1>1, CountedType DEF LimiterTypeOK, allow
  <2>2. OneMore(asked[k]) \in [Ages -> Nat] /\ OneMore(granted[k]) \in [Ages -> Nat]
    BY OneMoreType DEF LimiterTypeOK
  <2>3. asked' \in [Keys -> [Ages -> Nat]] /\ granted' \in [Keys -> [Ages -> Nat]]
    BY <1>1, <2>2 DEF LimiterTypeOK, allow
  <2> QED
    BY <2>1, <2>3 DEF LimiterTypeOK
<1>2. CASE cleanup
  BY <1>2, NoWindowType DEF cleanup, LimiterTypeOK
<1>3. CASE Tick
  <2>1. counters' \in [Keys -> Windows] /\ kept' \in [Keys -> Windows]
    BY <1>3, ElapsedType DEF Tick, LimiterTypeOK
  <2>2. asked' \in [Keys -> [Ages -> Nat]] /\ granted' \in [Keys -> [Ages -> Nat]]
    BY <1>3, AgedType DEF Tick, LimiterTypeOK
  <2> QED
    BY <2>1, <2>2 DEF LimiterTypeOK
<1>4. CASE UNCHANGED limiterVars
  BY <1>4 DEF limiterVars, LimiterTypeOK
<1> QED
  BY <1>1, <1>2, <1>3, <1>4 DEF LimiterNext

\* Every window has a count and a time left that is Past or lies within the
\* length of a window (windowCount, middleware.go).
THEOREM LimiterTypeCorrect == LimiterSpec => []LimiterTypeOK
<1>1. LimiterInit => LimiterTypeOK
  <2> SUFFICES ASSUME LimiterInit PROVE LimiterTypeOK
    OBVIOUS
  <2> QED
    BY NoWindowType DEF LimiterInit, LimiterTypeOK
<1> QED
  BY <1>1, LimiterTypeStep, PTL DEF LimiterSpec

-----------------------------------------------------------------------------
LEMMA InvisibleStep ==
  LimiterTypeOK /\ CleanupInvisible /\ [LimiterNext]_limiterVars => CleanupInvisible'
<1> SUFFICES ASSUME LimiterTypeOK, CleanupInvisible, [LimiterNext]_limiterVars,
                    NEW k \in Keys
             PROVE  IF Ended(kept'[k]) THEN Ended(counters'[k]) ELSE counters'[k] = kept'[k]
  BY DEF CleanupInvisible
<1>0. counters[k] \in Windows /\ kept[k] \in Windows
  BY DEF LimiterTypeOK
<1>1. IF Ended(kept[k]) THEN Ended(counters[k]) ELSE counters[k] = kept[k]
  BY DEF CleanupInvisible
<1>2. ASSUME NEW j \in Keys, allow(j)
      PROVE  IF Ended(kept'[k]) THEN Ended(counters'[k]) ELSE counters'[k] = kept'[k]
  <2>1. CASE j = k
    <3>1. counters'[k] = Counted(counters[k]) /\ kept'[k] = Counted(kept[k])
      BY <1>2, <2>1 DEF allow, LimiterTypeOK
    <3>2. Counted(counters[k]) = Counted(kept[k])
      BY <1>1 DEF Counted
    <3> QED
      BY <3>1, <3>2, <1>0, CountedType
  <2>2. CASE j # k
    BY <1>1, <1>2, <2>2 DEF allow, LimiterTypeOK
  <2> QED
    BY <2>1, <2>2
<1>3. CASE cleanup
  BY <1>1, <1>3, NoWindowType DEF cleanup
<1>4. CASE Tick
  <2>1. counters'[k] = Elapsed(counters[k]) /\ kept'[k] = Elapsed(kept[k])
    BY <1>4 DEF Tick
  <2> QED
    BY <2>1, <1>1, <1>0, ElapsedType
<1>5. CASE UNCHANGED limiterVars
  BY <1>1, <1>5 DEF limiterVars
<1> QED
  BY <1>2, <1>3, <1>4, <1>5 DEF LimiterNext

\* cleanupLoop changes no decision that is still to come: at every moment the
\* map answers as one from which nothing was ever dropped.
THEOREM CleanupIsInvisible == LimiterSpec => []CleanupInvisible
<1>1. LimiterInit => CleanupInvisible
  BY NoWindowType DEF LimiterInit, CleanupInvisible
<1> QED
  BY <1>1, InvisibleStep, LimiterTypeCorrect, PTL DEF LimiterSpec

-----------------------------------------------------------------------------
(***************************************************************************)
(* What a window has to do with the stretch of time that ends now.  A      *)
(* window that still runs was opened Window - left ticks ago: since then   *)
(* no more was granted than it counts, nor more than the limit; before     *)
(* then, within the stretch, no more than the limit, for at most one       *)
(* earlier window reaches into it.  Once it has ended, everything in the   *)
(* stretch was granted by it alone.                                        *)
(***************************************************************************)
Rising(f) == \A a, b \in Ages : a <= b => f[a] <= f[b]

Opened(wc) == Window - wc.left

Bounded(wc, g) ==
  IF Ended(wc)
  THEN g[0] = 0 /\ g[Window] <= Limit
  ELSE /\ g[Opened(wc)] <= wc.count /\ g[Opened(wc)] <= Limit
       /\ g[Window] <= g[Opened(wc)] + Limit

CountsAsked(wc, q) == ~Ended(wc) => wc.count <= q[Opened(wc)]

Ledger ==
  \A k \in Keys :
    /\ Rising(granted[k]) /\ Bounded(kept[k], granted[k])
    /\ Rising(asked[k]) /\ CountsAsked(kept[k], asked[k])

\* A running window was opened within the stretch.
LEMMA OpenedAge ==
  ASSUME NEW wc \in Windows, ~Ended(wc)
  PROVE  Opened(wc) \in Ages /\ wc.left \in 0..Window /\ wc.count \in Nat
BY WindowAssumption DEF Opened, Windows, Ended, Past, Ages

\* One more now is one more over every stretch.
LEMMA OneMoreCounts ==
  ASSUME NEW f \in [Ages -> Nat], Rising(f)
  PROVE  Rising(OneMore(f)) /\ \A a \in Ages : OneMore(f)[a] = f[a] + 1
BY DEF Rising, OneMore, Ages

\* A tick moves every count one age on, and the oldest out of the stretch.
LEMMA AgedCounts ==
  ASSUME NEW f \in [Ages -> Nat], Rising(f)
  PROVE  /\ Rising(Aged(f))
         /\ Aged(f)[0] = 0 /\ Aged(f)[Window] <= f[Window]
         /\ \A a \in Ages : a + 1 \in Ages => Aged(f)[a + 1] = f[a]
<1>1. \A a \in Ages : a \in Nat /\ (a # 0 => a - 1 \in Ages)
  BY WindowAssumption DEF Ages
<1>2. \A a \in Ages : Aged(f)[a] = IF a = 0 THEN 0 ELSE f[a - 1]
  BY DEF Aged
<1>3. \A a \in Ages : f[a] \in Nat
  OBVIOUS
<1>4. Rising(Aged(f))
  <2> SUFFICES ASSUME NEW a \in Ages, NEW b \in Ages, a <= b
               PROVE  Aged(f)[a] <= Aged(f)[b]
    BY DEF Rising
  <2>1. CASE a = 0
    BY <1>1, <1>2, <1>3, <2>1
  <2>2. CASE a # 0
    <3>1. b # 0 /\ a - 1 \in Ages /\ b - 1 \in Ages /\ a - 1 <= b - 1
      BY <1>1, <2>2
    <3>2. f[a - 1] <= f[b - 1]
      BY <3>1 DEF Rising
    <3> QED
      BY <1>2, <2>2, <3>1, <3>2
  <2> QED
    BY <2>1, <2>2
<1>5. Aged(f)[0] = 0
  BY <1>2, Ends0
<1>6. Aged(f)[Window] <= f[Window]
  <2>1. CASE Window = 0
    BY <1>2, <1>3, <2>1, Ends0
  <2>2. CASE Window # 0
    <3>1. Window - 1 \in Ages /\ Window - 1 <= Window
      BY <1>1, <2>2, Ends0
    <3>2. f[Window - 1] <= f[Window]
      BY <3>1, Ends0 DEF Rising
    <3> QED
      BY <1>2, <2>2, <3>2, Ends0
  <2> QED
    BY <2>1, <2>2
<1>7. ASSUME NEW a \in Ages, a + 1 \in Ages PROVE Aged(f)[a + 1] = f[a]
  BY <1>1, <1>2, <1>7
<1> QED
  BY <1>4, <1>5, <1>6, <1>7

\* A request counts in the window it falls into, and is granted if that
\* window's count allows it.
LEMMA BoundedCounted ==
  ASSUME NEW wc \in Windows, NEW g \in [Ages -> Nat], Rising(g), Bounded(wc, g),
         NEW h, h = IF Counted(wc).count <= Limit THEN OneMore(g) ELSE g
  PROVE  Rising(h) /\ Bounded(Counted(wc), h)
<1>1. /\ ~Ended(Counted(wc)) /\ Counted(wc) \in Windows
      /\ Rising(OneMore(g)) /\ \A a \in Ages : OneMore(g)[a] = g[a] + 1
      /\ Rising(h)
  BY CountedType, OneMoreCounts
<1>2. \A a \in Ages : g[a] \in Nat
  OBVIOUS
<1>3. CASE Ended(wc)
  <2>1. Counted(wc).count = 1 /\ Opened(Counted(wc)) = 0 /\ h = OneMore(g)
    BY <1>3, LimitAssumption, WindowAssumption DEF Counted, Opened
  <2>2. g[0] = 0 /\ g[Window] <= Limit
    BY <1>3 DEF Bounded
  <2> QED
    BY <1>1, <1>2, <2>1, <2>2, Ends0, LimitAssumption DEF Bounded
<1>4. CASE ~Ended(wc)
  <2> DEFINE e == Opened(wc)
  <2>1. e \in Ages /\ wc.count \in Nat
    BY <1>4, OpenedAge
  <2>2. Counted(wc).count = wc.count + 1 /\ Opened(Counted(wc)) = e
    BY <1>4 DEF Counted, Opened, Windows
  <2>3. g[e] <= wc.count /\ g[e] <= Limit /\ g[Window] <= g[e] + Limit
    BY <1>4 DEF Bounded
  <2> HIDE DEF e
  <2>4. CASE wc.count + 1 <= Limit
    <3>1. h[e] = g[e] + 1 /\ h[Window] = g[Window] + 1
      BY <1>1, <2>1, <2>2, <2>4, Ends0
    <3> QED
      BY <1>1, <1>2, <2>1, <2>2, <2>3, <2>4, <3>1, Ends0, LimitAssumption DEF Bounded
  <2>5. CASE ~(wc.count + 1 <= Limit)
    <3>1. h = g
      BY <2>2, <2>5
    <3> QED
      BY <1>1, <1>2, <2>1, <2>2, <2>3, <3>1, Ends0, LimitAssumption DEF Bounded
  <2> QED
    BY <2>4, <2>5
<1> QED
  BY <1>3, <1>4

LEMMA BoundedElapsed ==
  ASSUME NEW wc \in Windows, NEW g \in [Ages -> Nat], Rising(g), Bounded(wc, g)
  PROVE  Rising(Aged(g)) /\ Bounded(Elapsed(wc), Aged(g))
<1>1. /\ Rising(Aged(g)) /\ Aged(g)[0] = 0 /\ Aged(g)[Window] <= g[Window]
      /\ \A a \in Ages : a + 1 \in Ages => Aged(g)[a + 1] = g[a]
      /\ Aged(g) \in [Ages -> Nat]
  BY AgedCounts, AgedType
<1>2. g[Window] \in Nat /\ Aged(g)[Window] \in Nat
  BY <1>1, Ends0
<1>3. CASE Ended(wc)
  <2>1. Ended(Elapsed(wc)) /\ g[Window] <= Limit
    BY <1>3, ElapsedType DEF Bounded
  <2> QED
    BY <1>1, <1>2, <2>1, LimitAssumption DEF Bounded
<1>4. CASE ~Ended(wc) /\ wc.left = 0
  <2>1. Ended(Elapsed(wc)) /\ Opened(wc) = Window
    BY <1>4, WindowAssumption DEF Elapsed, Ended, Past, Opened, Windows
  <2>2. g[Window] <= Limit
    BY <1>4, <2>1 DEF Bounded
  <2> QED
    BY <1>1, <1>2, <2>1, <2>2, LimitAssumption DEF Bounded
<1>5. CASE ~Ended(wc) /\ wc.left # 0
  <2> DEFINE e == Opened(wc)
  <2>1. e \in Ages /\ wc.left \in 0..Window /\ wc.left # 0 /\ wc.count \in Nat
    BY <1>5, OpenedAge
  <2>2. Elapsed(wc) = [wc EXCEPT !.left = wc.left - 1]
    BY <1>5 DEF Elapsed, Ended
  <2>3. Elapsed(wc).left = wc.left - 1 /\ Elapsed(wc).count = wc.count
    BY <2>2 DEF Windows
  <2>4. ~Ended(Elapsed(wc))
    BY <2>1, <2>3, WindowAssumption DEF Ended, Past
  <2>5. Opened(Elapsed(wc)) = e + 1 /\ e + 1 \in Ages
    <3>1. e = Window - wc.left /\ Opened(Elapsed(wc)) = Window - (wc.left - 1)
      BY <2>3 DEF Opened
    <3>2. wc.left \in Int /\ 0 < wc.left /\ wc.left <= Window
      BY <2>1, WindowAssumption
    <3> QED
      BY <3>1, <3>2, WindowAssumption DEF Ages
  <2>6. g[e] <= wc.count /\ g[e] <= Limit /\ g[Window] <= g[e] + Limit
    BY <1>5 DEF Bounded
  <2> HIDE DEF e
  <2>7. Aged(g)[e + 1] = g[e] /\ g[e] \in Nat
    BY <1>1, <2>1, <2>5
  <2>8. Aged(g)[Window] <= g[e] + Limit
    BY <1>1, <1>2, <2>6, <2>7, LimitAssumption
  <2> QED
    BY <1>1, <2>3, <2>4, <2>5, <2>6, <2>7, <2>8 DEF Bounded
<1> QED
  BY <1>3, <1>4, <1>5

\* A window counts no more than was asked since it opened.
LEMMA AskedCounted ==
  ASSUME NEW wc \in Windows, NEW q \in [Ages -> Nat], Rising(q), CountsAsked(wc, q)
  PROVE  Rising(OneMore(q)) /\ CountsAsked(Counted(wc), OneMore(q))
<1>1. Rising(OneMore(q)) /\ \A a \in Ages : OneMore(q)[a] = q[a] + 1
  BY OneMoreCounts
<1>2. CASE Ended(wc)
  <2>1. Counted(wc).count = 1 /\ Opened(Counted(wc)) = 0
    BY <1>2, WindowAssumption DEF Counted, Opened
  <2>2. q[0] \in Nat
    BY Ends0
  <2> QED
    BY <1>1, <2>1, <2>2, Ends0 DEF CountsAsked
<1>3. CASE ~Ended(wc)
  <2>1. Opened(wc) \in Ages /\ wc.count \in Nat /\ q[Opened(wc)] \in Nat
    BY <1>3, OpenedAge
  <2>2. Counted(wc).count = wc.count + 1 /\ Opened(Counted(wc)) = Opened(wc)
    BY <1>3 DEF Counted, Opened, Windows
  <2>3. wc.count <= q[Opened(wc)]
    BY <1>3 DEF CountsAsked
  <2> QED
    BY <1>1, <2>1, <2>2, <2>3 DEF CountsAsked
<1> QED
  BY <1>2, <1>3

LEMMA AskedElapsed ==
  ASSUME NEW wc \in Windows, NEW q \in [Ages -> Nat], Rising(q), CountsAsked(wc, q)
  PROVE  Rising(Aged(q)) /\ CountsAsked(Elapsed(wc), Aged(q))
<1>1. Rising(Aged(q)) /\ \A a \in Ages : a + 1 \in Ages => Aged(q)[a + 1] = q[a]
  BY AgedCounts
<1>2. CASE Ended(Elapsed(wc))
  BY <1>1, <1>2 DEF CountsAsked
<1>3. CASE ~Ended(Elapsed(wc))
  <2>1. ~Ended(wc)
    BY <1>3, ElapsedType
  <2>2. wc.left \in 0..Window /\ wc.left # Past /\ Opened(wc) \in Ages
    BY <2>1, OpenedAge DEF Ended
  <2>3. Elapsed(wc).left = wc.left - 1 /\ Elapsed(wc).count = wc.count
    BY <2>2 DEF Elapsed, Windows
  <2>4. wc.left # 0
    BY <1>3, <2>3 DEF Ended, Past
  <2>5. Opened(Elapsed(wc)) = Opened(wc) + 1 /\ Opened(wc) + 1 \in Ages
    <3>1. Opened(Elapsed(wc)) = Window - (wc.left - 1) /\ Opened(wc) = Window - wc.left
      BY <2>3 DEF Opened
    <3> QED
      BY <2>2, <2>4, <3>1, WindowAssumption DEF Ages
  <2>6. wc.count <= q[Opened(wc)]
    BY <2>1 DEF CountsAsked
  <2> QED
    BY <1>1, <2>2, <2>3, <2>5, <2>6 DEF CountsAsked
<1> QED
  BY <1>2, <1>3

\* The map and the map without cleanup answer a request alike.
LEMMA SameAnswer ==
  ASSUME LimiterTypeOK, CleanupInvisible, NEW k \in Keys, allow(k)
  PROVE  /\ kept'[k] = Counted(kept[k])
         /\ asked'[k] = OneMore(asked[k])
         /\ granted'[k] = IF Counted(kept[k]).count <= Limit
                          THEN OneMore(granted[k]) ELSE granted[k]
         /\ \A j \in Keys \ {k} :
              kept'[j] = kept[j] /\ asked'[j] = asked[j] /\ granted'[j] = granted[j]
<1>1. counters'[k] = Counted(counters[k]) /\ kept'[k] = Counted(kept[k])
  BY DEF allow, LimiterTypeOK
<1>2. Counted(counters[k]) = Counted(kept[k])
  BY DEF CleanupInvisible, Counted
<1> QED
  BY <1>1, <1>2 DEF allow, LimiterTypeOK

LEMMA LedgerStep ==
  LimiterTypeOK /\ CleanupInvisible /\ Ledger /\ [LimiterNext]_limiterVars => Ledger'
<1> SUFFICES ASSUME LimiterTypeOK, CleanupInvisible, Ledger, [LimiterNext]_limiterVars,
                    NEW k \in Keys
             PROVE  /\ Rising(granted'[k]) /\ Bounded(kept'[k], granted'[k])
                    /\ Rising(asked'[k]) /\ CountsAsked(kept'[k], asked'[k])
  BY DEF Ledger
<1>1. /\ kept[k] \in Windows
      /\ granted[k] \in [Ages -> Nat] /\ asked[k] \in [Ages -> Nat]
      /\ Rising(granted[k]) /\ Bounded(kept[k], granted[k])
      /\ Rising(asked[k]) /\ CountsAsked(kept[k], asked[k])
  BY DEF LimiterTypeOK, Ledger
<1>2. CASE UNCHANGED <<kept[k], granted[k], asked[k]>>
  BY <1>1, <1>2
<1>3. CASE allow(k)
  BY <1>1, <1>3, SameAnswer, BoundedCounted, AskedCounted
<1>4. ASSUME NEW j \in Keys \ {k}, allow(j)
      PROVE  UNCHANGED <<kept[k], granted[k], asked[k]>>
  BY <1>4, SameAnswer
<1>5. CASE Tick
  BY <1>1, <1>5, BoundedElapsed, AskedElapsed DEF Tick
<1>6. CASE cleanup \/ UNCHANGED limiterVars
  BY <1>2, <1>6 DEF cleanup, limiterVars
<1> QED
  BY <1>2, <1>3, <1>4, <1>5, <1>6 DEF LimiterNext

LEMMA LedgerHolds == LimiterSpec => []Ledger
<1>1. LimiterInit => Ledger
  <2> SUFFICES ASSUME LimiterInit, NEW k \in Keys
               PROVE  /\ Rising(granted[k]) /\ Bounded(kept[k], granted[k])
                      /\ Rising(asked[k]) /\ CountsAsked(kept[k], asked[k])
    BY DEF Ledger
  <2>1. /\ kept[k] = NoWindow /\ Ended(kept[k])
        /\ \A a \in Ages : granted[k][a] = 0 /\ asked[k][a] = 0
    BY NoWindowType DEF LimiterInit
  <2> QED
    BY <2>1, Ends0, LimitAssumption DEF Rising, Bounded, CountsAsked
<1> QED
  BY <1>1, LedgerStep, LimiterTypeCorrect, CleanupIsInvisible, PTL DEF LimiterSpec

\* The limiter is of fixed windows and yet lets no more than twice its limit
\* through in any stretch as long as a window, for every limit and window
\* (slidingLimiter.allow).
THEOREM TwiceAtMostHolds == LimiterSpec => []TwiceAtMost
<1>1. LimiterTypeOK /\ Ledger => TwiceAtMost
  <2> SUFFICES ASSUME LimiterTypeOK, Ledger, NEW k \in Keys
               PROVE  granted[k][Window] <= 2 * Limit
    BY DEF TwiceAtMost
  <2>1. kept[k] \in Windows /\ granted[k] \in [Ages -> Nat] /\ Bounded(kept[k], granted[k])
    BY DEF LimiterTypeOK, Ledger
  <2>2. CASE Ended(kept[k])
    BY <2>1, <2>2, Ends0, LimitAssumption DEF Bounded
  <2>3. CASE ~Ended(kept[k])
    <3>1. Opened(kept[k]) \in Ages
      BY <2>1, <2>3, OpenedAge
    <3> QED
      BY <2>1, <2>3, <3>1, Ends0, LimitAssumption DEF Bounded
  <2> QED
    BY <2>2, <2>3
<1> QED
  BY <1>1, LimiterTypeCorrect, LedgerHolds, PTL

\* A client that asks no more than the limit over every stretch as long as a
\* window is never answered 429 (slidingLimiter.allow).
THEOREM PoliteServedHolds == LimiterSpec => PoliteServed
<1>1. LimiterTypeOK /\ CleanupInvisible /\ Ledger /\ [LimiterNext]_limiterVars
        => [Polite]_limiterVars
  <2> SUFFICES ASSUME LimiterTypeOK, CleanupInvisible, Ledger, [LimiterNext]_limiterVars,
                      NEW k \in Keys,
                      asked'[k][0] = asked[k][0] + 1, asked'[k][Window] <= Limit
               PROVE  granted'[k][0] = granted[k][0] + 1
    BY DEF Polite
  <2>1. /\ kept[k] \in Windows /\ CountsAsked(kept[k], asked[k]) /\ Rising(asked[k])
        /\ asked[k] \in [Ages -> Nat] /\ granted[k] \in [Ages -> Nat]
    BY DEF LimiterTypeOK, Ledger
  <2>2. asked[k][0] \in Nat /\ asked[k][Window] \in Nat
    BY <2>1, Ends0
  <2>3. CASE allow(k)
    <3>1. asked'[k][Window] = asked[k][Window] + 1
      BY <2>1, <2>3, SameAnswer, OneMoreCounts, Ends0
    <3>2. Counted(kept[k]).count <= Limit
      <4>1. CASE Ended(kept[k])
        BY <4>1, LimitAssumption DEF Counted
      <4>2. CASE ~Ended(kept[k])
        <5>1. /\ Opened(kept[k]) \in Ages /\ kept[k].count \in Nat
              /\ Opened(kept[k]) <= Window
          BY <2>1, <4>2, OpenedAge, WindowAssumption DEF Ages
        <5>2. /\ kept[k].count <= asked[k][Opened(kept[k])]
              /\ asked[k][Opened(kept[k])] <= asked[k][Window]
              /\ asked[k][Opened(kept[k])] \in Nat
          BY <2>1, <4>2, <5>1, Ends0 DEF CountsAsked, Rising
        <5>3. Counted(kept[k]).count = kept[k].count + 1
          BY <2>1, <4>2 DEF Counted, Windows
        <5> QED
          BY <2>2, <3>1, <5>1, <5>2, <5>3, LimitAssumption
      <4> QED
        BY <4>1, <4>2
    <3>3. granted'[k] = OneMore(granted[k])
      BY <2>3, <3>2, SameAnswer
    <3> QED
      BY <3>3, Ends0 DEF OneMore
  <2>4. ASSUME NEW j \in Keys \ {k}, allow(j) PROVE FALSE
    <3>1. asked'[k] = asked[k]
      BY <2>4, SameAnswer
    <3> QED
      BY <2>2, <3>1
  <2>5. CASE Tick
    <3>1. asked'[k][0] = 0
      BY <2>5, Ends0 DEF Tick, Aged
    <3> QED
      BY <2>2, <3>1
  <2>6. CASE cleanup \/ UNCHANGED limiterVars
    BY <2>2, <2>6 DEF cleanup, limiterVars
  <2> QED
    BY <2>3, <2>4, <2>5, <2>6 DEF LimiterNext
<1> QED
  BY <1>1, LimiterTypeCorrect, CleanupIsInvisible, LedgerHolds, PTL DEF LimiterSpec, PoliteServed

-----------------------------------------------------------------------------
(* Friendships *)

\* The pair of a request in flight is a pair of users.
Paired == \A r \in Requests : req[r] # Idle => PairOf(r) \in Pairs

\* Ids come from a sequence that never goes back: what was read is older.
IdsOlder ==
  /\ \A p \in Pairs : rows[p].id \in 0..nextId - 1
  /\ \A p \in Pairs : rows[p].id = 0 => rows[p] = NoRow
  /\ \A r \in Requests : At(r, "accept", "write") => req[r].id \in 1..nextId - 1

\* A pending row stands for its requester's wish alone.
PendingByOne ==
  \A p \in Pairs : rows[p].status = "pending" =>
    /\ rows[p].by \in p
    /\ agreed[p] = {rows[p].by}

\* As long as the row an accept has read lasts, its requester is among those
\* who agreed, whatever has become of the status, unless a block came between.
OthersWish ==
  \A r \in Requests : At(r, "accept", "write") =>
    (rows[PairOf(r)].id = req[r].id =>
       req[r].other \in agreed[PairOf(r)] \/ PairOf(r) \in raced)

AgreedWithin == \A p \in Pairs : agreed[p] \subseteq p

IInv ==
  /\ TypeOK
  /\ Paired
  /\ IdsOlder
  /\ PendingByOne
  /\ OthersWish
  /\ AgreedWithin
  /\ Consent
  /\ References

-----------------------------------------------------------------------------
(* What the types say of one request and one row *)

LEMMA RequestShape ==
  ASSUME TypeOK, NEW r \in Requests, req[r] # Idle
  PROVE  /\ req[r].me \in Users
         /\ req[r].other \in Users
         /\ req[r].stage \in {"read", "write"}
         /\ req[r].stage = "write" => req[r].id \in Ids \cup {0}
<1>1. CASE req[r] \in Reading
  BY <1>1 DEF Reading
<1>2. CASE req[r] \in Writing
  BY <1>2 DEF Writing
<1> QED
  BY <1>1, <1>2 DEF TypeOK

LEMMA RowShape ==
  ASSUME TypeOK, NEW p \in Pairs
  PROVE  /\ rows[p] \in Rows \cup {NoRow}
         /\ rows[p] # NoRow => /\ rows[p].id \in Ids
                               /\ rows[p].status \in {"pending", "accepted", "blocked"}
                               /\ rows[p].by \in Users
         /\ rows[p] = NoRow => rows[p].id = 0 /\ rows[p].status = "none"
BY DEF TypeOK, Rows, NoRow

LEMMA PairMembers == \A p \in Pairs : p \subseteq Users
BY DEF Pairs

\* The answer empties one slot and leaves the others.
LEMMA AnswerShape ==
  ASSUME TypeOK, NEW r \in Requests, Answer(r)
  PROVE  /\ req' \in [Requests -> Reading \cup Writing \cup {Idle}]
         /\ req'[r] = Idle
         /\ \A q \in Requests : q # r => req'[q] = req[q]
BY DEF TypeOK, Answer

\* A decision moves one slot to its write.
LEMMA DecideShape ==
  ASSUME TypeOK, NEW r \in Requests, req[r] # Idle,
         NEW op \in {"insert", "accept", "delete"}, NEW id \in Ids \cup {0},
         Decide(r, op, id)
  PROVE  /\ req' \in [Requests -> Reading \cup Writing \cup {Idle}]
         /\ req'[r] = [op |-> op, me |-> req[r].me, other |-> req[r].other,
                       stage |-> "write", id |-> id]
         /\ \A q \in Requests : q # r => req'[q] = req[q]
<1>1. req[r].me \in Users /\ req[r].other \in Users
  BY RequestShape
<1>2. [op |-> op, me |-> req[r].me, other |-> req[r].other,
       stage |-> "write", id |-> id] \in Writing
  BY <1>1 DEF Writing
<1> QED
  BY <1>2 DEF TypeOK, Decide

-----------------------------------------------------------------------------
(* Steps that only move a request *)

LEMMA AnswerStep ==
  ASSUME IInv, NEW r \in Requests, Answer(r),
         UNCHANGED <<known, tokens, rows, nextId, wishes>>
  PROVE  IInv'
<1> USE DEF IInv
<1>1. /\ req' \in [Requests -> Reading \cup Writing \cup {Idle}]
      /\ req'[r] = Idle
      /\ \A q \in Requests : q # r => req'[q] = req[q]
  BY AnswerShape
<1>2. TypeOK'
  BY <1>1 DEF TypeOK, wishes
<1>3. Paired' /\ IdsOlder' /\ OthersWish'
  BY <1>1 DEF Paired, IdsOlder, OthersWish, At, PairOf, wishes
<1>4. PendingByOne' /\ AgreedWithin' /\ Consent' /\ References'
  BY DEF PendingByOne, AgreedWithin, Consent, References, wishes
<1> QED
  BY <1>2, <1>3, <1>4

LEMMA DecideStep ==
  ASSUME IInv, NEW r \in Requests, req[r] # Idle,
         NEW op \in {"insert", "accept", "delete"}, NEW id \in Ids \cup {0},
         Decide(r, op, id),
         op = "accept" =>
           /\ id = rows[PairOf(r)].id
           /\ rows[PairOf(r)].status = "pending"
           /\ rows[PairOf(r)].by # req[r].me,
         UNCHANGED <<known, tokens, rows, nextId, wishes>>
  PROVE  IInv'
<1> USE DEF IInv
<1>1. /\ req' \in [Requests -> Reading \cup Writing \cup {Idle}]
      /\ req'[r] = [op |-> op, me |-> req[r].me, other |-> req[r].other,
                    stage |-> "write", id |-> id]
      /\ \A q \in Requests : q # r => req'[q] = req[q]
  BY DecideShape
<1>2. TypeOK'
  BY <1>1 DEF TypeOK, wishes
<1>3. PairOf(r) \in Pairs
  BY DEF Paired
<1>4. PairOf(r)' = PairOf(r)
  BY <1>1 DEF PairOf
<1>5. Paired'
  BY <1>1, <1>3, <1>4 DEF Paired, PairOf
<1>6. At(r, "accept", "write")' => op = "accept"
  BY <1>1 DEF At
<1>7. ASSUME op = "accept"
      PROVE  /\ id \in 1..nextId - 1
             /\ req[r].other \in agreed[PairOf(r)]
  <2>1. /\ rows[PairOf(r)] # NoRow
        /\ rows[PairOf(r)].id = id
    BY <1>3, <1>7, RowShape
  <2>2. id \in 1..nextId - 1
    BY <1>3, <2>1 DEF IdsOlder, TypeOK, Ids
  <2>3. rows[PairOf(r)].by \in PairOf(r) /\ agreed[PairOf(r)] = {rows[PairOf(r)].by}
    BY <1>3, <1>7 DEF PendingByOne
  <2>4. rows[PairOf(r)].by = req[r].other
    BY <2>3, <1>7 DEF PairOf
  <2> QED
    BY <2>2, <2>3, <2>4
<1>8. IdsOlder'
  <2>1. ASSUME NEW q \in Requests, At(q, "accept", "write")'
        PROVE  req'[q].id \in 1..nextId - 1
    BY <1>1, <1>6, <1>7, <2>1 DEF IdsOlder, At
  <2> QED
    BY <2>1 DEF IdsOlder
<1>9. OthersWish'
  <2>1. ASSUME NEW q \in Requests, At(q, "accept", "write")',
               rows[PairOf(q)'].id = req'[q].id
        PROVE  req'[q].other \in agreed[PairOf(q)'] \/ PairOf(q)' \in raced
    <3>1. CASE q = r
      BY <1>1, <1>4, <1>6, <1>7, <2>1, <3>1
    <3>2. CASE q # r
      BY <1>1, <2>1, <3>2 DEF OthersWish, At, PairOf
    <3> QED
      BY <3>1, <3>2
  <2> QED
    BY <2>1 DEF OthersWish, wishes
<1>10. PendingByOne' /\ AgreedWithin' /\ Consent' /\ References'
  BY DEF PendingByOne, AgreedWithin, Consent, References, wishes
<1> QED
  BY <1>2, <1>5, <1>8, <1>9, <1>10

-----------------------------------------------------------------------------
(* Steps that write a row *)

\* What any handler may put in the place of its pair's row: a row of the same
\* id with no wish forgotten or with the acceptances on their way noted, a row
\* of a fresh id, or none.
LEMMA RowStep ==
  ASSUME IInv, NEW r \in Requests, Answer(r), req[r] # Idle,
         NEW row \in Rows \cup {NoRow}, NEW wish \in SUBSET PairOf(r),
         rows' = [rows EXCEPT ![PairOf(r)] = row],
         agreed' = [agreed EXCEPT ![PairOf(r)] = wish],
         raced' \in SUBSET Pairs,
         \A q \in Pairs : q # PairOf(r) => (q \in raced' <=> q \in raced),
         UNCHANGED <<known, tokens>>,
         nextId' \in nextId..nextId + 1, nextId' <= MaxId + 1,
         row.id \in 0..nextId' - 1,
         row.id = 0 => row = NoRow,
         \/ /\ row.id = rows[PairOf(r)].id
            /\ agreed[PairOf(r)] \subseteq wish
            /\ PairOf(r) \in raced => PairOf(r) \in raced'
         \/ row.id = rows[PairOf(r)].id /\ (Racing(PairOf(r)) => PairOf(r) \in raced')
         \/ row.id \in {0, nextId},
         row.status = "pending" => row.by \in PairOf(r) /\ wish = {row.by},
         row.status = "accepted" => wish = PairOf(r) \/ PairOf(r) \in raced',
         row # NoRow => PairOf(r) \subseteq known
  PROVE  IInv'
<1> USE DEF IInv
<1> DEFINE p == PairOf(r)
<1>1. p \in Pairs /\ p \subseteq Users
  BY PairMembers DEF Paired
<1>2. /\ req' \in [Requests -> Reading \cup Writing \cup {Idle}]
      /\ req'[r] = Idle
      /\ \A q \in Requests : q # r => req'[q] = req[q]
  BY AnswerShape
<1>3. /\ rows' \in [Pairs -> Rows \cup {NoRow}]
      /\ rows'[p] = row
      /\ \A q \in Pairs : q # p => rows'[q] = rows[q]
  BY <1>1 DEF TypeOK
<1>4. /\ agreed' \in [Pairs -> SUBSET Users]
      /\ agreed'[p] = wish
      /\ \A q \in Pairs : q # p => agreed'[q] = agreed[q]
  BY <1>1 DEF TypeOK
<1> HIDE DEF p
<1>5. nextId \in Nat /\ nextId' \in 1..MaxId + 1 /\ nextId <= nextId'
  BY MaxIdAssumption DEF TypeOK
<1>6. TypeOK'
  BY <1>2, <1>3, <1>4, <1>5 DEF TypeOK
<1>7. Paired'
  BY <1>2 DEF Paired, PairOf
<1>8. IdsOlder'
  <2>1. ASSUME NEW q \in Pairs
        PROVE  rows'[q].id \in 0..nextId' - 1 /\ (rows'[q].id = 0 => rows'[q] = NoRow)
    BY <1>3, <1>5 DEF IdsOlder
  <2>2. ASSUME NEW q \in Requests, At(q, "accept", "write")'
        PROVE  req'[q].id \in 1..nextId' - 1
    BY <1>2, <1>5, <2>2 DEF IdsOlder, At
  <2> QED
    BY <2>1, <2>2 DEF IdsOlder
<1>9. OthersWish'
  <2> SUFFICES ASSUME NEW q \in Requests, At(q, "accept", "write")',
                      rows'[PairOf(q)'].id = req'[q].id
               PROVE  req'[q].other \in agreed'[PairOf(q)'] \/ PairOf(q)' \in raced'
    BY DEF OthersWish
  <2>1. q # r /\ req'[q] = req[q]
    BY <1>2 DEF At
  <2>2. At(q, "accept", "write") /\ PairOf(q)' = PairOf(q) /\ PairOf(q) \in Pairs
    BY <2>1 DEF At, PairOf, Paired
  <2>3. req[q].id \in 1..nextId - 1
    BY <2>2 DEF IdsOlder
  <2>4. CASE PairOf(q) # p
    BY <1>3, <1>4, <2>1, <2>2, <2>4 DEF OthersWish, p
  <2>5. CASE PairOf(q) = p
    <3>1. row.id = req[q].id
      BY <1>3, <2>1, <2>2, <2>5
    <3>2. row.id \notin {0, nextId}
      BY <1>5, <2>3, <3>1
    <3>3. rows[p].id = row.id
      BY <3>2 DEF p
    <3>4. Racing(p)
      BY <2>2, <2>5, <3>1, <3>3 DEF Racing
    <3>5. \/ agreed[p] \subseteq wish /\ (p \in raced => p \in raced')
          \/ p \in raced'
      BY <3>2, <3>4 DEF p
    <3> QED
      BY <1>4, <2>1, <2>2, <2>5, <3>1, <3>3, <3>5 DEF OthersWish
  <2> QED
    BY <2>4, <2>5
<1>10. PendingByOne' /\ AgreedWithin' /\ Consent'
  BY <1>3, <1>4 DEF PendingByOne, AgreedWithin, Consent, p
<1>11. References'
  BY <1>3 DEF References, p
<1> QED
  BY <1>6, <1>7, <1>8, <1>9, <1>10, <1>11

LEMMA WriteInsertStep ==
  ASSUME IInv, NEW r \in Requests, WriteInsert(r)
  PROVE  IInv'
<1> DEFINE p == PairOf(r)
<1> USE DEF IInv
<1>1. req[r] # Idle /\ req[r].me \in Users /\ p \in Pairs /\ Answer(r)
  BY RequestShape DEF WriteInsert, At, Paired
<1>2. CASE rows[p] = NoRow /\ p \subseteq known
  <2> DEFINE row == [id |-> nextId, status |-> "pending", by |-> req[r].me]
  <2>1. /\ nextId <= MaxId /\ nextId' = nextId + 1
        /\ rows' = [rows EXCEPT ![p] = row]
        /\ agreed' = [agreed EXCEPT ![p] = {req[r].me}]
        /\ raced' \in SUBSET Pairs
        /\ \A q \in Pairs : q # p => (q \in raced' <=> q \in raced)
        /\ UNCHANGED <<known, tokens>>
    BY <1>2 DEF WriteInsert, TypeOK
  <2>2. nextId \in Ids /\ nextId \in Nat \ {0}
    BY <2>1, MaxIdAssumption DEF TypeOK, Ids
  <2>3. row \in Rows /\ {req[r].me} \in SUBSET p /\ req[r].me \in p
    BY <1>1, <2>2 DEF Rows, PairOf
  <2>4. row.id = nextId /\ row.id # 0 /\ row.status = "pending" /\ row.by = req[r].me
    BY <2>2
  <2>5. nextId' \in nextId..nextId + 1 /\ nextId' <= MaxId + 1 /\ row.id \in 0..nextId' - 1
    BY <2>1, <2>2, <2>4, MaxIdAssumption
  <2> HIDE DEF row
  <2> QED
    BY <1>1, <1>2, <2>1, <2>3, <2>4, <2>5, RowStep
<1>3. CASE ~(rows[p] = NoRow /\ p \subseteq known)
  BY <1>1, <1>3, AnswerStep DEF WriteInsert
<1> QED
  BY <1>2, <1>3

LEMMA WriteAcceptStep ==
  ASSUME IInv, NEW r \in Requests, WriteAccept(r)
  PROVE  IInv'
<1> DEFINE p == PairOf(r)
<1> USE DEF IInv
<1>1. /\ At(r, "accept", "write") /\ req[r] # Idle
      /\ req[r].me \in Users /\ p \in Pairs /\ Answer(r)
  BY RequestShape DEF WriteAccept, At, Paired
<1>2. CASE rows[p].id = req[r].id
  <2> DEFINE row == [rows[p] EXCEPT !.status = "accepted"]
             wish == agreed[p] \cup {req[r].me}
  <2>1. /\ rows' = [rows EXCEPT ![p] = row]
        /\ agreed' = [agreed EXCEPT ![p] = wish]
        /\ raced' = raced /\ raced \in SUBSET Pairs
        /\ UNCHANGED <<known, tokens, nextId>>
    BY <1>2 DEF WriteAccept, TypeOK
  <2>2. req[r].id \in 1..nextId - 1 /\ rows[p] # NoRow
    BY <1>1, <1>2 DEF IdsOlder, NoRow
  <2>3. rows[p] \in Rows
    BY <1>1, <2>2, RowShape
  <2>4. row \in Rows /\ row.id = rows[p].id /\ row.status = "accepted"
    BY <2>3 DEF Rows
  <2>5. /\ req[r].other \in agreed[p] \/ p \in raced
        /\ agreed[p] \subseteq p
    BY <1>1, <1>2 DEF OthersWish, AgreedWithin
  <2>6. /\ wish \in SUBSET p
        /\ wish = p \/ p \in raced'
        /\ agreed[p] \subseteq wish
    BY <2>1, <2>5 DEF PairOf
  <2>7. /\ nextId \in Nat /\ nextId' \in nextId..nextId + 1 /\ nextId' <= MaxId + 1
        /\ row.id \in 0..nextId' - 1 /\ row.id # 0
    BY <1>2, <2>1, <2>2, <2>4, MaxIdAssumption DEF TypeOK
  <2>8. p \subseteq known
    BY <1>1, <2>2 DEF References
  <2> HIDE DEF row, wish
  <2> QED
    BY <1>1, <2>1, <2>4, <2>6, <2>7, <2>8, RowStep
<1>3. CASE rows[p].id # req[r].id
  BY <1>1, <1>3, AnswerStep DEF WriteAccept
<1> QED
  BY <1>2, <1>3

LEMMA WriteDeleteStep ==
  ASSUME IInv, NEW r \in Requests, WriteDelete(r)
  PROVE  IInv'
<1> USE DEF IInv
<1>1. req[r] # Idle /\ PairOf(r) \in Pairs /\ Answer(r)
  BY DEF WriteDelete, At, Paired
<1>2. /\ rows' = [rows EXCEPT ![PairOf(r)] = NoRow]
      /\ agreed' = [agreed EXCEPT ![PairOf(r)] = {}]
      /\ raced' \in SUBSET Pairs
      /\ \A q \in Pairs : q # PairOf(r) => (q \in raced' <=> q \in raced)
      /\ UNCHANGED <<known, tokens, nextId>>
  BY DEF WriteDelete, TypeOK
<1> DEFINE row == NoRow
           wish == {}
<1>3. /\ row = NoRow /\ row \in Rows \cup {NoRow} /\ wish \in SUBSET PairOf(r)
      /\ row.id = 0 /\ row.status = "none"
  BY DEF NoRow
<1>4. /\ nextId' \in nextId..nextId + 1 /\ nextId' <= MaxId + 1
      /\ row.id \in 0..nextId' - 1
  BY <1>2, <1>3, MaxIdAssumption DEF TypeOK
<1>5. /\ rows' = [rows EXCEPT ![PairOf(r)] = row]
      /\ agreed' = [agreed EXCEPT ![PairOf(r)] = wish]
  BY <1>2
<1> HIDE DEF row, wish
<1>6. /\ row.id \in {0, nextId}
      /\ row.status \notin {"pending", "accepted"}
  BY <1>3
<1> QED
  BY <1>1, <1>2, <1>3, <1>4, <1>5, <1>6, RowStep

LEMMA WriteBlockStep ==
  ASSUME IInv, NEW r \in Requests, WriteBlock(r)
  PROVE  IInv'
<1> DEFINE p == PairOf(r)
<1> USE DEF IInv
<1>1. req[r] # Idle /\ req[r].me \in Users /\ p \in Pairs /\ Answer(r)
  BY RequestShape DEF WriteBlock, At, Paired
<1> DEFINE wish == {}
<1>2. wish \in SUBSET p
  OBVIOUS
<1>3. CASE p \subseteq known /\ rows[p] # NoRow /\ UNCHANGED nextId
           /\ agreed' = [agreed EXCEPT ![p] = wish]
           /\ raced' = (IF Racing(p) THEN raced \cup {p} ELSE raced \ {p})
           /\ rows' = [rows EXCEPT ![p] =
                         [id |-> rows[p].id, status |-> "blocked", by |-> req[r].me]]
  <2> DEFINE row == [id |-> rows[p].id, status |-> "blocked", by |-> req[r].me]
  <2>1. rows[p] \in Rows /\ rows[p].id \in 0..nextId - 1
    BY <1>1, <1>3, RowShape DEF IdsOlder
  <2>2. row \in Rows /\ row.id = rows[p].id /\ row.status = "blocked"
    BY <1>1, <2>1 DEF Rows
  <2>3. rows' = [rows EXCEPT ![p] = row]
    BY <1>3
  <2>4. /\ nextId' \in nextId..nextId + 1 /\ nextId' <= MaxId + 1
        /\ row.id \in 0..nextId' - 1 /\ row.id # 0
    BY <1>1, <1>3, <2>1, <2>2, MaxIdAssumption DEF TypeOK, IdsOlder
  <2>5. UNCHANGED <<known, tokens>>
    BY DEF WriteBlock
  <2>6. /\ raced' \in SUBSET Pairs
        /\ \A q \in Pairs : q # p => (q \in raced' <=> q \in raced)
        /\ Racing(p) => p \in raced'
    BY <1>1, <1>3 DEF TypeOK
  <2> HIDE DEF row, wish
  <2> QED
    BY <1>1, <1>2, <1>3, <2>2, <2>3, <2>4, <2>5, <2>6, RowStep
<1>4. CASE p \subseteq known /\ rows[p] = NoRow /\ nextId <= MaxId
           /\ nextId' = nextId + 1
           /\ agreed' = [agreed EXCEPT ![p] = wish]
           /\ raced' = raced \ {p}
           /\ rows' = [rows EXCEPT ![p] =
                         [id |-> nextId, status |-> "blocked", by |-> req[r].me]]
  <2> DEFINE row == [id |-> nextId, status |-> "blocked", by |-> req[r].me]
  <2>1. nextId \in Ids /\ nextId \in Nat \ {0}
    BY <1>4, MaxIdAssumption DEF TypeOK, Ids
  <2>2. row \in Rows /\ row.id = nextId /\ row.status = "blocked"
    BY <1>1, <2>1 DEF Rows
  <2>3. /\ nextId' \in nextId..nextId + 1 /\ nextId' <= MaxId + 1
        /\ row.id \in 0..nextId' - 1 /\ row.id # 0
    BY <1>4, <2>1, <2>2, MaxIdAssumption
  <2>4. UNCHANGED <<known, tokens>>
    BY DEF WriteBlock
  <2> HIDE DEF row
  <2>5. rows' = [rows EXCEPT ![p] = row]
    BY <1>4 DEF row
  <2>6. /\ raced' \in SUBSET Pairs
        /\ \A q \in Pairs : q # p => (q \in raced' <=> q \in raced)
    BY <1>1, <1>4 DEF TypeOK
  <2> HIDE DEF wish
  <2> QED
    BY <1>1, <1>2, <1>4, <2>2, <2>3, <2>4, <2>5, <2>6, RowStep
<1>5. CASE UNCHANGED <<rows, nextId, wishes>>
  BY <1>1, <1>5, AnswerStep DEF WriteBlock
<1> QED
  BY <1>3, <1>4, <1>5 DEF WriteBlock

-----------------------------------------------------------------------------
(* Steps of the users table *)

LEMMA DeleteUserStep ==
  ASSUME IInv, NEW u \in Users, DeleteUser(u)
  PROVE  IInv'
<1> USE DEF IInv, DeleteUser
<1>1. \A p \in Pairs : /\ rows'[p] \in {NoRow, rows[p]}
                       /\ u \in p => rows'[p] = NoRow /\ agreed'[p] = {}
                       /\ u \notin p => /\ rows'[p] = rows[p]
                                        /\ agreed'[p] = agreed[p]
                                        /\ p \in raced => p \in raced'
  OBVIOUS
<1>2. NoRow.id = 0 /\ NoRow.status = "none"
  BY DEF NoRow
<1>3. TypeOK'
  BY DEF TypeOK
<1>4. Paired'
  BY DEF Paired, PairOf
<1>5. IdsOlder'
  BY <1>1, <1>2, MaxIdAssumption DEF IdsOlder, At, TypeOK
<1>6. OthersWish'
  <2> SUFFICES ASSUME NEW q \in Requests, At(q, "accept", "write"),
                      rows'[PairOf(q)].id = req[q].id
               PROVE  req[q].other \in agreed'[PairOf(q)] \/ PairOf(q) \in raced'
    BY DEF OthersWish, At, PairOf
  <2>1. PairOf(q) \in Pairs /\ req[q].id # 0
    BY DEF At, Paired, IdsOlder, TypeOK
  <2>2. u \notin PairOf(q)
    BY <1>1, <1>2, <2>1
  <2> QED
    BY <1>1, <2>1, <2>2 DEF OthersWish
<1>7. PendingByOne' /\ AgreedWithin' /\ Consent' /\ References'
  BY <1>1, <1>2 DEF PendingByOne, AgreedWithin, Consent, References
<1> QED
  BY <1>3, <1>4, <1>5, <1>6, <1>7

LEMMA AccountStep ==
  ASSUME IInv, UNCHANGED <<rows, nextId, req, wishes>>,
         known' \in SUBSET Users, known \subseteq known', tokens' \in SUBSET Users
  PROVE  IInv'
<1> USE DEF IInv
<1>1. TypeOK' /\ Paired' /\ IdsOlder' /\ OthersWish'
  BY DEF TypeOK, Paired, IdsOlder, OthersWish, At, PairOf, wishes
<1>2. PendingByOne' /\ AgreedWithin' /\ Consent' /\ References'
  BY DEF PendingByOne, AgreedWithin, Consent, References, wishes
<1> QED
  BY <1>1, <1>2

-----------------------------------------------------------------------------
(* Theorems *)

LEMMA Inductive == IInv /\ [Next]_vars => IInv'
<1> SUFFICES ASSUME IInv, [Next]_vars PROVE IInv'
  OBVIOUS
<1>1. ASSUME NEW u \in Users, Register(u) PROVE IInv'
  BY <1>1, AccountStep DEF Register, IInv, TypeOK
<1>2. ASSUME NEW u \in Users, TokenExpires(u) PROVE IInv'
  BY <1>2, AccountStep DEF TokenExpires, IInv, TypeOK
<1>3. ASSUME NEW u \in Users, DeleteUser(u) PROVE IInv'
  BY <1>3, DeleteUserStep
<1>4. ASSUME NEW r \in Requests, NEW op \in Ops, NEW me \in Users, NEW other \in Users,
             Arrive(r, op, me, other)
      PROVE  IInv'
  <2> DEFINE new == [op |-> op, me |-> me, other |-> other, stage |-> "read"]
  <2>1. new \in Reading
    BY DEF Reading
  <2>2. /\ req' = [req EXCEPT ![r] = new]
        /\ me # other
        /\ UNCHANGED <<known, tokens, rows, nextId, wishes>>
    BY <1>4 DEF Arrive
  <2>3. new.stage # "write" /\ new.me = me /\ new.other = other
    OBVIOUS
  <2> HIDE DEF new
  <2>4. TypeOK'
    BY <2>1, <2>2 DEF IInv, TypeOK, wishes
  <2>5. req'[r] = new /\ \A q \in Requests : q # r => req'[q] = req[q]
    BY <2>2 DEF IInv, TypeOK
  <2>6. {me, other} \in Pairs
    BY <2>2 DEF Pairs
  <2>7. Paired'
    BY <2>3, <2>5, <2>6 DEF IInv, Paired, PairOf
  <2>8. IdsOlder' /\ OthersWish'
    BY <2>2, <2>3, <2>5 DEF IInv, IdsOlder, OthersWish, At, PairOf, wishes
  <2>9. PendingByOne' /\ AgreedWithin' /\ Consent' /\ References'
    BY <2>2 DEF IInv, PendingByOne, AgreedWithin, Consent, References, wishes
  <2> QED
    BY <2>4, <2>7, <2>8, <2>9 DEF IInv
<1>5. ASSUME NEW r \in Requests, ReadAdd(r) PROVE IInv'
  <2>1. req[r] # Idle /\ PairOf(r) \in Pairs
    BY <1>5 DEF ReadAdd, At, IInv, Paired
  <2>2. rows[PairOf(r)].status = "pending" => rows[PairOf(r)].id \in Ids
    BY <2>1, RowShape DEF IInv
  <2>3. 0 \in Ids \cup {0}
    OBVIOUS
  <2> QED
    BY <1>5, <2>1, <2>2, <2>3, AnswerStep, DecideStep DEF ReadAdd
<1>6. ASSUME NEW r \in Requests, ReadAccept(r) PROVE IInv'
  <2>1. req[r] # Idle /\ PairOf(r) \in Pairs
    BY <1>6 DEF ReadAccept, At, IInv, Paired
  <2>2. rows[PairOf(r)].status = "pending" => rows[PairOf(r)].id \in Ids
    BY <2>1, RowShape DEF IInv
  <2> QED
    BY <1>6, <2>1, <2>2, AnswerStep, DecideStep DEF ReadAccept
<1>7. ASSUME NEW r \in Requests, ReadDelete(r) PROVE IInv'
  <2>1. req[r] # Idle /\ PairOf(r) \in Pairs
    BY <1>7 DEF ReadDelete, At, IInv, Paired
  <2>2. rows[PairOf(r)] # NoRow => rows[PairOf(r)].id \in Ids
    BY <2>1, RowShape DEF IInv
  <2> QED
    BY <1>7, <2>1, <2>2, AnswerStep, DecideStep DEF ReadDelete
<1>8. ASSUME NEW r \in Requests, WriteInsert(r) PROVE IInv'
  BY <1>8, WriteInsertStep
<1>9. ASSUME NEW r \in Requests, WriteAccept(r) PROVE IInv'
  BY <1>9, WriteAcceptStep
<1>10. ASSUME NEW r \in Requests, WriteDelete(r) PROVE IInv'
  BY <1>10, WriteDeleteStep
<1>11. ASSUME NEW r \in Requests, WriteBlock(r) PROVE IInv'
  BY <1>11, WriteBlockStep
<1>12. ASSUME NEW r \in Requests, Fails(r) PROVE IInv'
  BY <1>12, AnswerStep DEF Fails
<1>13. CASE UNCHANGED vars
  BY <1>13 DEF vars, IInv, TypeOK, Paired, IdsOlder, PendingByOne, OthersWish,
               AgreedWithin, Consent, References, At, PairOf, wishes
<1> QED
  BY <1>1, <1>2, <1>3, <1>4, <1>5, <1>6, <1>7, <1>8, <1>9, <1>10, <1>11, <1>12, <1>13
     DEF Next

LEMMA InvariantHolds == Spec => []IInv
<1>1. Init => IInv
  <2> SUFFICES ASSUME Init PROVE IInv
    OBVIOUS
  <2>1. TypeOK
    BY MaxIdAssumption DEF Init, TypeOK
  <2>2. Paired /\ IdsOlder /\ OthersWish
    BY DEF Init, Paired, IdsOlder, OthersWish, At, NoRow
  <2>3. PendingByOne /\ AgreedWithin /\ Consent /\ References
    BY DEF Init, PendingByOne, AgreedWithin, Consent, References, NoRow
  <2> QED
    BY <2>1, <2>2, <2>3 DEF IInv
<1> QED
  BY <1>1, Inductive, PTL DEF Spec

\* Every variable of Friendships keeps its type.
THEOREM TypeCorrect == Spec => []TypeOK
BY InvariantHolds, PTL DEF IInv

\* Two users are friends only with the consent of both, which a block takes
\* back; but for a pair blocked while an acceptance of its row was on its way.
THEOREM ConsentHolds == Spec => []Consent
BY InvariantHolds, PTL DEF IInv

\* No friendship row refers to a deleted user.
THEOREM ReferencesHold == Spec => []References
BY InvariantHolds, PTL DEF IInv

\* An accepted or blocked row never falls back to pending, and only a block
\* changes its attribution.
THEOREM StandingHolds == Spec => StandingKept
<1>1. IInv /\ [Next]_vars => [RowKeepsStanding]_vars
  <2> SUFFICES ASSUME IInv, Next, NEW p \in Pairs, rows'[p].id = rows[p].id
               PROVE  /\ rows[p].status \in {"accepted", "blocked"} => rows'[p].status # "pending"
                      /\ rows'[p].by # rows[p].by => rows'[p].status = "blocked"
    BY DEF RowKeepsStanding
  <2> DEFINE Standing ==
        /\ rows[p].status \in {"accepted", "blocked"} => rows'[p].status # "pending"
        /\ rows'[p].by # rows[p].by => rows'[p].status = "blocked"
  <2> USE DEF IInv
  <2>1. rows \in [Pairs -> Rows \cup {NoRow}] /\ nextId \in Nat \ {0}
    BY MaxIdAssumption DEF TypeOK
  <2>2. rows[p].id # nextId
    BY <2>1 DEF IdsOlder
  <2>3. ASSUME rows' = rows PROVE Standing
    BY <2>3
  <2>4. ASSUME NEW u \in Users, DeleteUser(u) PROVE Standing
    BY <2>1, <2>4 DEF DeleteUser, IdsOlder, NoRow
  <2>5. ASSUME NEW r \in Requests, WriteInsert(r) PROVE Standing
    BY <2>1, <2>2, <2>5 DEF WriteInsert
  <2>6. ASSUME NEW r \in Requests, WriteAccept(r) PROVE Standing
    BY <2>1, <2>6 DEF WriteAccept, Rows, NoRow
  <2>7. ASSUME NEW r \in Requests, WriteDelete(r) PROVE Standing
    BY <2>1, <2>7 DEF WriteDelete, IdsOlder, NoRow
  <2>8. ASSUME NEW r \in Requests, WriteBlock(r) PROVE Standing
    BY <2>1, <2>2, <2>8 DEF WriteBlock
  <2> QED
    BY <2>3, <2>4, <2>5, <2>6, <2>7, <2>8
       DEF Next, Register, TokenExpires, Arrive, ReadAdd, ReadAccept, ReadDelete, Fails
<1> QED
  BY <1>1, InvariantHolds, PTL DEF Spec, StandingKept
=============================================================================
