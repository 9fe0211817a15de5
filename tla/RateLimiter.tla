----------------------------- MODULE RateLimiter -----------------------------
(***************************************************************************)
(* The limiter of the Go server (slidingLimiter, server/middleware.go),    *)
(* which in fact counts per fixed window: a key's first request opens a    *)
(* window, and the first request after its end opens the next.  A          *)
(* goroutine drops expired windows once a minute.                          *)
(*                                                                         *)
(* Time is kept relative: a window has so much left, and what was asked    *)
(* and granted is counted back from now, as far as a window is long.       *)
(***************************************************************************)
EXTENDS Integers

CONSTANTS
  Keys,   \* what clientKey distinguishes
  Window, \* length of a window, in ticks
  Limit,  \* the limiter's max
  Burst   \* bound on the requests of one key in one tick

ASSUME WindowAssumption == Window \in Nat
ASSUME LimitAssumption == Limit \in Nat \ {0}
ASSUME BurstAssumption == Burst \in Nat \ {0}

Ages == 0..Window
Past == -1

\* A windowCount: the requests so far and the time left, Past once
\* now.After(windowEnd)
Windows == [count : Nat, left : Past..Window]
NoWindow == [count |-> 0, left |-> Past]

VARIABLES
  counters, \* the limiter's map, by key
  kept,     \* observer: the map had nothing been cleaned up
  asked,    \* observer: requests by key, over the last so many ticks
  granted   \* observer: those of them that were let through

limiterVars == <<counters, kept, asked, granted>>

LimiterTypeOK ==
  /\ counters \in [Keys -> Windows]
  /\ kept \in [Keys -> Windows]
  /\ asked \in [Keys -> [Ages -> Nat]]
  /\ granted \in [Keys -> [Ages -> Nat]]

LimiterInit ==
  /\ counters = [k \in Keys |-> NoWindow]
  /\ kept = [k \in Keys |-> NoWindow]
  /\ asked = [k \in Keys |-> [a \in Ages |-> 0]]
  /\ granted = [k \in Keys |-> [a \in Ages |-> 0]]

Ended(wc) == wc.left = Past

\* Seeded fault: the request that opens a window is not counted
Counted_FirstFree(wc) ==
  IF Ended(wc) THEN [count |-> 0, left |-> Window] ELSE [wc EXCEPT !.count = @ + 1]

\* Seeded fault: every request extends the window
Counted_Extends(wc) ==
  IF Ended(wc) THEN [count |-> 1, left |-> Window]
  ELSE [count |-> wc.count + 1, left |-> Window]

\* The entry allow leaves behind: a new window when there was none or it ended
Counted(wc) ==
  IF Ended(wc) THEN [count |-> 1, left |-> Window] ELSE [wc EXCEPT !.count = @ + 1]

OneMore(f) == [a \in Ages |-> f[a] + 1]

allow(k) ==
  /\ asked[k][0] < Burst
  /\ counters' = [counters EXCEPT ![k] = Counted(@)]
  /\ kept' = [kept EXCEPT ![k] = Counted(@)]
  /\ asked' = [asked EXCEPT ![k] = OneMore(@)]
  /\ granted' = IF counters'[k].count <= Limit
                THEN [granted EXCEPT ![k] = OneMore(@)] ELSE granted

\* Seeded fault: windows are dropped at their last instant
cleanup_AtEnd ==
  /\ counters' = [k \in Keys |-> IF counters[k].left <= 0 THEN NoWindow ELSE counters[k]]
  /\ UNCHANGED <<kept, asked, granted>>

\* One round of cleanupLoop, at any time
cleanup ==
  /\ counters' = [k \in Keys |-> IF Ended(counters[k]) THEN NoWindow ELSE counters[k]]
  /\ UNCHANGED <<kept, asked, granted>>

\* The clock moves on.
Elapsed(wc) == [wc EXCEPT !.left = IF @ = Past THEN Past ELSE @ - 1]
Aged(f) == [a \in Ages |-> IF a = 0 THEN 0 ELSE f[a - 1]]

Tick ==
  /\ counters' = [k \in Keys |-> Elapsed(counters[k])]
  /\ kept' = [k \in Keys |-> Elapsed(kept[k])]
  /\ asked' = [k \in Keys |-> Aged(asked[k])]
  /\ granted' = [k \in Keys |-> Aged(granted[k])]

LimiterNext == (\E k \in Keys : allow(k)) \/ cleanup \/ Tick

LimiterSpec == LimiterInit /\ [][LimiterNext]_limiterVars

-----------------------------------------------------------------------------
(* Properties *)

\* However the windows fall, no stretch of time as long as a window lets more
\* than twice the limit through.
TwiceAtMost == \A k \in Keys : granted[k][Window] <= 2 * Limit

\* The cleanup is invisible: it changes no decision that is still to come.
CleanupInvisible ==
  \A k \in Keys : IF Ended(kept[k]) THEN Ended(counters[k]) ELSE counters[k] = kept[k]

\* A client that keeps to the limit over every stretch as long as a window is
\* never refused, wherever the windows fall.
Polite ==
  \A k \in Keys :
    asked'[k][0] = asked[k][0] + 1 /\ asked'[k][Window] <= Limit =>
      granted'[k][0] = granted[k][0] + 1
PoliteServed == [][Polite]_limiterVars
=============================================================================
