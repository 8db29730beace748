----------------------------- MODULE RateLimiter -----------------------------
(***************************************************************************)
(* SlidingWindowRateLimiter: per key a deque of the times of admitted      *)
(* calls, from whose left end a call first drops what has left the window. *)
(* A call of is_allowed contains no await, so it is one step.  Times are   *)
(* whole numbers, and the clock does not step back.                        *)
(***************************************************************************)
EXTENDS Integers, Sequences, FiniteSets

CONSTANTS Keys, Limit, Window, BurstLimit, BurstWindow, MaxTime, NoAnswer

\* RateLimitPolicy takes positive numbers only.
ASSUME LimiterAssumption ==
    /\ Limit \in Nat \ {0} /\ BurstLimit \in Nat \ {0}
    /\ Window \in Nat \ {0} /\ BurstWindow \in Nat \ {0}
    /\ MaxTime \in Nat
    /\ NoAnswer \notin Keys \X BOOLEAN

VARIABLES history,   \* _history: a deque per key, the empty one for a key not in it
          admitted,  \* history variable: what the deque would be if nothing were dropped
          clock,
          verdict

limiterVars == <<history, admitted, clock, verdict>>

TH == INSTANCE Throttle
      WITH Keys <- Keys, Limit <- Limit, Window <- Window, BurstLimit <- BurstLimit,
           BurstWindow <- BurstWindow, MaxTime <- MaxTime, NoAnswer <- NoAnswer,
           admitted <- admitted, clock <- clock, verdict <- verdict

LimiterInit ==
    /\ history = [k \in Keys |-> <<>>]
    /\ TH!Init

\* popleft n times: everything at the left end that is older than the window.
Evict(timestamps, n) == SubSeq(timestamps, n + 1, Len(timestamps))

\* Bug: a timestamp exactly one window old is dropped.
StaleAtBoundary(timestamps, n) ==
    /\ \A i \in 1..n : timestamps[i] <= clock - Window
    /\ n < Len(timestamps) => ~(timestamps[n + 1] <= clock - Window)

\* The while loop drops n timestamps.
Stale(timestamps, n) ==
    /\ \A i \in 1..n : timestamps[i] < clock - Window
    /\ n < Len(timestamps) => ~(timestamps[n + 1] < clock - Window)

RecentBurst(timestamps) ==
    Cardinality({i \in 1..Len(timestamps) : timestamps[i] >= clock - BurstWindow})

\* Bug: a full window lets one more call pass.
AllowedOneMore(timestamps) ==
    /\ Len(timestamps) <= Limit
    /\ RecentBurst(timestamps) < BurstLimit

Allowed(timestamps) ==
    /\ Len(timestamps) < Limit
    /\ RecentBurst(timestamps) < BurstLimit

\* The call drops the first n timestamps, decides, and records its time if it is allowed.
IsAllowed(k, n) ==
    LET timestamps == Evict(history[k], n)
        allowed == Allowed(timestamps)
    IN  /\ Stale(history[k], n)
        /\ history' = [history EXCEPT ![k] =
                          IF allowed THEN Append(timestamps, clock) ELSE timestamps]
        /\ admitted' = IF allowed THEN [admitted EXCEPT ![k] = Append(@, clock)]
                       ELSE admitted
        /\ verdict' = <<k, allowed>>
        /\ UNCHANGED clock

CheckLimit(k) == \E n \in 0..Len(history[k]) : IsAllowed(k, n)

Reset(k) ==
    /\ history' = [history EXCEPT ![k] = <<>>]
    /\ admitted' = [admitted EXCEPT ![k] = <<>>]
    /\ UNCHANGED <<clock, verdict>>

Tick ==
    /\ clock < MaxTime
    /\ clock' = clock + 1
    /\ UNCHANGED <<history, admitted, verdict>>

LimiterNext ==
    \/ \E k \in Keys : CheckLimit(k) \/ Reset(k)
    \/ Tick

LimiterSpec == LimiterInit /\ [][LimiterNext]_limiterVars
-----------------------------------------------------------------------------
LimiterTypeOK ==
    /\ clock \in Nat
    /\ history \in [Keys -> Seq(Nat)]
    /\ admitted \in [Keys -> Seq(Nat)]
    /\ verdict \in (Keys \X BOOLEAN) \cup {NoAnswer}

InOrder(s) ==
    \A i \in 1..Len(s) : s[i] <= clock /\ \A j \in 1..i : s[j] <= s[i]

\* d is s without its first entries, all of which have left the window.
KeepsWindow(d, s) ==
    \E m \in 0..Len(s) :
        /\ d = SubSeq(s, m + 1, Len(s))
        /\ \A i \in 1..m : s[i] < clock - Window

\* No two admitted calls that are `limit` calls apart lie within w of each other.
Spread(s, limit, w) ==
    \A i \in 1..Len(s) : i + limit <= Len(s) => s[i + limit] - s[i] > w

LimiterInv ==
    /\ LimiterTypeOK
    /\ \A k \in Keys : InOrder(admitted[k]) /\ KeepsWindow(history[k], admitted[k])

\* Whatever the interleaving of callers, any window of the configured length holds at most
\* requests_per_window admitted calls of a key, and any burst window at most burst_limit
\* (the two rejections of is_allowed; security/test_rate_limiter.py tries single points).
LimitsHold ==
    \A k \in Keys :
        /\ Spread(admitted[k], Limit, Window)
        /\ Spread(admitted[k], BurstLimit, TH!ShorterWindow)

\* Dropping old timestamps changes no answer: the limiter admits and rejects exactly what
\* one that remembers every call would (is_allowed, the eviction loop).
ImplementsThrottle == TH!Spec
=============================================================================
