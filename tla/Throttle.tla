------------------------------- MODULE Throttle -------------------------------
(***************************************************************************)
(* What a sliding-window rate limiter promises, told with the whole        *)
(* history: a call is admitted exactly when the calls admitted for its key *)
(* in the window before it, and in the burst window before it, are fewer   *)
(* than their limits.  Nothing is ever dropped from the history.           *)
(*                                                                         *)
(* A burst window longer than the main one counts only as far back as the  *)
(* main one: the code looks for bursts in what the main window has kept.   *)
(***************************************************************************)
EXTENDS Integers, Sequences, FiniteSets

CONSTANTS Keys,         \* identity, tool and address of a caller
          Limit,        \* requests_per_window
          Window,       \* window_seconds
          BurstLimit,   \* burst_limit
          BurstWindow,  \* burst_window_seconds
          MaxTime,      \* bound: the clock stops here
          NoAnswer      \* no call was answered yet

VARIABLES admitted,  \* per key, the times of the calls admitted since its last reset
          clock,     \* time.time()
          verdict    \* the last answer: a key, and whether its call was admitted

throttleVars == <<admitted, clock, verdict>>

Init ==
    /\ admitted = [k \in Keys |-> <<>>]
    /\ clock = 0
    /\ verdict = NoAnswer

\* The calls of k admitted at most w ago.
Recent(k, w) == {i \in 1..Len(admitted[k]) : admitted[k][i] >= clock - w}

ShorterWindow == IF BurstWindow < Window THEN BurstWindow ELSE Window

HasRoom(k) ==
    /\ Cardinality(Recent(k, Window)) < Limit
    /\ Cardinality(Recent(k, ShorterWindow)) < BurstLimit

Admit(k) ==
    /\ HasRoom(k)
    /\ admitted' = [admitted EXCEPT ![k] = Append(@, clock)]
    /\ verdict' = <<k, TRUE>>
    /\ UNCHANGED clock

Deny(k) ==
    /\ ~HasRoom(k)
    /\ verdict' = <<k, FALSE>>
    /\ UNCHANGED <<admitted, clock>>

Forget(k) ==
    /\ admitted' = [admitted EXCEPT ![k] = <<>>]
    /\ UNCHANGED <<clock, verdict>>

Tick ==
    /\ clock < MaxTime
    /\ clock' = clock + 1
    /\ UNCHANGED <<admitted, verdict>>

Next ==
    \/ \E k \in Keys : Admit(k) \/ Deny(k) \/ Forget(k)
    \/ Tick

Spec == Init /\ [][Next]_throttleVars
===============================================================================
