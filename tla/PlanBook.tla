------------------------------ MODULE PlanBook ------------------------------
(***************************************************************************)
(* What the investigation engine promises: a book of plans in which every   *)
(* operation takes effect at once.  A plan is created, advanced step by     *)
(* step up to its ceiling, and ends concluded or aborted.                   *)
(***************************************************************************)
EXTENDS Naturals, Sequences

CONSTANTS
    Plans,      \* investigation identifiers
    Hyps,       \* hypothesis identifiers
    Evidence,   \* what one step may have collected
    Limits,     \* the max_steps a plan may be created with
    NoHyp,      \* an advance that brings no hypothesis
    NoCause     \* concluded_root_cause is None

VARIABLE plans

Terminal == {"concluded", "aborted"}

PlanStatuses == {"none", "initialized", "in_progress", "step_limit_exceeded"}
                    \cup Terminal

HypStatuses == {"none", "proposed", "confirmed", "disproven", "inconclusive"}

Step == [number : Nat, evidence : Evidence]

Plan == [status : PlanStatuses, max : Nat, count : Nat, steps : Seq(Step),
         hyps : [Hyps -> HypStatuses], cause : Hyps \cup {NoCause, "aborted"}]

NoPlan == [status |-> "none", max |-> 0, count |-> 0, steps |-> <<>>,
           hyps |-> [h \in Hyps |-> "none"], cause |-> NoCause]

-----------------------------------------------------------------------------

Created(h, m) ==
    [NoPlan EXCEPT !.status = "initialized", !.max = m,
                   !.hyps = [g \in Hyps |-> IF g = h THEN "proposed"
                                                     ELSE "none"]]

\* Mutant: the ceiling is noticed one step late.
ExhaustedLate(plan) == plan.count > plan.max

Exhausted(plan) == plan.count >= plan.max

\* Mutant: an aborted plan may still be worked on.
OpenUnlessConcluded(plan) == plan.status \notin {"none", "concluded"}

Open(plan) == plan.status \notin {"none"} \cup Terminal

\* A step is numbered one above the count of the plan it is built from; a
\* hypothesis the caller passes replaces the one of that identifier or joins.
Advanced(plan, h, s, e) ==
    [plan EXCEPT !.status = "in_progress",
                 !.count = @ + 1,
                 !.steps = Append(@, [number |-> plan.count + 1,
                                      evidence |-> e]),
                 !.hyps = [g \in Hyps |-> IF g = h THEN s ELSE plan.hyps[g]]]

LimitReached(plan) == [plan EXCEPT !.status = "step_limit_exceeded"]

Concluded(plan, h) ==
    [plan EXCEPT !.status = "concluded",
                 !.hyps[h] = "confirmed",
                 !.cause = h]

Aborted(plan) == [plan EXCEPT !.status = "aborted", !.cause = "aborted"]

-----------------------------------------------------------------------------

Init == plans = [p \in Plans |-> NoPlan]

Write(p, plan) == plans' = [plans EXCEPT ![p] = plan]

Create(p) ==
    /\ plans[p] = NoPlan
    /\ \E h \in Hyps, m \in Limits : Write(p, Created(h, m))

Advance(p) ==
    /\ Open(plans[p])
    /\ ~Exhausted(plans[p])
    /\ \E h \in Hyps \cup {NoHyp}, s \in HypStatuses \ {"none"}, e \in Evidence :
          Write(p, Advanced(plans[p], h, s, e))

ReachLimit(p) ==
    /\ Open(plans[p])
    /\ Exhausted(plans[p])
    /\ Write(p, LimitReached(plans[p]))

Conclude(p) ==
    /\ Open(plans[p])
    /\ \E h \in Hyps :
          /\ plans[p].hyps[h] # "none"
          /\ Write(p, Concluded(plans[p], h))

Abort(p) ==
    /\ Open(plans[p])
    /\ Write(p, Aborted(plans[p]))

Next ==
    \E p \in Plans :
        Create(p) \/ Advance(p) \/ ReachLimit(p) \/ Conclude(p) \/ Abort(p)

Spec == Init /\ [][Next]_plans
=============================================================================
