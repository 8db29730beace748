------------------------- MODULE InvestigationProofs -------------------------
(***************************************************************************)
(* The plan engine, proved for any clients, plans, hypotheses and ceilings: *)
(* its invariant, the finality of ended plans, and that it implements the   *)
(* book of plans.  Then a whole investigation, for any answers of its        *)
(* sources: what a report that was returned is grounded in, and why a        *)
(* request may fail.                                                         *)
(***************************************************************************)
EXTENDS Investigation, FiniteSetTheorems, SequenceTheorems, WellFoundedInduction, TLAPS


-----------------------------------------------------------------------------
(* Plans.                                                                    *)

\* A plan that does not exist is a plan, and sound.
LEMMA NoPlanSound == PB!NoPlan \in PB!Plan /\ Sound(PB!NoPlan)
<1>1. PB!NoPlan.steps \in Seq(PB!Step)
    BY DEF PB!NoPlan
<1>2. PB!NoPlan \in PB!Plan
    BY <1>1 DEF PB!NoPlan, PB!Plan, PB!PlanStatuses, PB!HypStatuses
<1> QED
    BY <1>2 DEF Sound, PB!NoPlan

\* create_plan makes a sound plan.
LEMMA CreatedSound ==
    ASSUME NEW h \in Hyps, NEW m \in Limits
    PROVE  PB!Created(h, m) \in PB!Plan /\ Sound(PB!Created(h, m))
<1> DEFINE plan == PB!Created(h, m)
           hyps == [g \in Hyps |-> IF g = h THEN "proposed" ELSE "none"]
<1>1. m \in Nat /\ m >= 1
    BY EngineAssumption
<1>2. hyps \in [Hyps -> PB!HypStatuses]
    BY DEF PB!HypStatuses
<1>3. plan \in PB!Plan
    BY <1>1, <1>2, NoPlanSound DEF PB!Created, PB!Plan, PB!PlanStatuses
<1>4. /\ plan.status = "initialized" /\ plan.max = m
      /\ plan.count = 0 /\ plan.steps = <<>>
    BY DEF PB!Created, PB!NoPlan
<1>5. Sound(plan)
    BY <1>1, <1>4 DEF Sound
<1> QED
    BY <1>3, <1>5

\* What each kind of operation makes of a plan that it does not reject.
LEMMA OutcomeCases ==
    ASSUME NEW plan \in PB!Plan, NEW k \in Call, ~Rejected(plan, k)
    PROVE  /\ PB!Open(plan)
           /\ \/ Outcome(plan, k) = PB!Aborted(plan)
              \/ /\ k.hyp \in Hyps
                 /\ plan.hyps[k.hyp] # "none"
                 /\ Outcome(plan, k) = PB!Concluded(plan, k.hyp)
              \/ /\ PB!Exhausted(plan)
                 /\ Outcome(plan, k) = PB!LimitReached(plan)
              \/ /\ k.kind = "advance"
                 /\ ~PB!Exhausted(plan)
                 /\ Outcome(plan, k) =
                        PB!Advanced(plan, k.hyp, k.status, k.evidence)
<1>1. PB!Open(plan)
    BY DEF Rejected
<1>2. k.kind \in {"advance", "conclude", "abort"} /\ k.hyp \in Hyps \cup {NoHyp}
    BY DEF Call
<1>3. CASE k.kind = "abort"
    BY <1>1, <1>3 DEF Outcome
<1>4. CASE k.kind = "conclude"
    BY <1>1, <1>2, <1>4 DEF Outcome, Rejected
<1>5. CASE k.kind = "advance"
    BY <1>1, <1>5 DEF Outcome
<1> QED
    BY <1>2, <1>3, <1>4, <1>5

\* A further step is numbered in sequence and leaves the earlier ones alone.
LEMMA AdvancedSteps ==
    ASSUME NEW plan \in PB!Plan, NEW k \in Call, plan.count = Len(plan.steps)
    PROVE  LET next == PB!Advanced(plan, k.hyp, k.status, k.evidence) IN
           /\ next \in PB!Plan
           /\ next.count = plan.count + 1
           /\ next.max = plan.max
           /\ next.status = "in_progress"
           /\ Len(next.steps) = plan.count + 1
           /\ next.steps[plan.count + 1] =
                  [number |-> plan.count + 1, evidence |-> k.evidence]
           /\ \A i \in DOMAIN plan.steps : next.steps[i] = plan.steps[i]
<1> DEFINE next == PB!Advanced(plan, k.hyp, k.status, k.evidence)
           step == [number |-> plan.count + 1, evidence |-> k.evidence]
<1>1. /\ plan.count \in Nat
      /\ plan.steps \in Seq(PB!Step)
      /\ plan.hyps \in [Hyps -> PB!HypStatuses]
    BY DEF PB!Plan
<1>2. step \in PB!Step
    BY <1>1 DEF PB!Step, Call
<1>3. /\ next.status = "in_progress" /\ next.max = plan.max
      /\ next.count = plan.count + 1
      /\ next.steps = Append(plan.steps, step)
    BY DEF PB!Advanced, PB!Plan
<1>4. Append(plan.steps, step) \in Seq(PB!Step)
    BY <1>1, <1>2
<1>5. [g \in Hyps |-> IF g = k.hyp THEN k.status ELSE plan.hyps[g]]
          \in [Hyps -> PB!HypStatuses]
    BY <1>1 DEF Call
<1>6. next \in PB!Plan
  <2> DEFINE steps == Append(plan.steps, step)
             hyps == [g \in Hyps |-> IF g = k.hyp THEN k.status
                                                  ELSE plan.hyps[g]]
  <2>1. \A n \in Nat, s \in Seq(PB!Step), f \in [Hyps -> PB!HypStatuses] :
            [plan EXCEPT !.status = "in_progress", !.count = n,
                         !.steps = s, !.hyps = f] \in PB!Plan
      BY DEF PB!Plan, PB!PlanStatuses
  <2>2. next = [plan EXCEPT !.status = "in_progress", !.count = plan.count + 1,
                            !.steps = steps, !.hyps = hyps]
      BY DEF PB!Advanced, PB!Plan
  <2>3. plan.count + 1 \in Nat
      BY <1>1
  <2> HIDE DEF next, steps, hyps
  <2> QED
      BY <2>1, <2>2, <2>3, <1>4, <1>5 DEF steps, hyps
<1>7. /\ Len(next.steps) = plan.count + 1
      /\ next.steps[plan.count + 1] = step
      /\ \A i \in DOMAIN plan.steps : next.steps[i] = plan.steps[i]
    BY <1>1, <1>2, <1>3
<1> QED
    BY <1>3, <1>6, <1>7

\* No operation unmakes a sound plan.
LEMMA OutcomeSound ==
    ASSUME NEW plan \in PB!Plan, NEW k \in Call, ~Rejected(plan, k), Sound(plan)
    PROVE  Outcome(plan, k) \in PB!Plan /\ Sound(Outcome(plan, k))
<1>1. /\ plan.count \in Nat /\ plan.max \in Nat
      /\ plan.steps \in Seq(PB!Step)
      /\ plan.hyps \in [Hyps -> PB!HypStatuses]
    BY DEF PB!Plan
<1>2. CASE Outcome(plan, k) = PB!Aborted(plan)
  <2>1. /\ PB!Aborted(plan).status = "aborted"
        /\ PB!Aborted(plan).max = plan.max
        /\ PB!Aborted(plan).count = plan.count
        /\ PB!Aborted(plan).steps = plan.steps
      BY DEF PB!Aborted, PB!Plan
  <2>2. PB!Aborted(plan) \in PB!Plan
      BY DEF PB!Aborted, PB!Plan, PB!PlanStatuses, PB!Terminal
  <2>3. Sound(PB!Aborted(plan))
      BY <2>1 DEF Sound
  <2> QED
      BY <1>2, <2>2, <2>3
<1>3. CASE /\ k.hyp \in Hyps
           /\ Outcome(plan, k) = PB!Concluded(plan, k.hyp)
  <2>1. /\ PB!Concluded(plan, k.hyp).status = "concluded"
        /\ PB!Concluded(plan, k.hyp).max = plan.max
        /\ PB!Concluded(plan, k.hyp).count = plan.count
        /\ PB!Concluded(plan, k.hyp).steps = plan.steps
        /\ PB!Concluded(plan, k.hyp).cause = k.hyp
        /\ PB!Concluded(plan, k.hyp).hyps[k.hyp] = "confirmed"
      BY <1>1, <1>3 DEF PB!Concluded, PB!Plan
  <2>2. [plan.hyps EXCEPT ![k.hyp] = "confirmed"] \in [Hyps -> PB!HypStatuses]
      BY <1>1 DEF PB!HypStatuses
  <2>3. PB!Concluded(plan, k.hyp) \in PB!Plan
      BY <1>3, <2>2 DEF PB!Concluded, PB!Plan, PB!PlanStatuses, PB!Terminal
  <2>4. Sound(PB!Concluded(plan, k.hyp))
      BY <1>1, <1>3, <2>1 DEF Sound
  <2> QED
      BY <1>3, <2>3, <2>4
<1>4. CASE PB!Exhausted(plan) /\ Outcome(plan, k) = PB!LimitReached(plan)
  <2>1. /\ PB!LimitReached(plan).status = "step_limit_exceeded"
        /\ PB!LimitReached(plan).max = plan.max
        /\ PB!LimitReached(plan).count = plan.count
        /\ PB!LimitReached(plan).steps = plan.steps
      BY DEF PB!LimitReached, PB!Plan
  <2>2. PB!LimitReached(plan) \in PB!Plan
      BY DEF PB!LimitReached, PB!Plan, PB!PlanStatuses
  <2>3. Sound(PB!LimitReached(plan))
      BY <1>1, <1>4, <2>1 DEF Sound, PB!Exhausted
  <2> QED
      BY <1>4, <2>2, <2>3
<1>5. CASE /\ ~PB!Exhausted(plan)
           /\ Outcome(plan, k) = PB!Advanced(plan, k.hyp, k.status, k.evidence)
  <2> DEFINE next == PB!Advanced(plan, k.hyp, k.status, k.evidence)
  <2>1. /\ next \in PB!Plan
        /\ next.count = plan.count + 1
        /\ next.max = plan.max
        /\ next.status = "in_progress"
        /\ Len(next.steps) = plan.count + 1
        /\ next.steps[plan.count + 1] =
               [number |-> plan.count + 1, evidence |-> k.evidence]
        /\ \A i \in DOMAIN plan.steps : next.steps[i] = plan.steps[i]
      BY AdvancedSteps DEF Sound
  <2>2. next.steps \in Seq(PB!Step)
      BY <2>1 DEF PB!Plan
  <2> HIDE DEF next
  <2>3. \A i \in DOMAIN next.steps : next.steps[i].number = i
    <3> SUFFICES ASSUME NEW i \in DOMAIN next.steps PROVE next.steps[i].number = i
        OBVIOUS
    <3>1. i \in 1..(plan.count + 1)
        BY <2>1, <2>2
    <3>2. CASE i = plan.count + 1
        BY <2>1, <3>2
    <3>3. CASE i \in 1..plan.count
      <4>1. i \in DOMAIN plan.steps
          BY <1>1, <3>3 DEF Sound
      <4> QED
          BY <2>1, <4>1 DEF Sound
    <3> QED
        BY <1>1, <3>1, <3>2, <3>3
  <2>4. next.count <= next.max
      BY <1>1, <1>5, <2>1 DEF PB!Exhausted
  <2>5. Sound(next)
      BY <2>1, <2>3, <2>4 DEF Sound
  <2> QED
      BY <1>5, <2>1, <2>5 DEF next
<1> QED
    BY <1>2, <1>3, <1>4, <1>5, OutcomeCases

\* No operation forgets or changes a step that a plan has.
LEMMA OutcomeKeepsSteps ==
    ASSUME NEW plan \in PB!Plan, NEW k \in Call, ~Rejected(plan, k), Sound(plan),
           NEW i \in DOMAIN plan.steps
    PROVE  /\ i \in DOMAIN Outcome(plan, k).steps
           /\ Outcome(plan, k).steps[i] = plan.steps[i]
<1> DEFINE next == PB!Advanced(plan, k.hyp, k.status, k.evidence)
<1>1. plan.steps \in Seq(PB!Step) /\ plan.count \in Nat
    BY DEF PB!Plan
<1>2. CASE \/ Outcome(plan, k) = PB!Aborted(plan)
           \/ Outcome(plan, k) = PB!Concluded(plan, k.hyp)
           \/ Outcome(plan, k) = PB!LimitReached(plan)
  <2>1. Outcome(plan, k).steps = plan.steps
      BY <1>2 DEF PB!Aborted, PB!Concluded, PB!LimitReached, PB!Plan
  <2> QED
      BY <2>1
<1>3. CASE Outcome(plan, k) = next
  <2>1. /\ next \in PB!Plan
        /\ Len(next.steps) = plan.count + 1
        /\ next.steps[i] = plan.steps[i]
      BY AdvancedSteps DEF Sound
  <2>2. next.steps \in Seq(PB!Step)
      BY <2>1 DEF PB!Plan
  <2>3. i \in 1..plan.count
      BY <1>1 DEF Sound
  <2> HIDE DEF next
  <2>4. i \in DOMAIN next.steps
      BY <1>1, <2>1, <2>2, <2>3
  <2> QED
      BY <1>3, <2>1, <2>4
<1> QED
    BY <1>2, <1>3, OutcomeCases

-----------------------------------------------------------------------------
(* The invariant of the engine.                                              *)

\* A new plan joins the store and touches no other.
LEMMA CreateFacts ==
    ASSUME EngineInv, NEW c \in Clients, NEW p \in Plans, CreatePlan(c, p)
    PROVE  \E plan \in PB!Plan :
              /\ Sound(plan)
              /\ plans[p] = PB!NoPlan
              /\ plans' = [plans EXCEPT ![p] = plan]
<1>1. PICK h \in Hyps, m \in Limits : PB!Write(p, PB!Created(h, m))
    BY DEF CreatePlan, PB!Create
<1>2. PB!Created(h, m) \in PB!Plan /\ Sound(PB!Created(h, m))
    BY CreatedSound
<1> QED
    BY <1>1, <1>2 DEF CreatePlan, PB!Create, PB!Write

\* An operation that saves has read what the store holds.
LEMMA SaveFacts ==
    ASSUME EngineInv, NEW c \in Clients, Save(c)
    PROVE  LET k == call[c]
               next == Outcome(plans[k.plan], k)
           IN  /\ k \in Call
               /\ k.plan \in Plans
               /\ plans[k.plan] \in PB!Plan
               /\ Sound(plans[k.plan])
               /\ copy[c] = plans[k.plan]
               /\ ~Rejected(plans[k.plan], k)
               /\ next \in PB!Plan
               /\ Sound(next)
               /\ plans' = [plans EXCEPT ![k.plan] = next]
<1> DEFINE k == call[c]
<1>1. k \in Call /\ k.plan \in Plans
    BY DEF EngineInv, EngineTypeOK, Call
<1>2. plans[k.plan] \in PB!Plan /\ Sound(plans[k.plan])
    BY <1>1 DEF EngineInv, EngineTypeOK, PlansSound
<1>3. copy[c] # PB!NoPlan
    BY DEF Save, Rejected, PB!Open, PB!NoPlan
<1>4. copy[c] = plans[k.plan]
    BY <1>3 DEF EngineInv, CopyInv, Save
<1>5. ~Rejected(plans[k.plan], k)
    BY <1>4 DEF Save
<1>6. Outcome(plans[k.plan], k) \in PB!Plan /\ Sound(Outcome(plans[k.plan], k))
    BY <1>1, <1>2, <1>5, OutcomeSound
<1>7. plans' = [plans EXCEPT ![k.plan] = Outcome(plans[k.plan], k)]
    BY <1>4 DEF Save, PB!Write
<1> QED
    BY <1>1, <1>2, <1>4, <1>5, <1>6, <1>7

\* The engine starts with an empty store and a free lock.
LEMMA InvInit == EngineInit => EngineInv
<1> SUFFICES ASSUME EngineInit PROVE EngineInv
    OBVIOUS
<1>1. (CHOOSE k \in Call : TRUE) \in Call
  <2>1. PICK p \in Plans, e \in Evidence : TRUE
      BY EngineAssumption
  <2>2. [kind |-> "abort", plan |-> p, hyp |-> NoHyp, status |-> "proposed",
         evidence |-> e] \in Call
      BY <2>1 DEF Call, PB!HypStatuses
  <2> QED
      BY <2>2
<1>2. NoAnswer \in Answer
    BY DEF NoAnswer, Answer
<1>3. EngineTypeOK
    BY <1>1, <1>2, NoPlanSound DEF EngineInit, PB!Init, EngineTypeOK
<1>4. LockInv
    BY EngineAssumption DEF EngineInit, LockInv
<1>5. CopyInv
    BY DEF EngineInit, CopyInv, At
<1>6. PlansSound
    BY NoPlanSound DEF EngineInit, PB!Init, PlansSound
<1>7. AnswersStand
    BY DEF EngineInit, AnswersStand, Stands, NoAnswer
<1> QED
    BY <1>3, <1>4, <1>5, <1>6, <1>7 DEF EngineInv

\* Ending an operation keeps the types, and forgets an earlier answer.
LEMMA LeaveTypes ==
    ASSUME EngineTypeOK, NEW c \in Clients, NEW n \in Nat,
           NEW how \in {"RETURNED", "RAISED", "CANCELLED"},
           Leave(c, how, n)
    PROVE  /\ pc' \in [Clients -> {"idle", "waiting", "reading", "read"}]
           /\ copy' \in [Clients -> PB!Plan]
           /\ answer' \in [Clients -> Answer]
           /\ pc' = [pc EXCEPT ![c] = "idle"]
           /\ answer'[c].step = n
           /\ \A d \in Clients : d # c => answer'[d] = answer[d]
<1>1. [outcome |-> how, step |-> n] \in Answer
    BY DEF Answer
<1> QED
    BY <1>1, NoPlanSound DEF Leave, EngineTypeOK

\* Ending an operation gives the lock back, if it had it.
LEMMA LeaveUnlocks ==
    ASSUME EngineTypeOK, LockInv, NEW c \in Clients, Unlock(c),
           pc' = [pc EXCEPT ![c] = "idle"]
    PROVE  lock' \in Clients \cup {Free} /\ LockInv'
BY EngineAssumption DEF EngineTypeOK, LockInv, Unlock

\* An operation that ends without a save keeps the invariant.
LEMMA InvQuit ==
    ASSUME EngineInv, NEW c \in Clients, Reject(c) \/ Cancel(c)
    PROVE  EngineInv'
<1>1. PICK how \in {"RAISED", "CANCELLED"} : Leave(c, how, 0)
    BY DEF Reject, Cancel
<1>2. plans' = plans /\ call' = call /\ Unlock(c)
    BY DEF Reject, Cancel
<1>3. /\ pc' \in [Clients -> {"idle", "waiting", "reading", "read"}]
      /\ copy' \in [Clients -> PB!Plan]
      /\ answer' \in [Clients -> Answer]
      /\ pc' = [pc EXCEPT ![c] = "idle"]
      /\ answer'[c].step = 0
      /\ \A d \in Clients : d # c => answer'[d] = answer[d]
    BY <1>1, LeaveTypes DEF EngineInv
<1>4. lock' \in Clients \cup {Free} /\ LockInv'
    BY <1>2, <1>3, LeaveUnlocks DEF EngineInv
<1>5. EngineTypeOK'
    BY <1>2, <1>3, <1>4 DEF EngineInv, EngineTypeOK
<1>6. CopyInv'
    BY <1>1, <1>2 DEF EngineInv, EngineTypeOK, CopyInv, At, Leave
<1>7. PlansSound'
    BY <1>2 DEF EngineInv, PlansSound
<1>8. AnswersStand'
    BY <1>2, <1>3 DEF EngineInv, AnswersStand, Stands
<1> QED
    BY <1>4, <1>5, <1>6, <1>7, <1>8 DEF EngineInv

\* A save keeps the invariant.
LEMMA InvSave ==
    ASSUME EngineInv, NEW c \in Clients, Save(c)
    PROVE  EngineInv'
<1> DEFINE k == call[c]
           plan == plans[k.plan]
           next == Outcome(plan, k)
<1>1. /\ k \in Call
      /\ k.plan \in Plans
      /\ plan \in PB!Plan /\ Sound(plan)
      /\ copy[c] = plan
      /\ ~Rejected(plan, k)
      /\ next \in PB!Plan /\ Sound(next)
      /\ plans' = [plans EXCEPT ![k.plan] = next]
    BY SaveFacts
<1>2. plan.count \in Nat /\ next.count \in Nat
    BY <1>1 DEF PB!Plan
<1>3. PICK how \in {"RETURNED", "RAISED"}, n \in {0, next.count} :
          /\ Leave(c, how, n)
          /\ n > 0 => k.kind = "advance" /\ next.status # "step_limit_exceeded"
    BY <1>1 DEF Save
<1>4. call' = call /\ Unlock(c) /\ pc[c] = "read"
    BY DEF Save, At
<1>5. /\ pc' \in [Clients -> {"idle", "waiting", "reading", "read"}]
      /\ copy' \in [Clients -> PB!Plan]
      /\ answer' \in [Clients -> Answer]
      /\ pc' = [pc EXCEPT ![c] = "idle"]
      /\ answer'[c].step = n
      /\ \A d \in Clients : d # c => answer'[d] = answer[d]
    BY <1>2, <1>3, LeaveTypes DEF EngineInv
<1>6. lock' \in Clients \cup {Free} /\ LockInv'
    BY <1>4, <1>5, LeaveUnlocks DEF EngineInv
<1>7. EngineTypeOK'
    BY <1>1, <1>4, <1>5, <1>6 DEF EngineInv, EngineTypeOK
<1>8. CopyInv'
  <2> SUFFICES ASSUME NEW d \in Clients, pc'[d] = "read" PROVE FALSE
      BY DEF CopyInv, At
  <2>1. d # c /\ pc[d] = "read"
      BY <1>5 DEF EngineInv, EngineTypeOK
  <2> QED
      BY <1>4, <2>1 DEF EngineInv, LockInv
<1>9. PlansSound'
    BY <1>1 DEF EngineInv, EngineTypeOK, PlansSound
<1>10. AnswersStand'
  <2> SUFFICES ASSUME NEW d \in Clients
               PROVE  Stands(answer'[d].step, call[d], plans'[call[d].plan].steps)
      BY <1>4 DEF AnswersStand
  <2>1. CASE d # c
    <3>1. Stands(answer[d].step, call[d], plans[call[d].plan].steps)
        BY DEF EngineInv, AnswersStand
    <3>2. CASE call[d].plan = k.plan
      <4>1. \A i \in DOMAIN plan.steps :
                i \in DOMAIN next.steps /\ next.steps[i] = plan.steps[i]
          BY <1>1, OutcomeKeepsSteps
      <4>2. plans'[call[d].plan] = next
          BY <1>1, <3>2 DEF EngineInv, EngineTypeOK
      <4> HIDE DEF next, plan
      <4> QED
          BY <1>5, <2>1, <3>1, <3>2, <4>1, <4>2 DEF Stands, plan
    <3>3. CASE call[d].plan # k.plan
        BY <1>1, <1>5, <2>1, <3>1, <3>3 DEF EngineInv, EngineTypeOK, Call, Stands
    <3> QED
        BY <3>2, <3>3
  <2>2. CASE d = c /\ n > 0
    <3>1. n = next.count /\ k.kind = "advance"
        BY <1>3, <2>2
    <3>2. next = PB!Advanced(plan, k.hyp, k.status, k.evidence)
      <4>1. ~PB!Exhausted(plan)
          BY <1>1, <1>3, <2>2, <3>1 DEF Outcome, PB!LimitReached, PB!Plan
      <4> QED
          BY <3>1, <4>1 DEF Outcome
    <3> DEFINE advanced == PB!Advanced(plan, k.hyp, k.status, k.evidence)
    <3>0. /\ advanced.count = plan.count + 1
          /\ Len(advanced.steps) = plan.count + 1
          /\ advanced.steps[plan.count + 1] =
                 [number |-> plan.count + 1, evidence |-> k.evidence]
      <4>1. plan \in PB!Plan /\ k \in Call /\ plan.count = Len(plan.steps)
          BY <1>1 DEF Sound
      <4> HIDE DEF plan, k
      <4> QED
          BY <4>1, AdvancedSteps
    <3>3. /\ next.count = plan.count + 1
          /\ Len(next.steps) = plan.count + 1
          /\ next.steps[plan.count + 1] =
                 [number |-> plan.count + 1, evidence |-> k.evidence]
      <4> HIDE DEF next, advanced
      <4> QED
          BY <3>2, <3>0 DEF advanced
    <3>4. next.steps \in Seq(PB!Step)
        BY <1>1 DEF PB!Plan
    <3>5. plans'[k.plan] = next
        BY <1>1 DEF EngineInv, EngineTypeOK
    <3> HIDE DEF next, plan
    <3>6. next.count \in DOMAIN next.steps /\ next.steps[next.count].evidence = k.evidence
        BY <1>2, <3>3, <3>4
    <3> QED
        BY <1>5, <2>2, <3>1, <3>5, <3>6 DEF Stands
  <2>3. CASE d = c /\ n = 0
      BY <1>5, <2>3 DEF Stands
  <2> QED
      BY <1>2, <1>3, <2>1, <2>2, <2>3
<1> QED
    BY <1>6, <1>7, <1>8, <1>9, <1>10 DEF EngineInv

\* A new plan keeps the invariant: whoever has read that it does not exist
\* holds no plan.
LEMMA InvCreate ==
    ASSUME EngineInv, NEW c \in Clients, NEW p \in Plans, CreatePlan(c, p)
    PROVE  EngineInv'
<1>1. PICK plan \in PB!Plan : /\ Sound(plan)
                              /\ plans[p] = PB!NoPlan
                              /\ plans' = [plans EXCEPT ![p] = plan]
    BY CreateFacts
<1>2. /\ lock' = lock /\ pc' = pc /\ call' = call /\ copy' = copy
      /\ answer' = [answer EXCEPT ![c] = [outcome |-> "RETURNED", step |-> 0]]
    BY DEF CreatePlan
<1>3. EngineTypeOK'
  <2>1. [outcome |-> "RETURNED", step |-> 0] \in Answer
      BY DEF Answer
  <2> QED
      BY <1>1, <1>2, <2>1 DEF EngineInv, EngineTypeOK
<1>4. LockInv'
    BY <1>2 DEF EngineInv, LockInv
<1>5. CopyInv'
    BY <1>1, <1>2 DEF EngineInv, EngineTypeOK, CopyInv, At
<1>6. PlansSound'
    BY <1>1 DEF EngineInv, EngineTypeOK, PlansSound
<1>7. AnswersStand'
  <2> SUFFICES ASSUME NEW d \in Clients
               PROVE  Stands(answer'[d].step, call[d], plans'[call[d].plan].steps)
      BY <1>2 DEF AnswersStand
  <2>1. answer'[d].step > 0 => answer'[d] = answer[d] /\ d # c
      BY <1>2 DEF EngineInv, EngineTypeOK
  <2>2. Stands(answer[d].step, call[d], plans[call[d].plan].steps)
      BY DEF EngineInv, AnswersStand
  <2>3. CASE call[d].plan = p
    <3>1. plans[p].steps = <<>>
        BY <1>1 DEF PB!NoPlan
    <3>2. answer[d].step \notin DOMAIN <<>>
        OBVIOUS
    <3> QED
        BY <2>1, <2>2, <2>3, <3>1, <3>2 DEF Stands
  <2>4. CASE call[d].plan # p
    <3>1. call[d].plan \in Plans
        BY DEF EngineInv, EngineTypeOK, Call
    <3>2. plans'[call[d].plan] = plans[call[d].plan]
        BY <1>1, <2>4, <3>1 DEF EngineInv, EngineTypeOK
    <3> QED
        BY <2>1, <2>2, <3>2 DEF Stands
  <2> QED
      BY <2>3, <2>4
<1> QED
    BY <1>3, <1>4, <1>5, <1>6, <1>7 DEF EngineInv

\* Calling an operation, taking the lock and reading keep the invariant.
LEMMA InvEnter ==
    ASSUME EngineInv, NEW c \in Clients,
           (\E k \in Call : Begin(c, k)) \/ Enter(c) \/ Read(c)
    PROVE  EngineInv'
<1>1. CASE \E k \in Call : Begin(c, k)
  <2>1. PICK k \in Call : Begin(c, k)
      BY <1>1
  <2>2. NoAnswer \in Answer /\ NoAnswer.step = 0
      BY DEF NoAnswer, Answer
  <2>3. EngineTypeOK'
      BY <2>1, <2>2 DEF EngineInv, EngineTypeOK, Begin
  <2>4. LockInv'
      BY <2>1 DEF EngineInv, EngineTypeOK, LockInv, Begin, At
  <2>5. CopyInv'
      BY <2>1 DEF EngineInv, EngineTypeOK, CopyInv, Begin, At
  <2>6. PlansSound'
      BY <2>1 DEF EngineInv, PlansSound, Begin
  <2>7. AnswersStand'
    <3> SUFFICES ASSUME NEW d \in Clients
                 PROVE  Stands(answer'[d].step, call'[d], plans[call'[d].plan].steps)
        BY <2>1 DEF AnswersStand, Begin
    <3>1. CASE d = c
        BY <2>1, <2>2, <3>1 DEF EngineInv, EngineTypeOK, Begin, Stands
    <3>2. CASE d # c
        BY <2>1, <3>2 DEF EngineInv, EngineTypeOK, AnswersStand, Begin
    <3> QED
        BY <3>1, <3>2
  <2> QED
      BY <2>3, <2>4, <2>5, <2>6, <2>7 DEF EngineInv
<1>2. CASE Enter(c)
  <2>1. EngineTypeOK'
      BY <1>2 DEF EngineInv, EngineTypeOK, Enter
  <2>2. LockInv'
      BY <1>2, EngineAssumption DEF EngineInv, EngineTypeOK, LockInv, Enter, At
  <2>3. CopyInv'
      BY <1>2 DEF EngineInv, EngineTypeOK, CopyInv, Enter, At
  <2>4. PlansSound' /\ AnswersStand'
      BY <1>2 DEF EngineInv, PlansSound, AnswersStand, Enter
  <2> QED
      BY <2>1, <2>2, <2>3, <2>4 DEF EngineInv
<1>3. CASE Read(c)
  <2>1. plans[call[c].plan] \in PB!Plan
      BY DEF EngineInv, EngineTypeOK, Call
  <2>2. EngineTypeOK'
      BY <1>3, <2>1 DEF EngineInv, EngineTypeOK, Read
  <2>3. LockInv'
      BY <1>3 DEF EngineInv, EngineTypeOK, LockInv, Read, At
  <2>4. CopyInv'
      BY <1>3 DEF EngineInv, EngineTypeOK, CopyInv, Read, At
  <2>5. PlansSound' /\ AnswersStand'
      BY <1>3 DEF EngineInv, PlansSound, AnswersStand, Read
  <2> QED
      BY <2>2, <2>3, <2>4, <2>5 DEF EngineInv
<1> QED
    BY <1>1, <1>2, <1>3

\* Every step of the engine keeps its invariant.
LEMMA InvStep == EngineInv /\ [EngineNext]_engineVars => EngineInv'
<1> SUFFICES ASSUME EngineInv, [EngineNext]_engineVars PROVE EngineInv'
    OBVIOUS
<1>1. CASE EngineNext
  <2>1. PICK c \in Clients :
            \/ \E p \in Plans : CreatePlan(c, p)
            \/ \E k \in Call : Begin(c, k)
            \/ Enter(c) \/ Operate(c) \/ Cancel(c)
      BY <1>1 DEF EngineNext
  <2>2. CASE \E p \in Plans : CreatePlan(c, p)
      BY <2>2, InvCreate
  <2>3. CASE (\E k \in Call : Begin(c, k)) \/ Enter(c) \/ Read(c)
      BY <2>3, InvEnter
  <2>4. CASE Reject(c) \/ Cancel(c)
      BY <2>4, InvQuit
  <2>5. CASE Save(c)
      BY <2>5, InvSave
  <2> QED
      BY <2>1, <2>2, <2>3, <2>4, <2>5 DEF Operate
<1>2. CASE UNCHANGED engineVars
    BY <1>2 DEF EngineInv, EngineTypeOK, LockInv, CopyInv, PlansSound,
                AnswersStand, At, engineVars
<1> QED
    BY <1>1, <1>2

\* The invariant holds in every reachable state: the lock belongs to the
\* operation between its read and its save, what it read is what the store
\* holds, plans are sound, and answers given to callers stand.
THEOREM EngineCorrect == EngineSpec => []EngineInv
BY InvInit, InvStep, PTL DEF EngineSpec

\* Plans are sound: numbering, ceiling and conclusion.
THEOREM PlansAreSound == EngineSpec => []PlansSound
<1>1. EngineInv => PlansSound
    BY DEF EngineInv
<1> QED
    BY <1>1, EngineCorrect, PTL

\* A step reported to a caller is never lost: no update of one coroutine is
\* overwritten from a copy that another made before it.
THEOREM NoLostStep == EngineSpec => []AnswersStand
<1>1. EngineInv => AnswersStand
    BY DEF EngineInv
<1> QED
    BY <1>1, EngineCorrect, PTL

-----------------------------------------------------------------------------
(* What a step of the engine does to the store.                              *)

\* A save is one operation of the book of plans.
LEMMA SaveImplements ==
    ASSUME EngineInv, NEW c \in Clients, Save(c)
    PROVE  PB!Next
<1> DEFINE k == call[c]
           plan == plans[k.plan]
           next == Outcome(plan, k)
<1>1. /\ k \in Call
      /\ k.plan \in Plans
      /\ plan \in PB!Plan
      /\ ~Rejected(plan, k)
      /\ PB!Write(k.plan, next)
    BY SaveFacts DEF PB!Write
<1>2. PB!Open(plan)
    BY <1>1, OutcomeCases
<1>3. CASE next = PB!Aborted(plan)
    BY <1>1, <1>2, <1>3 DEF PB!Abort, PB!Next
<1>4. CASE k.hyp \in Hyps /\ plan.hyps[k.hyp] # "none" /\ next = PB!Concluded(plan, k.hyp)
    BY <1>1, <1>2, <1>4 DEF PB!Conclude, PB!Next
<1>5. CASE PB!Exhausted(plan) /\ next = PB!LimitReached(plan)
    BY <1>1, <1>2, <1>5 DEF PB!ReachLimit, PB!Next
<1>6. CASE ~PB!Exhausted(plan) /\ next = PB!Advanced(plan, k.hyp, k.status, k.evidence)
  <2>1. /\ k.hyp \in Hyps \cup {NoHyp}
        /\ k.status \in PB!HypStatuses \ {"none"}
        /\ k.evidence \in Evidence
      BY <1>1 DEF Call
  <2>2. PB!Advance(k.plan)
      BY <1>1, <1>2, <1>6, <2>1 DEF PB!Advance
  <2> QED
      BY <1>1, <2>2 DEF PB!Next
<1> QED
    BY <1>1, <1>3, <1>4, <1>5, <1>6, OutcomeCases

\* A step of the engine is a step of the book of plans, or leaves it alone.
LEMMA StepImplements ==
    EngineInv /\ [EngineNext]_engineVars => [PB!Next]_plans
<1> SUFFICES ASSUME EngineInv, [EngineNext]_engineVars PROVE [PB!Next]_plans
    OBVIOUS
<1>1. CASE EngineNext
  <2>1. PICK c \in Clients :
            \/ \E p \in Plans : CreatePlan(c, p)
            \/ \E k \in Call : Begin(c, k)
            \/ Enter(c) \/ Operate(c) \/ Cancel(c)
      BY <1>1 DEF EngineNext
  <2>2. CASE \E p \in Plans : CreatePlan(c, p)
      BY <2>2 DEF CreatePlan, PB!Next
  <2>3. CASE Save(c)
      BY <2>3, SaveImplements
  <2>4. CASE (\E k \in Call : Begin(c, k)) \/ Enter(c) \/ Read(c)
                 \/ Reject(c) \/ Cancel(c)
      BY <2>4 DEF Begin, Enter, Read, Reject, Cancel
  <2> QED
      BY <2>1, <2>2, <2>3, <2>4 DEF Operate
<1>2. CASE UNCHANGED engineVars
    BY <1>2 DEF engineVars
<1> QED
    BY <1>1, <1>2

\* The engine implements the book of plans: between its lock, its copies and
\* its saves every operation still takes effect at once.
THEOREM ImplementsPlanBook == EngineSpec => ImplementsBook
<1>1. EngineInit => PB!Init
    BY DEF EngineInit
<1> QED
    BY <1>1, EngineCorrect, StepImplements, PTL DEF EngineSpec, ImplementsBook, PB!Spec

\* A step of the book never touches a plan that has ended.
LEMMA BookKeepsTerminal ==
    PB!Next => \A p \in Plans : plans[p].status \in PB!Terminal =>
                                    plans'[p] = plans[p]
<1> SUFFICES ASSUME PB!Next, NEW p \in Plans, plans[p].status \in PB!Terminal
             PROVE  plans'[p] = plans[p]
    OBVIOUS
<1>1. PICK q \in Plans : \/ PB!Create(q) \/ PB!Advance(q) \/ PB!ReachLimit(q)
                         \/ PB!Conclude(q) \/ PB!Abort(q)
    BY DEF PB!Next
<1>2. PB!Open(plans[q]) \/ plans[q] = PB!NoPlan
    BY <1>1 DEF PB!Create, PB!Advance, PB!ReachLimit, PB!Conclude, PB!Abort
<1>3. q # p
    BY <1>2 DEF PB!Open, PB!NoPlan, PB!Terminal
<1>4. \E plan : plans' = [plans EXCEPT ![q] = plan]
    BY <1>1 DEF PB!Create, PB!Advance, PB!ReachLimit, PB!Conclude, PB!Abort, PB!Write
<1> QED
    BY <1>3, <1>4

\* A concluded or aborted plan never changes again.
THEOREM EndedPlansFrozen == EngineSpec => TerminalFrozen
<1>1. [PB!Next]_plans =>
          [\A p \in Plans : plans[p].status \in PB!Terminal =>
                                plans'[p] = plans[p]]_plans
    BY BookKeepsTerminal
<1> QED
    BY <1>1, EngineCorrect, StepImplements, PTL DEF EngineSpec, TerminalFrozen

-----------------------------------------------------------------------------
(* Numbers.                                                                 *)

\* Every set of numbers that is not empty has a least member.
LEMMA LeastNumber ==
    ASSUME NEW T \in SUBSET Nat, T # {}
    PROVE  \E m \in T : \A k \in T : m <= k
<1>1. PICK n \in T : TRUE
  OBVIOUS
<1> DEFINE S == 0..n
           F == {0..m : m \in {t \in T : t <= n}}
           R == StrictSubsetOrdering(S)
<1>2. n \in Nat
  OBVIOUS
<1>3. IsFiniteSet(S)
  BY <1>2, FS_Interval
<1>4. FiniteSubsetsOf(S) = SUBSET S
  BY <1>3, FS_FiniteSubsetsOfFinite
<1>5. IsWellFoundedOn(R, SUBSET S)
  BY <1>4, FS_StrictSubsetOrderingWellFounded
<1>6. F \subseteq SUBSET S
  BY <1>2
<1>7. 0..n \in F
  BY <1>1, <1>2
<1>8. F # {}
  BY <1>7
<1>9. \E x \in F : \A y \in F : ~(<<y, x>> \in R)
  <2> HIDE DEF F, R, S
  <2> QED BY <1>5, <1>6, <1>8, WFMin
<1>10. PICK m \in T : m <= n /\ \A y \in F : ~(<<y, 0..m>> \in R)
  BY <1>9
<1>11. ASSUME NEW k \in T PROVE m <= k
  <2> SUFFICES ASSUME k < m PROVE FALSE
    OBVIOUS
  <2>1. 0..k \in F
    BY <1>2, <1>10
  <2>2. 0..k \in SUBSET S /\ 0..m \in SUBSET S
    BY <1>2, <1>10
  <2>3. 0..k \subseteq 0..m
    OBVIOUS
  <2>4. m \in 0..m /\ m \notin 0..k
    OBVIOUS
  <2>5. 0..k # 0..m
    BY <2>4
  <2>6. <<0..k, 0..m>> \in R
    BY <2>2, <2>3, <2>5 DEF StrictSubsetOrdering
  <2> QED BY <1>10, <2>1, <2>6
<1> QED BY <1>11

\* Induction, for a set of numbers.
LEMMA Induction ==
    ASSUME NEW U, 0 \in U, \A n \in Nat : n \in U => n + 1 \in U
    PROVE  Nat \subseteq U
<1> DEFINE T == Nat \ U
<1> SUFFICES ASSUME T # {} PROVE FALSE
  OBVIOUS
<1>1. PICK m \in T : \A k \in T : m <= k
  BY LeastNumber
<1>2. m # 0 /\ m - 1 \in Nat
  BY <1>1
<1>3. m - 1 \in U
  BY <1>1, <1>2
<1>4. (m - 1) + 1 \in U
  BY <1>2, <1>3
<1> QED BY <1>1, <1>4

-----------------------------------------------------------------------------
(* Evidence.                                                                 *)

Flat(seqs, n, f) == f = [i \in 1..n |-> IF i = 1 THEN seqs[i] ELSE f[i - 1] \o seqs[i]]

\* Concatenating one sequence after another is well-defined.
LEMMA FlatExists ==
    ASSUME NEW S, NEW seqs, NEW n \in Nat
    PROVE  \E f : Flat(seqs, n, f)
<1> DEFINE U == {m \in Nat : \E f : Flat(seqs, m, f)}
<1>1. 0 \in U
  <2>1. Flat(seqs, 0, [i \in 1..0 |-> seqs[i]])
    BY DEF Flat
  <2> QED BY <2>1
<1>2. ASSUME NEW k \in Nat, k \in U PROVE k + 1 \in U
  <2>1. PICK f : Flat(seqs, k, f)
    BY <1>2
  <2> DEFINE g == [i \in 1..(k + 1) |-> IF i \in 1..k THEN f[i]
                                        ELSE IF i = 1 THEN seqs[i] ELSE f[i - 1] \o seqs[i]]
             h == [i \in 1..(k + 1) |-> IF i = 1 THEN seqs[i] ELSE g[i - 1] \o seqs[i]]
  <2>2. \A i \in 1..k : f[i] = IF i = 1 THEN seqs[i] ELSE f[i - 1] \o seqs[i]
    BY <2>1 DEF Flat
  <2>3. ASSUME NEW i \in 1..(k + 1) PROVE g[i] = h[i]
    <3>1. i # 1 => i - 1 \in 1..k /\ i - 1 \in 1..(k + 1)
      OBVIOUS
    <3>2. i # 1 => g[i - 1] = f[i - 1]
      BY <3>1
    <3>3. h[i] = IF i = 1 THEN seqs[i] ELSE f[i - 1] \o seqs[i]
      BY <3>2
    <3> QED BY <3>3, <2>2
  <2>4. g = h
    BY <2>3
  <2>5. Flat(seqs, k + 1, g)
    BY <2>4 DEF Flat
  <2> HIDE DEF g
  <2> QED BY <2>5
<1>3. Nat \subseteq U
  <2> HIDE DEF U
  <2> QED BY <1>1, <1>2, Induction
<1> QED BY <1>3

\* Sequences put one after another are a sequence.
LEMMA FlattenIsSeq ==
    ASSUME NEW S, NEW seqs \in Seq(Seq(S))
    PROVE  FlattenSeq(seqs) \in Seq(S)
<1> DEFINE n == Len(seqs)
           f == CHOOSE g : Flat(seqs, n, g)
<1>1. n \in Nat /\ \A i \in 1..n : seqs[i] \in Seq(S)
  OBVIOUS
<1>2. CASE n = 0
  <2>1. FlattenSeq(seqs) = seqs /\ seqs = <<>>
    BY <1>2 DEF FlattenSeq
  <2> QED BY <2>1
<1>3. CASE n # 0
  <2>1. Flat(seqs, n, f)
    BY <1>1, FlatExists
  <2>2. FlattenSeq(seqs) = f[n]
    BY <1>3 DEF FlattenSeq, Flat
  <2> HIDE DEF f
  <2>3. \A i \in 1..n : f[i] = IF i = 1 THEN seqs[i] ELSE f[i - 1] \o seqs[i]
    BY <2>1 DEF Flat
  <2> DEFINE U == {m \in Nat : m + 1 <= n => f[m + 1] \in Seq(S)}
  <2>4. 0 \in U
    BY <2>3, <1>1, <1>3
  <2>5. ASSUME NEW m \in Nat, m \in U PROVE m + 1 \in U
    <3> SUFFICES ASSUME m + 2 <= n PROVE f[m + 2] \in Seq(S)
      OBVIOUS
    <3>1. f[m + 1] \in Seq(S) /\ m + 2 \in 1..n
      BY <2>5, <1>1
    <3>2. f[m + 2] = f[m + 1] \o seqs[m + 2]
      <4>1. (m + 2) - 1 = m + 1 /\ m + 2 # 1
        OBVIOUS
      <4>2. f[m + 2] = IF m + 2 = 1 THEN seqs[m + 2] ELSE f[(m + 2) - 1] \o seqs[m + 2]
        BY <3>1, <2>3
      <4> QED BY <4>1, <4>2
    <3>3. seqs[m + 2] \in Seq(S)
      BY <3>1, <1>1
    <3> QED BY <3>1, <3>2, <3>3, ConcatProperties
  <2>6. Nat \subseteq U
    <3> HIDE DEF U
    <3> QED BY <2>4, <2>5, Induction
  <2>7. n - 1 \in Nat /\ (n - 1) + 1 = n
    BY <1>1, <1>3
  <2>8. f[n] \in Seq(S)
    <3>1. n - 1 \in U
      BY <2>6, <2>7
    <3> QED BY <3>1, <2>7
  <2> QED BY <2>2, <2>8
<1> QED BY <1>2, <1>3

Before(items, i, j) ==
    \/ items[i].time < items[j].time
    \/ items[i].time = items[j].time /\ i < j

Place(items, i) == Cardinality({j \in DOMAIN items : Before(items, j, i)})

\* Every item has a place in the timeline, and every place an item.
LEMMA Places ==
    ASSUME NEW items \in Seq(Items)
    PROVE  /\ DOMAIN items = 1..Len(items)
           /\ \A i \in DOMAIN items : Place(items, i) \in Nat /\ Place(items, i) + 1 \in DOMAIN items
           /\ \A i, j \in DOMAIN items : Place(items, i) = Place(items, j) => i = j
           /\ \A k \in DOMAIN items : \E i \in DOMAIN items : Place(items, i) = k - 1
<1> DEFINE n == Len(items)
           D == 1..n
           earlier(i) == {j \in D : Before(items, j, i)}
<1>1. n \in Nat /\ DOMAIN items = D
  OBVIOUS
<1>2. \A i \in D : items[i].time \in Nat
  <2>1. \A i \in D : items[i] \in Items
    BY <1>1
  <2>2. \A e \in Items : e.time \in Nat
    BY DEF Items
  <2> QED BY <2>1, <2>2
<1>3. IsFiniteSet(D) /\ Cardinality(D) = n
  BY <1>1, FS_Interval
<1>4. ASSUME NEW i \in D
      PROVE  /\ IsFiniteSet(earlier(i)) /\ Place(items, i) \in 0..(n - 1)
             /\ Place(items, i) = Cardinality(earlier(i))
  <2>1. earlier(i) \in SUBSET (D \ {i})
    BY <1>2 DEF Before
  <2>2. IsFiniteSet(D \ {i}) /\ Cardinality(D \ {i}) = n - 1
    BY <1>3, FS_RemoveElement
  <2>3. IsFiniteSet(earlier(i)) /\ Cardinality(earlier(i)) <= n - 1 /\ Cardinality(earlier(i)) \in Nat
    BY <2>1, <2>2, FS_Subset, FS_CardinalityType
  <2>4. Place(items, i) = Cardinality(earlier(i))
    BY <1>1 DEF Place
  <2> QED BY <2>3, <2>4, <1>1
<1>5. ASSUME NEW i \in D, NEW j \in D, Before(items, i, j) PROVE Place(items, i) < Place(items, j)
  <2>1. earlier(i) \in SUBSET earlier(j)
    <3>1. ASSUME NEW h \in D, Before(items, h, i) PROVE Before(items, h, j)
      BY <3>1, <1>5, <1>2 DEF Before
    <3> QED BY <3>1
  <2>2. i \in earlier(j) /\ i \notin earlier(i)
    BY <1>5, <1>2 DEF Before
  <2>3. earlier(i) # earlier(j)
    BY <2>2
  <2>4. /\ Cardinality(earlier(i)) <= Cardinality(earlier(j))
        /\ Cardinality(earlier(i)) # Cardinality(earlier(j))
    <3> HIDE DEF earlier
    <3>1. IsFiniteSet(earlier(j))
      BY <1>4
    <3> QED BY <3>1, <2>1, <2>3, FS_Subset
  <2>5. /\ Place(items, i) = Cardinality(earlier(i)) /\ Place(items, i) \in Nat
        /\ Place(items, j) = Cardinality(earlier(j)) /\ Place(items, j) \in Nat
    <3> HIDE DEF earlier
    <3> QED BY <1>1, <1>4
  <2> HIDE DEF earlier
  <2> QED BY <2>4, <2>5
<1>6. \A i \in D : Place(items, i) \in Nat /\ Place(items, i) + 1 \in D
  <2> TAKE i \in D
  <2>1. Place(items, i) \in 0..(n - 1)
    BY <1>4
  <2> QED BY <2>1, <1>1
<1>7. ASSUME NEW i \in D, NEW j \in D, Place(items, i) = Place(items, j) PROVE i = j
  <2>1. i = j \/ Before(items, i, j) \/ Before(items, j, i)
    BY <1>2 DEF Before
  <2>2. Place(items, i) \in Nat /\ Place(items, j) \in Nat
    BY <1>6
  <2>3. ~(Place(items, i) < Place(items, j)) /\ ~(Place(items, j) < Place(items, i))
    BY <2>2, <1>7
  <2> QED BY <2>1, <2>3, <1>5
<1> DEFINE p == [i \in D |-> Place(items, i) + 1]
<1>8. p \in Injection(D, D)
  <2>1. \A i \in D : Place(items, i) + 1 \in D
    BY <1>6
  <2>2. p \in [D -> D]
    BY <2>1
  <2>3. \A i, j \in D : p[i] = p[j] => i = j
    <3> SUFFICES ASSUME NEW i \in D, NEW j \in D, p[i] = p[j] PROVE i = j
      OBVIOUS
    <3>1. Place(items, i) = Place(items, j)
      BY <1>6
    <3> QED BY <3>1, <1>7
  <2> QED BY <2>2, <2>3 DEF Injection, IsInjective
<1>9. p \in Surjection(D, D)
  <2> HIDE DEF p, D
  <2> QED BY <1>3, <1>8, FS_Injection
<1>10. ASSUME NEW k \in D PROVE \E i \in D : Place(items, i) = k - 1
  <2>1. PICK i \in D : p[i] = k
    BY <1>9 DEF Surjection
  <2>2. Place(items, i) + 1 = k /\ Place(items, i) \in Nat
    BY <2>1, <1>6
  <2> QED BY <2>2
<1> HIDE DEF D
<1>11. \A i, j \in D : Place(items, i) = Place(items, j) => i = j
  BY <1>7
<1>12. \A k \in D : \E i \in D : Place(items, i) = k - 1
  BY <1>10
<1> QED BY <1>1, <1>11, <1>12, <1>6 DEF D

\* The timeline holds the evidence and nothing else.
LEMMA TimelineKeeps ==
    ASSUME NEW items \in Seq(Items)
    PROVE  ToSet(Timeline(items)) = ToSet(items)
<1> DEFINE D == DOMAIN items
           order(k) == CHOOSE i \in D : Place(items, i) = k - 1
<1>1. Timeline(items) = [k \in D |-> items[order(k)]]
  BY DEF Timeline, Place, Before
<1>2. \A k \in D : order(k) \in D /\ Place(items, order(k)) = k - 1
  BY Places
<1>3. \A i \in D : Place(items, i) + 1 \in D /\ Place(items, i) \in Nat
  BY Places
<1>4. \A i \in D : order(Place(items, i) + 1) = i
  <2> TAKE i \in D
  <2> DEFINE k == Place(items, i) + 1
  <2>1. k \in D /\ k - 1 = Place(items, i)
    BY <1>3
  <2>2. Place(items, order(k)) = Place(items, i) /\ order(k) \in D
    BY <2>1, <1>2
  <2> QED BY <2>2, Places
<1> HIDE DEF order
<1>5. ToSet(Timeline(items)) \subseteq ToSet(items)
  BY <1>1, <1>2 DEF ToSet
<1>6. ToSet(items) \subseteq ToSet(Timeline(items))
  <2> SUFFICES ASSUME NEW i \in D PROVE items[i] \in ToSet(Timeline(items))
    BY DEF ToSet
  <2>1. Timeline(items)[Place(items, i) + 1] = items[i] /\ DOMAIN Timeline(items) = D
    BY <1>1, <1>3, <1>4
  <2> QED BY <2>1, <1>3 DEF ToSet
<1> QED BY <1>5, <1>6

Statuses == {"success", "failed", "blocked", "not_configured", "pending", "raised"}

\* What a source hands over is a sequence of items, and a collector's exception is caught.
LEMMA OutcomeType ==
    ASSUME NEW sel, NEW i \in DOMAIN Sources, NEW o \in Outcomes(Sources[i], sel)
    PROVE  o.status \in Statuses /\ o.evidence \in Seq(Items) /\ o # Raised /\ o # Pending
           /\ o = [status |-> o.status, evidence |-> o.evidence]
<1> DEFINE Good(x) == \/ \E e \in Seq(Items) : x = [status |-> "success", evidence |-> e]
                      \/ \E t \in {"failed", "blocked", "not_configured", "raised"} :
                            x = [status |-> t, evidence |-> <<>>]
<1>1. PICK c \in Collector(Sources[i], sel) : o = CollectSafe(c)
  BY DEF Outcomes
<1>2. \A op \in Operations : Backend[op] \subseteq Seq(Items)
  BY ServiceAssumption
<1>3. <<>> \in Seq(Items)
  OBVIOUS
<1>4. ASSUME NEW S, NEW op \in Operations PROVE Answers(S, op) \subseteq Seq(Items)
  BY <1>2, <1>3 DEF Answers
<1>5. \A e \in Seq(Items) : Good(Success(e))
  BY DEF Success
<1>6. \A t \in {"failed", "blocked", "not_configured", "raised"} : Good(Without(t))
  BY DEF Without
<1>7. Good(Raised)
  BY <1>6 DEF Raised
<1> HIDE DEF Good
<1>8. \A x \in SuperOffice(sel) : Good(x)
  <2>1. Backend["ticket"] \subseteq Seq(Items) /\ Answers(sel, "audit") \subseteq Seq(Items)
    BY <1>2, <1>4 DEF Operations
  <2>2. \A t \in Backend["ticket"], a \in Answers(sel, "audit") : Good(Success(t \o a))
    BY <2>1, <1>5, ConcatProperties
  <2> DEFINE T == {Success(t \o a) : t \in Backend["ticket"], a \in Answers(sel, "audit")}
  <2>3. \A x \in T : Good(x)
    BY <2>2
  <2>4. SuperOffice(sel) = IF "ticket" \notin sel THEN {Success(<<>>)}
                           ELSE IF "superoffice" \notin Configured THEN {Without("failed")}
                           ELSE T \cup {Without("failed"), Raised}
    BY DEF SuperOffice
  <2> HIDE DEF T
  <2>5. Good(Success(<<>>)) /\ Good(Without("failed"))
    BY <1>3, <1>5, <1>6
  <2> QED BY <2>3, <2>4, <2>5, <1>7
<1>9. \A x \in Diagnostics(sel) : Good(x)
  <2> DEFINE asked == {op \in ToSet(DiagnosticOperations) :
                          op \in sel /\ (op = "ticket_diagnostic" => "ticket" \in sel)}
             given == {g \in [DOMAIN DiagnosticOperations ->
                                 {<<>>} \cup UNION {Backend[op] : op \in asked}] :
                          \A k \in DOMAIN g : g[k] \in Answers(asked, DiagnosticOperations[k])}
  <2>1. DOMAIN DiagnosticOperations = 1..5 /\ \A k \in 1..5 : DiagnosticOperations[k] \in Operations
    BY DEF DiagnosticOperations, Operations
  <2>2. ASSUME NEW g \in given PROVE FlattenSeq(g) \in Seq(Items)
    <3>1. DOMAIN g = 1..5 /\ g = [k \in 1..5 |-> g[k]]
      BY <2>1
    <3>2. \A k \in 1..5 : g[k] \in Seq(Items)
      BY <3>1, <2>1, <1>4
    <3>3. g \in [1..5 -> Seq(Items)]
      BY <3>1, <3>2
    <3>4. g \in Seq(Seq(Items))
      <4> DEFINE T == Seq(Items)
      <4>1. 5 \in Nat /\ g \in [1..5 -> T]
        BY <3>3
      <4> HIDE DEF T
      <4>2. g \in Seq(T)
        <5>1. g \in UNION {[1..n -> T] : n \in Nat}
          BY <4>1
        <5>2. Seq(T) = UNION {[1..n -> T] : n \in Nat}
          BY SeqDef, Zenon
        <5> QED BY <5>1, <5>2, Zenon
      <4> QED BY <4>2 DEF T
    <3> QED BY <3>4, FlattenIsSeq
  <2>3. Diagnostics(sel) = CASE asked = {} -> {Success(<<>>)}
                             [] asked # {} /\ "diagnostics" \notin Configured -> {Without("failed")}
                             [] OTHER -> {Success(FlattenSeq(g)) : g \in given}
                                            \cup {Without("failed"), Raised}
    BY DEF Diagnostics
  <2> HIDE DEF asked, given
  <2>4. \A x \in {Success(FlattenSeq(g)) : g \in given} : Good(x)
    BY <2>2, <1>5
  <2>5. Good(Success(<<>>)) /\ Good(Without("failed"))
    BY <1>3, <1>5, <1>6
  <2> DEFINE T == {Success(FlattenSeq(g)) : g \in given}
  <2>6. Diagnostics(sel) \subseteq {Success(<<>>), Without("failed"), Raised} \cup T
    <3>1. CASE asked = {}
      BY <2>3, <3>1
    <3>2. CASE asked # {} /\ "diagnostics" \notin Configured
      BY <2>3, <3>2
    <3>3. CASE ~(asked = {}) /\ ~(asked # {} /\ "diagnostics" \notin Configured)
      BY <2>3, <3>3
    <3> QED BY <3>1, <3>2, <3>3
  <2> HIDE DEF T
  <2>7. \A x \in T : Good(x)
    BY <2>4 DEF T
  <2> QED BY <2>5, <2>6, <2>7, <1>7
<1>10. \A x \in Logs(sel) : Good(x)
  BY <1>2, <1>5, <1>6 DEF Logs, Operations
<1>11. \A x \in Knowledge(sel) : Good(x)
  <2>1. Backend["issues"] \subseteq Seq(Items) /\ Backend["chunks"] \subseteq Seq(Items)
    BY <1>2 DEF Operations
  <2> DEFINE T == {Success(a \o b) : a \in Backend["issues"], b \in Backend["chunks"]}
  <2>2. \A a \in Backend["issues"], b \in Backend["chunks"] : a \o b \in Seq(Items)
    BY <2>1, ConcatProperties
  <2>3. \A x \in T : Good(x)
    <3>1. \A a \in Backend["issues"], b \in Backend["chunks"] : Good(Success(a \o b))
      BY <2>2, <1>5
    <3> QED BY <3>1
  <2>4. Knowledge(sel) \subseteq {Success(<<>>), Without("failed"), Without("not_configured")} \cup T
    <3> DEFINE kept == {x \in T : Len(x.evidence) <= IssueLimit}
    <3>1. Knowledge(sel) = CASE "issues" \notin sel -> {Success(<<>>)}
                             [] "issues" \in sel /\ "knowledge" \notin Configured ->
                                   {Without("not_configured")}
                             [] OTHER -> kept \cup {Without("failed"), Without("not_configured")}
      BY DEF Knowledge
    <3>2. kept \subseteq T
      OBVIOUS
    <3> HIDE DEF kept, T
    <3>3. CASE "issues" \notin sel
      BY <3>1, <3>3
    <3>4. CASE "issues" \in sel /\ "knowledge" \notin Configured
      BY <3>1, <3>4
    <3>5. CASE "issues" \in sel /\ "knowledge" \in Configured
      BY <3>1, <3>2, <3>5
    <3> QED BY <3>3, <3>4, <3>5
  <2> HIDE DEF T
  <2>5. Good(Success(<<>>)) /\ Good(Without("failed")) /\ Good(Without("not_configured"))
    BY <1>3, <1>5, <1>6
  <2> QED BY <2>3, <2>4, <2>5
<1>12. Good(c)
  <2>1. Sources[i] \in {"superoffice", "diagnostics", "logs", "knowledge"}
    BY DEF Sources
  <2> QED BY <1>1, <1>8, <1>9, <1>10, <1>11, <2>1 DEF Collector
<1>13. c = Raised => o = Without("failed")
  BY <1>1 DEF CollectSafe
<1>14. c # Raised => o = c
  BY <1>1 DEF CollectSafe
<1>15. Good(o) /\ o # Raised
  <2>1. CASE c = Raised
    BY <2>1, <1>6, <1>13 DEF Raised, Without
  <2>2. CASE c # Raised
    BY <2>2, <1>12, <1>14
  <2> QED BY <2>1, <2>2
<1>16. CASE \E e \in Seq(Items) : o = [status |-> "success", evidence |-> e]
  <2>1. PICK e \in Seq(Items) : o = [status |-> "success", evidence |-> e]
    BY <1>16
  <2>2. o.status = "success" /\ o.evidence = e
    BY <2>1
  <2>3. Pending.status = "pending"
    BY DEF Pending, Without
  <2>4. o # Pending
    BY <2>2, <2>3
  <2> QED BY <2>1, <2>2, <2>4, <1>15 DEF Statuses
<1>17. CASE \E t \in {"failed", "blocked", "not_configured", "raised"} :
               o = [status |-> t, evidence |-> <<>>]
  <2>1. PICK t \in {"failed", "blocked", "not_configured", "raised"} :
               o = [status |-> t, evidence |-> <<>>]
    BY <1>17
  <2>2. o.status = t /\ o.evidence = <<>>
    BY <2>1
  <2>3. Pending.status = "pending"
    BY DEF Pending, Without
  <2>4. o # Pending
    BY <2>1, <2>2, <2>3
  <2> QED BY <2>1, <2>2, <2>4, <1>3, <1>15 DEF Statuses
<1> QED BY <1>15, <1>16, <1>17 DEF Good

-----------------------------------------------------------------------------
(* Reports.                                                                  *)

Collections == [DOMAIN Sources -> [status : Statuses, evidence : Seq(Items)]]

\* What a report says of the sources is what they handed over, each item once.
Consistent(made) ==
    LET items == EvidenceOf(made.outcomes)
    IN  /\ Len(made.outcomes) = Len(Sources)
        /\ IsInjective(Ids(items))
        /\ ToSet(made.timeline) = ToSet(items)
        /\ \A g \in made.groups : g.members \subseteq ToSet(Ids(items))

LEMMA EvidenceType ==
    ASSUME NEW outcomes \in Collections
    PROVE  EvidenceOf(outcomes) \in Seq(Items)
<1> DEFINE T == Seq(Items)
           parts == [i \in DOMAIN outcomes |-> outcomes[i].evidence]
<1>1. DOMAIN outcomes = 1..4 /\ \A i \in 1..4 : outcomes[i].evidence \in T
  BY DEF Collections, Sources
<1> HIDE DEF T
<1>2. parts \in UNION {[1..n -> T] : n \in Nat}
  BY <1>1
<1>3. parts \in Seq(T)
  <2>1. Seq(T) = UNION {[1..n -> T] : n \in Nat}
    BY SeqDef, Zenon
  <2> QED BY <1>2, <2>1, Zenon
<1> QED BY <1>3, FlattenIsSeq DEF EvidenceOf, T

\* A report of outcomes without a repeated identifier is consistent.
LEMMA ReportConsistent ==
    ASSUME NEW outcomes \in Collections, ~HasDuplicate(EvidenceOf(outcomes))
    PROVE  Consistent(Report(outcomes)) /\ Report(outcomes).outcomes = outcomes
<1> DEFINE items == EvidenceOf(outcomes)
           made  == Report(outcomes)
<1>1. /\ made.outcomes = outcomes /\ made.timeline = Timeline(items) /\ made.groups = Groups(items)
  BY DEF Report, SourceOutcomes
<1>2. Len(outcomes) = Len(Sources)
  BY DEF Collections, Sources
<1>3. items \in Seq(Items)
  BY EvidenceType
<1> HIDE DEF items, made
<1>4. IsInjective(Ids(items))
  BY DEF HasDuplicate, IsInjective, Ids, items
<1>5. ToSet(made.timeline) = ToSet(items)
  BY <1>1, <1>3, TimelineKeeps
<1>6. ASSUME NEW g \in made.groups PROVE g.members \subseteq ToSet(Ids(items))
  <2> DEFINE sharing(ref) == {i \in DOMAIN items : ref \in items[i].refs}
  <2>1. \E ref : g = [ref |-> ref, members |-> {items[i].id : i \in sharing(ref)}]
    BY <1>1, <1>6 DEF Groups
  <2>2. PICK ref : g.members = {items[i].id : i \in sharing(ref)}
    BY <2>1
  <2>3. \A i \in DOMAIN items : items[i].id \in ToSet(Ids(items))
    BY DEF Ids, ToSet
  <2> QED BY <2>2, <2>3
<1> QED BY <1>1, <1>2, <1>4, <1>5, <1>6 DEF Consistent, items, made

\* What all sources of a request handed over can be listed by a step.
LEMMA EvidenceListed ==
    ASSUME NEW sel \in Selections, NEW outcomes \in Collections,
           \A i \in DOMAIN Sources : outcomes[i] \in Outcomes(Sources[i], sel),
           ~HasDuplicate(EvidenceOf(outcomes))
    PROVE  Ids(EvidenceOf(outcomes)) \in Evidence
<1>1. DOMAIN outcomes = 1..4 /\ outcomes = [i \in 1..4 |-> outcomes[i]]
  BY DEF Collections, Sources
<1>2. outcomes = <<outcomes[1], outcomes[2], outcomes[3], outcomes[4]>>
  <2> DEFINE t == <<outcomes[1], outcomes[2], outcomes[3], outcomes[4]>>
  <2>1. t = [i \in 1..4 |-> t[i]]
    OBVIOUS
  <2>2. \A i \in 1..4 : t[i] = outcomes[i]
    OBVIOUS
  <2> HIDE DEF t
  <2>3. outcomes = t
    BY <1>1, <2>1, <2>2
  <2> QED BY <2>3 DEF t
<1>3. /\ outcomes[1] \in Outcomes("superoffice", sel) /\ outcomes[2] \in Outcomes("diagnostics", sel)
      /\ outcomes[3] \in Outcomes("logs", sel) /\ outcomes[4] \in Outcomes("knowledge", sel)
  BY DEF Sources
<1> DEFINE Listed(o) == ~HasDuplicate(EvidenceOf(o)) => Ids(EvidenceOf(o)) \in Evidence
<1>4. \A a \in Outcomes("superoffice", sel), b \in Outcomes("diagnostics", sel),
         c \in Outcomes("logs", sel), d \in Outcomes("knowledge", sel) : Listed(<<a, b, c, d>>)
  BY EvidenceAssumption
<1> HIDE DEF Listed
<1>5. Listed(<<outcomes[1], outcomes[2], outcomes[3], outcomes[4]>>)
  BY <1>3, <1>4
<1>6. Listed(outcomes)
  BY <1>2, <1>5
<1> QED BY <1>6 DEF Listed

-----------------------------------------------------------------------------
(* The invariant of a request.                                               *)

Failed == PB!Terminal \cup {"step_limit_exceeded"}

\* The step the request asks for lists its evidence, in its plan.
Recording(r) ==
    /\ call[r].kind = "advance" /\ call[r].plan = mine[r]
    /\ call[r].evidence = Ids(Delivered(r))

\* What the engine has told a request that asked it for a step.
Told(r) ==
    /\ answer[r].outcome # "NONE"
    /\ answer[r].outcome = "RETURNED" => answer[r].step > 0
    /\ answer[r].outcome = "RAISED" => plans[mine[r]].status \in Failed

\* Outside advance_step a request asks the engine for nothing.
Resting(r) == stage[r] # "advancing" => At(r, "idle")

Going(r) == stage[r] # "idle" => result[r] = "none" /\ plans[mine[r]].status # "none"

Gathering(r) ==
    /\ stage[r] = "idle" => \A i \in DOMAIN Sources : gathered[r][i] = Pending
    /\ stage[r] = "collecting" =>
          /\ selection[r] \in Selections
          /\ \A i \in DOMAIN Sources :
                gathered[r][i] \in {Pending} \cup Outcomes(Sources[i], selection[r])

Advancing(r) ==
    stage[r] = "advancing" =>
        /\ Consistent(report[r]) /\ Recording(r)
        /\ At(r, "read") => copy[r].status # "none"
        /\ At(r, "idle") => Told(r)

Answered(r) ==
    result[r] = "returned" => Consistent(report[r]) /\ Recording(r) /\ answer[r].step > 0

RequestInv(r) == Resting(r) /\ Going(r) /\ Gathering(r) /\ Advancing(r) /\ Answered(r)

ServiceType ==
    /\ stage \in [Requests -> {"idle", "collecting", "advancing"}]
    /\ mine \in [Requests -> Plans]
    /\ gathered \in [Requests -> Collections]
    /\ DOMAIN selection = Requests /\ DOMAIN report = Requests /\ DOMAIN result = Requests

ServiceInv == EngineInv /\ ServiceType /\ \A r \in Requests : RequestInv(r)

\* No operation unmakes a plan, and one that was ended or used up is not taken up again.
LEMMA PlansProgress ==
    ASSUME EngineInv, [EngineNext]_engineVars, NEW p \in Plans
    PROVE  /\ plans[p].status # "none" => plans'[p].status # "none"
           /\ plans[p].status \in Failed => plans'[p].status \in Failed
<1>1. [PB!Next]_plans
  BY StepImplements
<1>2. plans \in [Plans -> PB!Plan] /\ \A q \in Plans : plans[q] \in PB!Plan /\ Sound(plans[q])
  BY DEF EngineInv, EngineTypeOK, PlansSound
<1>3. CASE UNCHANGED plans
  BY <1>3
<1>4. CASE PB!Next
  <2>1. PICK q \in Plans : \/ PB!Create(q) \/ PB!Advance(q) \/ PB!ReachLimit(q)
                           \/ PB!Conclude(q) \/ PB!Abort(q)
    BY <1>4 DEF PB!Next
  <2>2. PICK plan : plans' = [plans EXCEPT ![q] = plan]
    BY <2>1 DEF PB!Create, PB!Advance, PB!ReachLimit, PB!Conclude, PB!Abort, PB!Write
  <2>3. CASE p # q
    BY <2>2, <2>3, <1>2
  <2>4. CASE p = q
    <3>1. CASE PB!Create(q)
      <4>1. plans[q].status = "none"
        BY <3>1 DEF PB!Create, PB!NoPlan
      <4> QED BY <4>1, <2>4 DEF Failed, PB!Terminal
    <3>2. CASE PB!Advance(q)
      <4>1. plans[q].status # "step_limit_exceeded"
        BY <3>2, <1>2 DEF PB!Advance, PB!Exhausted, Sound, PB!Plan
      <4>2. plans[q].status \notin Failed
        BY <3>2, <4>1 DEF PB!Advance, PB!Open, Failed
      <4>3. \E h, s, e : plans' = [plans EXCEPT ![q] = PB!Advanced(plans[q], h, s, e)]
        BY <3>2 DEF PB!Advance, PB!Write
      <4>4. \A h, s, e : PB!Advanced(plans[q], h, s, e).status = "in_progress"
        BY <1>2 DEF PB!Advanced, PB!Plan
      <4>5. plans'[q].status = "in_progress"
        BY <4>3, <4>4, <1>2
      <4> QED BY <4>2, <4>5, <2>4
    <3>3. CASE PB!ReachLimit(q)
      <4>1. plans'[q].status = "step_limit_exceeded"
        BY <3>3, <1>2 DEF PB!ReachLimit, PB!Write, PB!LimitReached, PB!Plan
      <4> QED BY <4>1, <2>4 DEF Failed
    <3>4. CASE PB!Conclude(q)
      <4>1. \E h : plans' = [plans EXCEPT ![q] = PB!Concluded(plans[q], h)]
        BY <3>4 DEF PB!Conclude, PB!Write
      <4>2. \A h : PB!Concluded(plans[q], h).status = "concluded"
        BY <1>2 DEF PB!Concluded, PB!Plan
      <4>3. plans'[q].status = "concluded"
        BY <4>1, <4>2, <1>2
      <4> QED BY <4>3, <2>4 DEF Failed, PB!Terminal
    <3>5. CASE PB!Abort(q)
      <4>1. plans'[q].status = "aborted"
        BY <3>5, <1>2 DEF PB!Abort, PB!Write, PB!Aborted, PB!Plan
      <4> QED BY <4>1, <2>4 DEF Failed, PB!Terminal
    <3> QED BY <2>1, <3>1, <3>2, <3>3, <3>4, <3>5
  <2> QED BY <2>3, <2>4
<1> QED BY <1>1, <1>3, <1>4

\* What a request relies on stays, if neither it nor its operation moves.
LEMMA OthersKeep ==
    ASSUME ServiceInv, [EngineNext]_engineVars, NEW r \in Requests,
           stage'[r] = stage[r], mine'[r] = mine[r], selection'[r] = selection[r],
           gathered'[r] = gathered[r], report'[r] = report[r], result'[r] = result[r],
           pc'[r] = pc[r], call'[r] = call[r], copy'[r] = copy[r], answer'[r] = answer[r]
    PROVE  RequestInv(r)'
<1>1. RequestInv(r) /\ mine[r] \in Plans /\ EngineInv
  BY DEF ServiceInv, ServiceType
<1>2. /\ plans[mine[r]].status # "none" => plans'[mine[r]].status # "none"
      /\ plans[mine[r]].status \in Failed => plans'[mine[r]].status \in Failed
  BY <1>1, PlansProgress
<1>3. Resting(r)'
  BY <1>1 DEF RequestInv, Resting, At
<1>4. Going(r)'
  BY <1>1, <1>2 DEF RequestInv, Going
<1>5. Gathering(r)'
  BY <1>1 DEF RequestInv, Gathering
<1>6. Recording(r)' <=> Recording(r)
  BY DEF Recording, Delivered
<1>7. Told(r) => Told(r)'
  BY <1>2 DEF Told
<1>8. Advancing(r)'
  BY <1>1, <1>6, <1>7 DEF RequestInv, Advancing, At
<1>9. Answered(r)'
  BY <1>1, <1>6 DEF RequestInv, Answered
<1> QED BY <1>3, <1>4, <1>5, <1>8, <1>9 DEF RequestInv

\* An operation of the engine moves its client only.
LEMMA ClientMoves ==
    ASSUME EngineInv, NEW c \in Clients, NEW q \in Clients, q # c,
           \/ \E p \in Plans : CreatePlan(c, p)
           \/ \E k : Begin(c, k)
           \/ Engine(c)
    PROVE  pc'[q] = pc[q] /\ call'[q] = call[q] /\ copy'[q] = copy[q] /\ answer'[q] = answer[q]
<1>1. /\ pc \in [Clients -> {"idle", "waiting", "reading", "read"}] /\ call \in [Clients -> Call]
      /\ copy \in [Clients -> PB!Plan] /\ answer \in [Clients -> Answer]
  BY DEF EngineInv, EngineTypeOK
<1>2. CASE \E p \in Plans : CreatePlan(c, p)
  BY <1>1, <1>2 DEF CreatePlan
<1>3. CASE \E k : Begin(c, k)
  BY <1>1, <1>3 DEF Begin
<1>4. CASE Enter(c) \/ Read(c)
  BY <1>1, <1>4 DEF Enter, Read
<1>5. CASE Reject(c) \/ Cancel(c)
  BY <1>1, <1>5 DEF Reject, Cancel, Leave
<1>6. CASE Save(c)
  <2>1. call' = call /\ \E o, n : Leave(c, o, n)
    BY <1>6 DEF Save
  <2> QED BY <1>1, <2>1 DEF Leave
<1> QED BY <1>2, <1>3, <1>4, <1>5, <1>6 DEF Engine, Operate

\* The step of a request under way in the engine.
LEMMA RequestInEngine ==
    ASSUME ServiceInv, NEW r \in Requests, Engine(r), UNCHANGED serviceVars
    PROVE  RequestInv(r)'
<1>1. /\ r \in Clients /\ RequestInv(r) /\ mine[r] \in Plans /\ EngineInv
      /\ stage[r] \in {"idle", "collecting", "advancing"}
  BY ServiceAssumption DEF ServiceInv, ServiceType
<1>2. /\ pc \in [Clients -> {"idle", "waiting", "reading", "read"}] /\ call \in [Clients -> Call]
      /\ copy \in [Clients -> PB!Plan] /\ answer \in [Clients -> Answer]
      /\ plans \in [Plans -> PB!Plan]
  BY <1>1 DEF EngineInv, EngineTypeOK
<1>3. ~At(r, "idle")
  BY DEF Engine, Enter, Operate, Read, Reject, Save, Cancel, At
<1>4. stage[r] = "advancing" /\ result[r] = "none" /\ plans[mine[r]].status # "none"
  BY <1>1, <1>3 DEF RequestInv, Resting, Going
<1>5. Consistent(report[r]) /\ Recording(r) /\ (At(r, "read") => copy[r].status # "none")
  BY <1>1, <1>4 DEF RequestInv, Advancing
<1>6. /\ stage'[r] = "advancing" /\ result'[r] = "none" /\ mine'[r] = mine[r]
      /\ report'[r] = report[r]
  BY <1>4 DEF serviceVars
<1>7. call' = call
  BY DEF Engine, Enter, Operate, Read, Reject, Save, Cancel
<1>8. Recording(r)' /\ Consistent(report'[r])
  BY <1>5, <1>6, <1>7 DEF Recording, Delivered
<1>9. EngineNext
  BY <1>1 DEF Engine, EngineNext
<1>10. plans'[mine[r]].status # "none"
  BY <1>1, <1>4, <1>9, PlansProgress
<1>11. call[r].plan = mine[r] /\ call[r].kind = "advance"
  BY <1>5 DEF Recording
<1>12. /\ At(r, "read")' => copy'[r].status # "none"
       /\ At(r, "idle")' => Told(r)'
  <2>1. CASE Enter(r)
    BY <2>1, <1>1, <1>2 DEF Enter, At
  <2>2. CASE Read(r)
    BY <2>2, <1>1, <1>2, <1>4, <1>11 DEF Read, At
  <2>3. CASE Reject(r)
    <3>1. copy[r] = plans[mine[r]]
      <4>1. copy[r] \in {plans[call[r].plan], PB!NoPlan}
        BY <2>3, <1>1 DEF Reject, EngineInv, CopyInv
      <4>2. copy[r].status # "none"
        BY <2>3, <1>5 DEF Reject
      <4> QED BY <4>1, <4>2, <1>11 DEF PB!NoPlan
    <3>2. plans[mine[r]].status \in Failed
      BY <2>3, <3>1, <1>4, <1>11 DEF Reject, Rejected, PB!Open, Failed
    <3>3. pc'[r] = "idle" /\ answer'[r] = [outcome |-> "RAISED", step |-> 0] /\ plans' = plans
      BY <2>3, <1>1, <1>2 DEF Reject, Leave
    <3> QED BY <3>2, <3>3, <1>6 DEF At, Told
  <2>4. CASE Save(r)
    <3> DEFINE old  == plans[mine[r]]
               next == Outcome(old, call[r])
    <3>1. /\ old \in PB!Plan /\ copy[r] = old /\ ~Rejected(old, call[r]) /\ call[r] \in Call
          /\ plans' = [plans EXCEPT ![mine[r]] = next] /\ next \in PB!Plan
      BY <2>4, <1>1, <1>11, SaveFacts
    <3>2. plans'[mine[r]] = next
      BY <3>1, <1>1, <1>2
    <3>3. IF next.status = "step_limit_exceeded"
            THEN Leave(r, "RAISED", 0)
            ELSE Leave(r, "RETURNED", next.count)
      BY <2>4, <3>1, <1>11 DEF Save
    <3>4. CASE next.status = "step_limit_exceeded"
      <4>1. pc'[r] = "idle" /\ answer'[r] = [outcome |-> "RAISED", step |-> 0]
        BY <3>3, <3>4, <1>1, <1>2 DEF Leave
      <4> HIDE DEF next
      <4> QED BY <4>1, <3>2, <3>4, <1>6 DEF At, Told, Failed
    <3>5. CASE next.status # "step_limit_exceeded"
      <4>1. pc'[r] = "idle" /\ answer'[r] = [outcome |-> "RETURNED", step |-> next.count]
        BY <3>3, <3>5, <1>1, <1>2 DEF Leave
      <4>2. next = PB!Advanced(old, call[r].hyp, call[r].status, call[r].evidence)
        <5>1. next = IF PB!Exhausted(old) THEN PB!LimitReached(old)
                     ELSE PB!Advanced(old, call[r].hyp, call[r].status, call[r].evidence)
          BY <1>11 DEF Outcome
        <5>2. PB!LimitReached(old).status = "step_limit_exceeded"
          BY <3>1 DEF PB!LimitReached, PB!Plan
        <5> QED BY <5>1, <5>2, <3>5
      <4>3. next.count = old.count + 1 /\ old.count \in Nat
        BY <4>2, <3>1 DEF PB!Advanced, PB!Plan
      <4> HIDE DEF next, old
      <4> QED BY <4>1, <4>3 DEF At, Told
    <3> QED BY <3>4, <3>5
  <2>5. CASE Cancel(r)
    <3>1. pc'[r] = "idle" /\ answer'[r] = [outcome |-> "CANCELLED", step |-> 0]
      BY <2>5, <1>1, <1>2 DEF Cancel, Leave
    <3> QED BY <3>1 DEF At, Told
  <2> QED BY <2>1, <2>2, <2>3, <2>4, <2>5 DEF Engine, Operate
<1> QED BY <1>6, <1>8, <1>10, <1>12 DEF RequestInv, Resting, Going, Gathering, Advancing, Answered

\* What Correlate makes of the outcomes, and asks the engine to record.
LEMMA CorrelateFacts ==
    ASSUME ServiceInv, NEW r \in Requests, Correlate(r)
    PROVE  \E k \in Call :
              /\ Begin(r, k) /\ k.kind = "advance" /\ k.plan = mine[r]
              /\ Consistent(report'[r]) /\ k.evidence = Ids(EvidenceOf(report'[r].outcomes))
              /\ \E made : report' = [report EXCEPT ![r] = made]
<1>1. /\ r \in Clients /\ mine[r] \in Plans /\ gathered[r] \in Collections /\ DOMAIN report = Requests
  BY ServiceAssumption DEF ServiceInv, ServiceType
<1>2. /\ stage[r] = "collecting" /\ ~HasDuplicate(EvidenceOf(gathered[r]))
      /\ \A i \in DOMAIN Sources : gathered[r][i] # Pending
  BY DEF Correlate, Collected
<1>3. /\ selection[r] \in Selections
      /\ \A i \in DOMAIN Sources : gathered[r][i] \in Outcomes(Sources[i], selection[r])
  BY <1>2 DEF ServiceInv, RequestInv, Gathering
<1> DEFINE made == Report(gathered[r])
           k == [kind |-> "advance", plan |-> mine[r], hyp |-> NoHyp, status |-> "proposed",
                 evidence |-> Ids(EvidenceOf(made.outcomes))]
<1>4. report' = [report EXCEPT ![r] = made] /\ Begin(r, k)
  BY DEF Correlate
<1>5. Consistent(made) /\ made.outcomes = gathered[r]
  BY <1>1, <1>2, ReportConsistent
<1> HIDE DEF made
<1>6. Ids(EvidenceOf(made.outcomes)) \in Evidence
  BY <1>1, <1>2, <1>3, <1>5, EvidenceListed
<1>7. k \in Call
  BY <1>1, <1>6 DEF Call, PB!HypStatuses
<1>8. report'[r] = made
  BY <1>1, <1>4
<1> QED BY <1>4, <1>5, <1>7, <1>8

\* A step of the service is a step of the engine, or none.
LEMMA EngineRuns == ServiceInv /\ [Next]_vars => [EngineNext]_engineVars
<1> SUFFICES ASSUME ServiceInv, [Next]_vars PROVE [EngineNext]_engineVars
  OBVIOUS
<1>1. Requests \subseteq Clients /\ Calls \subseteq Call
  BY ServiceAssumption
<1>2. CASE UNCHANGED vars
  BY <1>2 DEF vars
<1>3. ASSUME NEW r \in Requests, Investigate(r) PROVE EngineNext
  BY <1>1, <1>3 DEF Investigate, EngineNext
<1>4. ASSUME NEW r \in Requests, Correlate(r) PROVE EngineNext
  BY <1>1, <1>4, CorrelateFacts DEF EngineNext
<1>5. ASSUME NEW r \in Requests,
             Refuse(r) \/ Respond(r) \/ Withdraw(r) \/ \E i \in DOMAIN Sources : Collect(r, i)
      PROVE  UNCHANGED engineVars
  BY <1>5 DEF Refuse, Respond, Withdraw, Collect
<1>6. ASSUME NEW c \in Clients, Engine(c) \/ Operator(c) PROVE EngineNext
  BY <1>1, <1>6 DEF Engine, Operator, EngineNext
<1> QED BY <1>2, <1>3, <1>4, <1>5, <1>6 DEF Next

\* A request that starts has a plan of its own and nothing yet.
LEMMA InvInvestigate ==
    ASSUME ServiceInv, EngineInv', NEW r \in Requests, Investigate(r)
    PROVE  ServiceType' /\ RequestInv(r)'
<1>1. PICK p \in Plans : CreatePlan(r, p) /\ mine' = [mine EXCEPT ![r] = p]
  BY DEF Investigate
<1>2. PICK sel \in Selections : selection' = [selection EXCEPT ![r] = sel]
  BY DEF Investigate
<1>3. /\ stage' = [stage EXCEPT ![r] = "collecting"] /\ report' = [report EXCEPT ![r] = NoReport]
      /\ result' = [result EXCEPT ![r] = "none"] /\ gathered' = gathered
      /\ stage[r] = "idle"
  BY DEF Investigate, Become
<1>4. ServiceType
  BY DEF ServiceInv
<1>5. ServiceType'
  BY <1>1, <1>2, <1>3, <1>4 DEF ServiceType
<1>6. pc' = pc /\ At(r, "idle")
  BY <1>1 DEF CreatePlan
<1>7. plans'[p].status # "none"
  <2>1. PICK h \in Hyps, m \in Limits : plans' = [plans EXCEPT ![p] = PB!Created(h, m)]
    BY <1>1 DEF CreatePlan, PB!Create, PB!Write
  <2>2. PB!Created(h, m).status = "initialized"
    BY DEF PB!Created, PB!NoPlan
  <2>3. plans \in [Plans -> PB!Plan]
    BY DEF ServiceInv, EngineInv, EngineTypeOK
  <2> QED BY <2>1, <2>2, <2>3
<1>8. /\ stage'[r] = "collecting" /\ result'[r] = "none" /\ mine'[r] = p /\ selection'[r] = sel
  BY <1>1, <1>2, <1>3, <1>4 DEF ServiceType
<1>9. \A i \in DOMAIN Sources : gathered'[r][i] = Pending
  BY <1>3 DEF ServiceInv, RequestInv, Gathering
<1> QED BY <1>5, <1>6, <1>7, <1>8, <1>9
        DEF RequestInv, Resting, Going, Gathering, Advancing, Answered, At

\* A source comes to one of its outcomes.
LEMMA InvCollect ==
    ASSUME ServiceInv, NEW r \in Requests, NEW i \in DOMAIN Sources, Collect(r, i)
    PROVE  ServiceType' /\ RequestInv(r)'
<1>1. PICK o \in Outcomes(Sources[i], selection[r]) :
          gathered' = [gathered EXCEPT ![r] = [gathered[r] EXCEPT ![i] = o]]
  BY DEF Collect
<1>2. /\ stage[r] = "collecting"
      /\ UNCHANGED <<plans, pc, stage, mine, selection, report, result>>
  BY DEF Collect, engineVars
<1>3. ServiceType /\ RequestInv(r)
  BY DEF ServiceInv
<1>4. /\ gathered \in [Requests -> Collections]
      /\ gathered[r] \in [DOMAIN Sources -> [status : Statuses, evidence : Seq(Items)]]
  BY <1>3 DEF ServiceType, Collections
<1>5. o \in [status : Statuses, evidence : Seq(Items)]
  BY OutcomeType
<1>6. [gathered[r] EXCEPT ![i] = o] \in Collections
  BY <1>4, <1>5 DEF Collections
<1>7. ServiceType'
  BY <1>1, <1>2, <1>3, <1>4, <1>6 DEF ServiceType
<1>8. \A j \in DOMAIN Sources : gathered'[r][j] = IF j = i THEN o ELSE gathered[r][j]
  BY <1>1, <1>4
<1>9. Gathering(r)'
  BY <1>2, <1>3, <1>8 DEF RequestInv, Gathering
<1> QED BY <1>2, <1>3, <1>7, <1>9 DEF RequestInv, Resting, Going, Advancing, Answered, At

\* A request that ends, however it ends, leaves its outcomes behind.
LEMMA InvEnd ==
    ASSUME ServiceInv, NEW r \in Requests, NEW how, End(r, how), At(r, "idle"),
           UNCHANGED <<engineVars, mine, selection, report>>,
           how = "returned" => Consistent(report[r]) /\ Recording(r) /\ answer[r].step > 0
    PROVE  ServiceType' /\ RequestInv(r)'
<1>1. /\ stage' = [stage EXCEPT ![r] = "idle"] /\ result' = [result EXCEPT ![r] = how]
      /\ gathered' = [gathered EXCEPT ![r] = [i \in DOMAIN Sources |-> Pending]]
  BY DEF End, Become
<1>2. ServiceType
  BY DEF ServiceInv
<1>3. [i \in DOMAIN Sources |-> Pending] \in Collections
  BY DEF Collections, Pending, Without, Statuses
<1>4. ServiceType'
  BY <1>1, <1>2, <1>3 DEF ServiceType
<1>5. stage'[r] = "idle" /\ result'[r] = how /\ gathered'[r] = [i \in DOMAIN Sources |-> Pending]
  BY <1>1, <1>2 DEF ServiceType
<1>6. how = "returned" => Consistent(report'[r]) /\ Recording(r)' /\ answer'[r].step > 0
  BY DEF Recording, Delivered, engineVars
<1>7. At(r, "idle")'
  BY DEF At, engineVars
<1> QED BY <1>4, <1>5, <1>6, <1>7 DEF RequestInv, Resting, Going, Gathering, Advancing, Answered

\* What ends a request, and what is true of one that answers.
LEMMA EndFacts ==
    ASSUME ServiceInv, NEW r \in Requests, Refuse(r) \/ Respond(r) \/ Withdraw(r)
    PROVE  /\ At(r, "idle") /\ stage[r] # "idle"
           /\ UNCHANGED <<engineVars, mine, selection, report>>
           /\ \E how : /\ End(r, how)
                       /\ how = "returned" =>
                             Consistent(report[r]) /\ Recording(r) /\ answer[r].step > 0
                       /\ how = "raised" => \/ plans[mine[r]].status \in Failed
                                            \/ HasDuplicate(EvidenceOf(gathered[r]))
<1>1. RequestInv(r)
  BY DEF ServiceInv
<1>2. CASE Refuse(r)
  <2>1. stage[r] = "collecting" /\ End(r, "raised") /\ UNCHANGED <<engineVars, mine, selection, report>>
        /\ \A i \in DOMAIN Sources : gathered[r][i] # Pending
    BY <1>2 DEF Refuse, Collected
  <2>2. \A i \in DOMAIN Sources : gathered[r][i] \in Outcomes(Sources[i], selection[r])
    BY <1>1, <2>1 DEF RequestInv, Gathering
  <2>3. \A i \in DOMAIN Sources : gathered[r][i] # Raised
    BY <2>2, OutcomeType
  <2>4. DOMAIN gathered[r] = DOMAIN Sources
    BY DEF ServiceInv, ServiceType, Collections
  <2>5. Raised \notin ToSet(gathered[r])
    BY <2>3, <2>4 DEF ToSet
  <2>6. HasDuplicate(EvidenceOf(gathered[r]))
    BY <1>2, <2>5 DEF Refuse
  <2> QED BY <1>1, <2>1, <2>6 DEF RequestInv, Resting
<1>3. CASE Respond(r)
  <2>1. stage[r] = "advancing" /\ At(r, "idle") /\ UNCHANGED <<engineVars, mine, selection, report>>
    BY <1>3 DEF Respond
  <2>2. Consistent(report[r]) /\ Recording(r) /\ Told(r)
    BY <1>1, <2>1 DEF RequestInv, Advancing
  <2>3. answer[r].outcome \in {"RETURNED", "RAISED", "CANCELLED"}
    <3>1. answer \in [Clients -> Answer] /\ r \in Clients
      BY ServiceAssumption DEF ServiceInv, EngineInv, EngineTypeOK
    <3> QED BY <3>1, <2>2 DEF Answer, Told
  <2>4. \/ answer[r].outcome = "RETURNED" /\ End(r, "returned")
        \/ answer[r].outcome = "RAISED" /\ End(r, "raised")
        \/ answer[r].outcome = "CANCELLED" /\ End(r, "cancelled")
    BY <1>3, <2>3 DEF Respond
  <2> QED BY <2>1, <2>2, <2>4 DEF Told
<1>4. CASE Withdraw(r)
  <2>1. stage[r] = "collecting" /\ End(r, "cancelled") /\ UNCHANGED <<engineVars, mine, selection, report>>
    BY <1>4 DEF Withdraw
  <2> QED BY <1>1, <2>1 DEF RequestInv, Resting
<1> QED BY <1>2, <1>3, <1>4

\* A request that asks for its step has a consistent report.
LEMMA InvCorrelate ==
    ASSUME ServiceInv, NEW r \in Requests, Correlate(r)
    PROVE  ServiceType' /\ RequestInv(r)'
<1>1. PICK k \in Call :
          /\ Begin(r, k) /\ k.kind = "advance" /\ k.plan = mine[r]
          /\ Consistent(report'[r]) /\ k.evidence = Ids(EvidenceOf(report'[r].outcomes))
          /\ \E made : report' = [report EXCEPT ![r] = made]
  BY CorrelateFacts
<1>2. /\ stage[r] = "collecting" /\ stage' = [stage EXCEPT ![r] = "advancing"]
      /\ UNCHANGED <<mine, selection, gathered, result>>
  BY DEF Correlate, Collected, Become
<1>3. ServiceType /\ RequestInv(r) /\ r \in Clients
  BY ServiceAssumption DEF ServiceInv
<1>4. ServiceType'
  BY <1>1, <1>2, <1>3 DEF ServiceType
<1>5. /\ pc \in [Clients -> {"idle", "waiting", "reading", "read"}] /\ call \in [Clients -> Call]
  BY DEF ServiceInv, EngineInv, EngineTypeOK
<1>6. pc'[r] = "waiting" /\ call'[r] = k /\ plans' = plans /\ stage'[r] = "advancing"
  BY <1>1, <1>2, <1>3, <1>5 DEF Begin, ServiceType
<1>7. result[r] = "none" /\ plans[mine[r]].status # "none"
  BY <1>2, <1>3 DEF RequestInv, Going
<1>8. Recording(r)'
  BY <1>1, <1>2, <1>6 DEF Recording, Delivered
<1> QED BY <1>1, <1>2, <1>4, <1>6, <1>7, <1>8
        DEF RequestInv, Resting, Going, Gathering, Advancing, Answered, At

LEMMA ServiceInit == Init => ServiceInv
<1> SUFFICES ASSUME Init PROVE ServiceInv
  OBVIOUS
<1>1. EngineInv
  BY InvInit DEF Init
<1>2. (CHOOSE p \in Plans : TRUE) \in Plans
  BY EngineAssumption
<1>3. [i \in DOMAIN Sources |-> Pending] \in Collections
  BY DEF Collections, Pending, Without, Statuses
<1>4. ServiceType
  BY <1>2, <1>3 DEF Init, ServiceType
<1>5. ASSUME NEW r \in Requests PROVE RequestInv(r)
  <2>1. At(r, "idle")
    BY ServiceAssumption DEF Init, EngineInit, At
  <2>2. stage[r] = "idle" /\ result[r] = "none" /\ gathered[r] = [i \in DOMAIN Sources |-> Pending]
    BY DEF Init
  <2> QED BY <2>1, <2>2 DEF RequestInv, Resting, Going, Gathering, Advancing, Answered
<1> QED BY <1>1, <1>4, <1>5 DEF ServiceInv

\* A step of one request leaves the others as they are.
LEMMA RequestMoves ==
    ASSUME ServiceInv, NEW r \in Requests, NEW q \in Requests, q # r,
           \/ Investigate(r) \/ Correlate(r) \/ Refuse(r) \/ Respond(r) \/ Withdraw(r)
           \/ \E i \in DOMAIN Sources : Collect(r, i)
    PROVE  /\ stage'[q] = stage[q] /\ mine'[q] = mine[q] /\ selection'[q] = selection[q]
           /\ gathered'[q] = gathered[q] /\ report'[q] = report[q] /\ result'[q] = result[q]
           /\ pc'[q] = pc[q] /\ call'[q] = call[q] /\ copy'[q] = copy[q] /\ answer'[q] = answer[q]
<1>1. /\ ServiceType /\ EngineInv /\ r \in Clients /\ q \in Clients
  BY ServiceAssumption DEF ServiceInv
<1>2. CASE Investigate(r)
  <2>1. \E p \in Plans : CreatePlan(r, p)
    BY <1>2 DEF Investigate
  <2>2. pc'[q] = pc[q] /\ call'[q] = call[q] /\ copy'[q] = copy[q] /\ answer'[q] = answer[q]
    BY <1>1, <2>1, ClientMoves
  <2> QED BY <1>1, <1>2, <2>2 DEF Investigate, Become, ServiceType
<1>3. CASE Correlate(r)
  <2>1. PICK k \in Call : Begin(r, k) /\ \E made : report' = [report EXCEPT ![r] = made]
    BY <1>3, CorrelateFacts
  <2>2. pc'[q] = pc[q] /\ call'[q] = call[q] /\ copy'[q] = copy[q] /\ answer'[q] = answer[q]
    BY <1>1, <2>1, ClientMoves
  <2>3. /\ stage' = [stage EXCEPT ![r] = "advancing"]
        /\ UNCHANGED <<mine, selection, gathered, result>>
    BY <1>3 DEF Correlate, Become
  <2> QED BY <1>1, <2>1, <2>2, <2>3 DEF ServiceType
<1>4. CASE Refuse(r) \/ Respond(r) \/ Withdraw(r)
  <2>1. PICK how : End(r, how)
    BY <1>4, EndFacts
  <2>2. UNCHANGED <<engineVars, mine, selection, report>>
    BY <1>4, EndFacts
  <2> QED BY <1>1, <2>1, <2>2 DEF End, Become, ServiceType, engineVars
<1>5. CASE \E i \in DOMAIN Sources : Collect(r, i)
  BY <1>1, <1>5 DEF Collect, ServiceType, engineVars
<1> QED BY <1>2, <1>3, <1>4, <1>5

LEMMA ServiceStep == ServiceInv /\ [Next]_vars => ServiceInv'
<1> SUFFICES ASSUME ServiceInv, [Next]_vars PROVE ServiceInv'
  OBVIOUS
<1>1. [EngineNext]_engineVars
  BY EngineRuns
<1>2. EngineInv /\ EngineInv' /\ Requests \subseteq Clients
  BY <1>1, InvStep, ServiceAssumption DEF ServiceInv
<1>3. CASE UNCHANGED vars
  <2>1. ServiceType'
    BY <1>3 DEF ServiceInv, ServiceType, vars, serviceVars
  <2>2. ASSUME NEW q \in Requests PROVE RequestInv(q)'
    BY <1>1, <1>3, OthersKeep DEF vars, serviceVars, engineVars
  <2> QED BY <1>2, <2>1, <2>2 DEF ServiceInv
<1>4. ASSUME NEW r \in Requests,
             \/ Investigate(r) \/ Correlate(r) \/ Refuse(r) \/ Respond(r) \/ Withdraw(r)
             \/ \E i \in DOMAIN Sources : Collect(r, i)
      PROVE  ServiceInv'
  <2>1. ServiceType' /\ RequestInv(r)'
    <3>1. CASE Investigate(r)
      BY <1>2, <3>1, InvInvestigate
    <3>2. CASE Correlate(r)
      BY <3>2, InvCorrelate
    <3>3. CASE Refuse(r) \/ Respond(r) \/ Withdraw(r)
      BY <3>3, EndFacts, InvEnd
    <3>4. CASE \E i \in DOMAIN Sources : Collect(r, i)
      BY <3>4, InvCollect
    <3> QED BY <1>4, <3>1, <3>2, <3>3, <3>4
  <2>2. ASSUME NEW q \in Requests, q # r PROVE RequestInv(q)'
    BY <1>1, <1>4, <2>2, RequestMoves, OthersKeep
  <2> QED BY <1>2, <2>1, <2>2 DEF ServiceInv
<1>5. ASSUME NEW c \in Clients, Engine(c) \/ (c \notin Requests /\ Operator(c)), UNCHANGED serviceVars
      PROVE  ServiceInv'
  <2>1. ServiceType'
    BY <1>5 DEF ServiceInv, ServiceType, serviceVars
  <2>2. ASSUME NEW q \in Requests, q # c PROVE RequestInv(q)'
    <3>1. pc'[q] = pc[q] /\ call'[q] = call[q] /\ copy'[q] = copy[q] /\ answer'[q] = answer[q]
      BY <1>2, <1>5, <2>2, ClientMoves DEF Operator
    <3> QED BY <1>1, <1>5, <3>1, OthersKeep DEF serviceVars
  <2>3. c \in Requests => RequestInv(c)'
    BY <1>5, RequestInEngine
  <2> QED BY <1>2, <2>1, <2>2, <2>3 DEF ServiceInv
<1> QED BY <1>3, <1>4, <1>5 DEF Next

\* The inductive invariant of the service: the engine's, and of each request what its stage
\* implies for its outcomes, its report, and what the engine was asked and has answered.
THEOREM ServiceInvariant == Spec => []ServiceInv
BY ServiceInit, ServiceStep, PTL DEF Spec

\* A run of the service is a run of the engine, so that what is proved of the engine holds in it.
THEOREM ServiceUsesEngine == Spec => EngineSpec
<1>1. Init => EngineInit
  BY DEF Init
<1> QED BY <1>1, EngineRuns, ServiceInvariant, PTL DEF Spec, EngineSpec

\* A returned report accounts for every source, holds no evidence twice, mentions nothing it does
\* not hold, and the plan's step of the number returned lists exactly its evidence.
THEOREM ReportsAreGrounded == Spec => []ReportGrounded
<1>1. ServiceInv => ReportGrounded
  <2> SUFFICES ASSUME ServiceInv, NEW r \in Requests, result[r] = "returned"
               PROVE  /\ Len(report[r].outcomes) = Len(Sources)
                      /\ IsInjective(Ids(Delivered(r)))
                      /\ ToSet(report[r].timeline) = ToSet(Delivered(r))
                      /\ \A g \in report[r].groups : g.members \subseteq ToSet(Ids(Delivered(r)))
                      /\ plans[mine[r]].steps[answer[r].step].evidence = Ids(Delivered(r))
    BY DEF ReportGrounded
  <2>1. Consistent(report[r]) /\ Recording(r) /\ answer[r].step > 0
    BY DEF ServiceInv, RequestInv, Answered
  <2>2. Stands(answer[r].step, call[r], plans[call[r].plan].steps)
    BY ServiceAssumption DEF ServiceInv, EngineInv, AnswersStand
  <2>3. plans[mine[r]].steps[answer[r].step].evidence = Ids(Delivered(r))
    BY <2>1, <2>2 DEF Stands, Recording
  <2> QED BY <2>1, <2>3 DEF Consistent, Delivered
<1> QED BY <1>1, ServiceInvariant, PTL

\* A request fails only because its plan was ended or used up, or because it was given one
\* identifier twice: whatever else a source does stays in that source.
THEOREM FailuresAreExplained == Spec => FailureExplained
<1> DEFINE Explained ==
        \A r \in Requests :
            stage[r] # "idle" /\ result'[r] = "raised" /\ stage'[r] = "idle" =>
                \/ plans[mine[r]].status \in PB!Terminal \cup {"step_limit_exceeded"}
                \/ HasDuplicate(EvidenceOf(gathered[r]))
<1>1. ServiceInv /\ [Next]_vars => [Explained]_vars
  <2> SUFFICES ASSUME ServiceInv, Next, NEW r \in Requests,
                      stage[r] # "idle", result'[r] = "raised", stage'[r] = "idle"
               PROVE  \/ plans[mine[r]].status \in Failed
                      \/ HasDuplicate(EvidenceOf(gathered[r]))
    BY DEF Failed
  <2>1. result[r] = "none" /\ ServiceType
    BY DEF ServiceInv, RequestInv, Going
  <2>2. CASE UNCHANGED serviceVars
    BY <2>2 DEF serviceVars
  <2>3. ASSUME NEW q \in Requests,
               \/ Investigate(q) \/ Correlate(q) \/ Refuse(q) \/ Respond(q) \/ Withdraw(q)
               \/ \E i \in DOMAIN Sources : Collect(q, i)
        PROVE  \/ plans[mine[r]].status \in Failed
               \/ HasDuplicate(EvidenceOf(gathered[r]))
    <3>1. q = r
      <4> SUFFICES ASSUME q # r PROVE FALSE
        OBVIOUS
      <4>1. stage'[r] = stage[r]
        BY <2>3, RequestMoves
      <4> QED BY <4>1
    <3>2. Refuse(r) \/ Respond(r) \/ Withdraw(r)
      BY <2>1, <2>3, <3>1 DEF Investigate, Correlate, Collect, Become, ServiceType
    <3>3. PICK how : /\ End(r, how)
                     /\ how = "raised" => \/ plans[mine[r]].status \in Failed
                                          \/ HasDuplicate(EvidenceOf(gathered[r]))
      BY <3>2, EndFacts
    <3>4. how = "raised"
      BY <2>1, <3>3 DEF End, ServiceType
    <3> QED BY <3>3, <3>4
  <2> QED BY <2>2, <2>3 DEF Next
<1> QED BY <1>1, ServiceInvariant, PTL DEF Spec, FailureExplained
=============================================================================
