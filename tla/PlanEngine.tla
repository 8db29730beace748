----------------------------- MODULE PlanEngine -----------------------------
(***************************************************************************)
(* InvestigationOrchestratorEngine over its plan store.  Every operation    *)
(* but create_plan takes the engine's asyncio.Lock, reads a deep copy of    *)
(* the plan, builds the next plan from the copy and saves it whole; each    *)
(* await in between lets other coroutines run.  A caller may be cancelled   *)
(* at any await, and "async with" then releases the lock.                   *)
(***************************************************************************)
EXTENDS Naturals, Sequences

CONSTANTS
    Clients,    \* coroutines that use the engine
    Plans, Hyps, Evidence, Limits, NoHyp, NoCause,
    Free        \* an asyncio.Lock nobody holds

VARIABLES
    plans,      \* InMemoryInvestigationStore._plans
    lock,       \* holder of the engine's lock
    pc, call,   \* where each client is, and the operation it called
    copy,       \* the local "plan" of the operation
    answer      \* what the client's last operation returned or raised

engineVars == <<plans, lock, pc, call, copy, answer>>

PB == INSTANCE PlanBook
      WITH Plans <- Plans, Hyps <- Hyps, Evidence <- Evidence, Limits <- Limits,
           NoHyp <- NoHyp, NoCause <- NoCause, plans <- plans

Call == [kind : {"advance", "conclude", "abort"}, plan : Plans,
         hyp : Hyps \cup {NoHyp}, status : PB!HypStatuses \ {"none"},
         evidence : Evidence]

ASSUME EngineAssumption ==
    /\ Plans # {} /\ Evidence # {}
    /\ Limits \subseteq 1..25
    /\ NoHyp \notin Hyps
    /\ NoCause \notin Hyps /\ "aborted" \notin Hyps
    /\ NoCause # "aborted"
    /\ Free \notin Clients

Answer == [outcome : {"NONE", "RETURNED", "RAISED", "CANCELLED"}, step : Nat]

NoAnswer == [outcome |-> "NONE", step |-> 0]

-----------------------------------------------------------------------------

EngineInit ==
    /\ PB!Init
    /\ lock = Free
    /\ pc = [c \in Clients |-> "idle"]
    /\ call = [c \in Clients |-> CHOOSE k \in Call : TRUE]
    /\ copy = [c \in Clients |-> PB!NoPlan]
    /\ answer = [c \in Clients |-> NoAnswer]

At(c, place) == pc[c] = place

\* The operation ends; a local copy and a held lock end with it.
Leave(c, outcome, step) ==
    /\ pc' = [pc EXCEPT ![c] = "idle"]
    /\ copy' = [copy EXCEPT ![c] = PB!NoPlan]
    /\ answer' = [answer EXCEPT ![c] = [outcome |-> outcome, step |-> step]]

\* Mutant: an early raise leaves the lock behind.
UnlockNever(c) == UNCHANGED lock

Unlock(c) == lock' = IF lock = c THEN Free ELSE lock

\* create_plan: the identifier is new, and the only await is the save.
CreatePlan(c, p) ==
    /\ At(c, "idle")
    /\ PB!Create(p)
    /\ answer' = [answer EXCEPT ![c] = [outcome |-> "RETURNED", step |-> 0]]
    /\ UNCHANGED <<lock, pc, call, copy>>

Begin(c, k) ==
    /\ At(c, "idle")
    /\ pc' = [pc EXCEPT ![c] = "waiting"]
    /\ call' = [call EXCEPT ![c] = k]
    /\ answer' = [answer EXCEPT ![c] = NoAnswer]
    /\ UNCHANGED <<plans, lock, copy>>

\* Mutant: the operation does not take the lock.
EnterUnlocked(c) ==
    /\ At(c, "waiting")
    /\ pc' = [pc EXCEPT ![c] = "reading"]
    /\ UNCHANGED <<plans, lock, call, copy, answer>>

Enter(c) ==
    /\ At(c, "waiting")
    /\ lock = Free
    /\ lock' = c
    /\ pc' = [pc EXCEPT ![c] = "reading"]
    /\ UNCHANGED <<plans, call, copy, answer>>

\* get_plan returns a copy or None.
Read(c) ==
    /\ At(c, "reading")
    /\ copy' = [copy EXCEPT ![c] = plans[call[c].plan]]
    /\ pc' = [pc EXCEPT ![c] = "read"]
    /\ UNCHANGED <<plans, lock, call, answer>>

\* The checks of the three operations on the plan they have read.
Rejected(plan, k) ==
    \/ ~PB!Open(plan)
    \/ /\ k.kind = "advance"
       /\ PB!Exhausted(plan)
       /\ plan.status = "step_limit_exceeded"
    \/ /\ k.kind = "conclude"
       /\ k.hyp = NoHyp \/ plan.hyps[k.hyp] = "none"

Reject(c) ==
    /\ At(c, "read")
    /\ Rejected(copy[c], call[c])
    /\ Unlock(c)
    /\ Leave(c, "RAISED", 0)
    /\ UNCHANGED <<plans, call>>

\* The plan the operation saves.
Outcome(plan, k) ==
    CASE k.kind = "abort"    -> PB!Aborted(plan)
      [] k.kind = "conclude" -> PB!Concluded(plan, k.hyp)
      [] k.kind = "advance"  ->
            IF PB!Exhausted(plan)
              THEN PB!LimitReached(plan)
              ELSE PB!Advanced(plan, k.hyp, k.status, k.evidence)

\* save_plan, and the return.  An advance at the ceiling saves the new status
\* and then raises.
Save(c) ==
    LET plan == Outcome(copy[c], call[c]) IN
    /\ At(c, "read")
    /\ ~Rejected(copy[c], call[c])
    /\ PB!Write(call[c].plan, plan)
    /\ Unlock(c)
    /\ IF plan.status = "step_limit_exceeded"
         THEN Leave(c, "RAISED", 0)
         ELSE Leave(c, "RETURNED", IF call[c].kind = "advance"
                                     THEN plan.count ELSE 0)
    /\ UNCHANGED call

\* CancelledError at an await: of either lock, or of the store.
Cancel(c) ==
    /\ ~At(c, "idle")
    /\ Unlock(c)
    /\ Leave(c, "CANCELLED", 0)
    /\ UNCHANGED <<plans, call>>

Operate(c) == Read(c) \/ Reject(c) \/ Save(c)

EngineNext ==
    \E c \in Clients :
        \/ \E p \in Plans : CreatePlan(c, p)
        \/ \E k \in Call : Begin(c, k)
        \/ Enter(c) \/ Operate(c) \/ Cancel(c)

EngineSpec == EngineInit /\ [][EngineNext]_engineVars

-----------------------------------------------------------------------------
(* Properties.                                                               *)

EngineTypeOK ==
    /\ plans \in [Plans -> PB!Plan]
    /\ lock \in Clients \cup {Free}
    /\ pc \in [Clients -> {"idle", "waiting", "reading", "read"}]
    /\ call \in [Clients -> Call]
    /\ copy \in [Clients -> PB!Plan]
    /\ answer \in [Clients -> Answer]

\* Read, change and save take effect at once: whatever other coroutines do
\* in between, the store moves as the book of plans does, so that no saved
\* step, hypothesis or verdict is overwritten by a stale copy.
ImplementsBook == PB!Spec

Sound(plan) ==
    /\ plan.count = Len(plan.steps)
    /\ \A i \in DOMAIN plan.steps : plan.steps[i].number = i
    /\ plan.count <= plan.max
    /\ plan.status = "step_limit_exceeded" => plan.count = plan.max
    /\ plan.status = "concluded" =>
          plan.cause \in Hyps /\ plan.hyps[plan.cause] = "confirmed"

\* Steps are numbered without gaps up to a count that never exceeds the
\* ceiling, a plan that reports its ceiling has reached it, and a concluded
\* plan names a hypothesis of its own that it holds confirmed.
PlansSound == \A p \in Plans : Sound(plans[p])

\* A step that a caller was told of is in the plan, as the caller passed it.
Stands(told, k, steps) ==
    told > 0 => told \in DOMAIN steps /\ steps[told].evidence = k.evidence

\* A step a caller was told of stays in the plan under its number, with the
\* evidence the caller passed.
AnswersStand ==
    \A c \in Clients : Stands(answer[c].step, call[c], plans[call[c].plan].steps)

\* A concluded or aborted plan never changes again, not even by an operation
\* that had read it while it was open.
TerminalFrozen ==
    [][\A p \in Plans : plans[p].status \in PB!Terminal =>
                            plans'[p] = plans[p]]_plans

-----------------------------------------------------------------------------
(* The inductive invariant behind these properties.                          *)

\* The lock is held by exactly the operation between its read and its save.
LockInv == \A c \in Clients : lock = c <=> pc[c] \in {"reading", "read"}

\* What an operation has read is still what the store holds, unless it found
\* nothing: plans are created without the lock.
CopyInv ==
    \A c \in Clients :
        At(c, "read") => copy[c] \in {plans[call[c].plan], PB!NoPlan}

EngineInv == EngineTypeOK /\ LockInv /\ CopyInv /\ PlansSound /\ AnswersStand
=============================================================================
