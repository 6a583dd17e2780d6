-------------------------- MODULE GovernedStepProofs --------------------------
(***************************************************************************)
(* What a step keeps under every set of policies, tools and limits: its    *)
(* types, that a write starts only where a person approved it and once in  *)
(* a run, and that neither the gate nor a tool call goes against a policy  *)
(* that stood from the question on.                                        *)
(*                                                                         *)
(* The invariant says where each answer is kept until it is used: the      *)
(* run's copy of the approval (RunKeeps) and the outcome of the two        *)
(* questions to governance (AnswersKeep), which changes of policies weaken *)
(* only for the policies they change.                                      *)
(***************************************************************************)
EXTENDS GovernedStep, TLAPS

Calls   == {"guard", "call", "calling"}
Turning == Calls \cup {"model"}

RunKeeps ==
    /\ run.pc \in Turning =>
        /\ step.status = "running"
        /\ run.approved # {} => step.approval = "approved" /\ run.approved \subseteq step.named
    /\ run.pc \in Calls =>
        /\ run.tool \in Tools /\ run.turn < MaxToolCalls
        /\ run.tool \in Writes => run.tool \in run.approved \cap run.used
    /\ run.pc \in {"guard", "call"} => run.tool \notin run.begun
    /\ run.begun \subseteq run.used /\ run.satisfied \subseteq run.wrote
    /\ run.pc = "over" => mission.required \subseteq run.satisfied

StandingActive == \A p \in standing : policy[p].status = "active"

AnswersKeep ==
    /\ run.pc = "call" => "deny" \notin Effects(standing, "tool", {run.tool})
    /\ run.pc = "decided" =>
        LET effects == Effects(standing, "task", mission.required)
        IN /\ "deny" \in effects => run.outcome = "deny"
           /\ "require_approval" \in effects \/ mission.required \cap Writes # {}
                => run.outcome \in {"deny", "require_approval"}

MissionType == mission \in [startedBy: {"person", "schedule"}, required: RequiredSets,
                            asks: {"nobody", "planner", "skill"}]

IInv == MissionType /\ TypeOK /\ RunKeeps /\ StandingActive /\ AnswersKeep

RunType == [pc: {"idle", "decided", "model", "guard", "call", "calling", "over"},
            outcome: {"none", "allow", "require_approval", "deny"}, tool: Tools \cup {None},
            approved: SUBSET Writes, turn: 0..MaxToolCalls, used: SUBSET Writes,
            begun: SUBSET Writes, wrote: SUBSET Tools, satisfied: SUBSET mission.required]

StepType == [status: {"pending", "waiting", "ready", "running", "completed", "failed"},
             approval: {"none", "pending", "approved", "rejected"}, named: SUBSET Writes]

LEMMA NoRunType == NoRun \in RunType
    BY StepAssumption DEF NoRun, RunType

LEMMA StrongestType ==
    ASSUME NEW effects
    PROVE  /\ Strongest(effects) \in {"allow", "require_approval", "deny"}
           /\ "deny" \in effects <=> Strongest(effects) = "deny"
           /\ "require_approval" \in effects => Strongest(effects) \in {"deny", "require_approval"}
    BY DEF Strongest

-----------------------------------------------------------------------------
(* Policies.                                                               *)

(* What stands on from a change has the effects it had.                    *)
LEMMA EffectsShrink ==
    ASSUME NEW subject, NEW tools, mission' = mission,
           standing' \subseteq standing, \A p \in standing' : policy'[p] = policy[p]
    PROVE  Effects(standing, subject, tools)' \subseteq Effects(standing, subject, tools)
    BY DEF Effects, Covers

(* A change of policies keeps everything about the step.                   *)
LEMMA AuthorKeeps ==
    ASSUME IInv, UNCHANGED <<mission, step, run>>, TypeOK',
           standing' \subseteq standing, \A p \in standing' : policy'[p] = policy[p]
    PROVE  IInv'
<1>1. \A subject, tools : Effects(standing, subject, tools)' \subseteq Effects(standing, subject, tools)
    BY EffectsShrink
<1>2. MissionType' /\ StandingActive'
    BY DEF IInv, MissionType, StandingActive
<1>3. RunKeeps'
    BY DEF IInv, RunKeeps
<1>4. AnswersKeep'
    <2>1. Effects(standing, "tool", {run.tool})' \subseteq Effects(standing, "tool", {run.tool})
        BY EffectsShrink
    <2>2. Effects(standing, "task", mission.required)' \subseteq Effects(standing, "task", mission.required)
        BY EffectsShrink
    <2>3. QED  BY <2>1, <2>2 DEF IInv, AnswersKeep
<1>5. QED  BY <1>2, <1>3, <1>4 DEF IInv

LEMMA AuthorStep ==
    ASSUME IInv, CreatePolicy \/ \E a \in Authors : ReadPolicy(a) \/ WritePolicy(a)
    PROVE  IInv'
<1>  USE DEF IInv, TypeOK
<1>1. CASE CreatePolicy
    <2>1. PICK p \in Policies, r \in Rules, s \in Statuses :
            policy[p] = NoPolicy /\ policy' = [policy EXCEPT ![p] = [status |-> s, rule |-> r]]
        BY <1>1 DEF CreatePolicy
    <2>2. UNCHANGED <<mission, edit, step, run, done, standing, faults>> /\ Changes
        BY <1>1 DEF CreatePolicy
    <2>3. \A q \in standing' : policy'[q] = policy[q]
        BY <2>1, <2>2 DEF StandingActive, NoPolicy
    <2>4. policy' \in [Policies -> Policy] /\ edits' \in 0..MaxEdits
        BY <2>1, <2>2, StepAssumption DEF Policy, Statuses, Changes
    <2>5. TypeOK'
        BY <2>2, <2>4
    <2>6. QED  BY <2>2, <2>3, <2>5, AuthorKeeps
<1>2. ASSUME NEW a \in Authors, ReadPolicy(a)
      PROVE  IInv'
    <2>1. PICK p \in Policies : edit' = [edit EXCEPT ![a] = [id |-> p, copy |-> policy[p]]]
        BY <1>2 DEF ReadPolicy
    <2>2. UNCHANGED <<mission, policy, step, run, done, standing, faults>> /\ Changes
        BY <1>2 DEF ReadPolicy
    <2>3. edit' \in [Authors -> [id: Policies \cup {None}, copy: Policy]] /\ edits' \in 0..MaxEdits
        BY <2>1, <2>2, StepAssumption DEF Changes
    <2>4. TypeOK'
        BY <2>2, <2>3
    <2>5. QED  BY <2>2, <2>4, AuthorKeeps
<1>3. ASSUME NEW a \in Authors, WritePolicy(a)
      PROVE  IInv'
    <2>1. PICK s \in Statuses, r \in Rules :
            policy' = [policy EXCEPT ![edit[a].id] = [status |-> s, rule |-> r]]
        BY <1>3 DEF WritePolicy
    <2>2. /\ UNCHANGED <<mission, step, run, done, edits, faults>>
          /\ standing' = standing \ {p \in Policies : policy'[p] # policy[p]}
          /\ edit' = [edit EXCEPT ![a] = NoEdit]
        BY <1>3 DEF WritePolicy
    <2>3. standing' \subseteq standing /\ \A q \in standing' : policy'[q] = policy[q]
        BY <2>2
    <2>4. policy' \in [Policies -> Policy]
        BY <2>1 DEF Policy, Statuses
    <2>5. edit' \in [Authors -> [id: Policies \cup {None}, copy: Policy]]
        BY <2>2 DEF NoEdit, Policy
    <2>6. TypeOK'
        BY <2>2, <2>3, <2>4, <2>5
    <2>7. QED  BY <2>2, <2>3, <2>6, AuthorKeeps
<1>4. QED  BY <1>1, <1>2, <1>3

-----------------------------------------------------------------------------
(* The gate.                                                               *)

(* A step that ends its run, or never began one, keeps the rest.           *)
LEMMA EndsKeeps ==
    ASSUME IInv, Ends, step' \in StepType, mission' = mission, UNCHANGED author,
           done' \in [Writes -> Nat], faults' \in 0..MaxFaults
    PROVE  IInv'
<1>1. run' \in RunType /\ run' = NoRun /\ standing' = {}
    BY NoRunType DEF Ends
<1>2. TypeOK'
    BY <1>1 DEF IInv, TypeOK, author, RunType, StepType
<1>3. RunKeeps' /\ StandingActive' /\ AnswersKeep' /\ MissionType'
    BY <1>1 DEF IInv, MissionType, RunKeeps, StandingActive, AnswersKeep, NoRun, Turning, Calls
<1>4. QED  BY <1>2, <1>3 DEF IInv

LEMMA LandsType ==
    ASSUME IInv, Lands \/ UNCHANGED done
    PROVE  done' \in [Writes -> Nat]
    BY DEF IInv, TypeOK, Lands

LEMMA GateStep ==
    ASSUME IInv, Evaluate \/ Deny \/ RequestApproval \/ MakeReady
    PROVE  IInv'
<1>1. CASE Evaluate
    <2>1. /\ run' = [NoRun EXCEPT !.pc = "decided", !.outcome = TaskOutcome]
          /\ standing' = InForce /\ UNCHANGED <<mission, policy, edit, edits, step, done, faults>>
        BY <1>1 DEF Evaluate, author
    <2>2. /\ TaskOutcome \in {"allow", "require_approval", "deny"}
          /\ "deny" \in Effects(InForce, "task", mission.required) => TaskOutcome = "deny"
          /\ "require_approval" \in Effects(InForce, "task", mission.required)
                \/ mission.required \cap Writes # {}
                => TaskOutcome \in {"deny", "require_approval"}
        BY StrongestType DEF TaskOutcome, WithFloors
    <2>3. run' \in RunType
        BY <2>1, <2>2, NoRunType DEF NoRun, RunType
    <2>4. run'.pc = "decided" /\ run'.outcome = TaskOutcome
        BY <2>1 DEF NoRun
    <2>5. run'.begun = {} /\ run'.used = {} /\ run'.satisfied = {} /\ run'.wrote = {}
        BY <2>1 DEF NoRun
    <2>6. TypeOK' /\ MissionType' /\ StandingActive'
        BY <2>1, <2>3 DEF IInv, TypeOK, RunType, MissionType, StandingActive, InForce
    <2>7. RunKeeps'
        BY <2>4, <2>5 DEF RunKeeps, Turning, Calls
    <2>8. Effects(standing, "task", mission.required)' = Effects(InForce, "task", mission.required)
        BY <2>1 DEF Effects, Covers
    <2>9. AnswersKeep'
        BY <2>1, <2>2, <2>4, <2>8 DEF AnswersKeep
    <2>10. QED  BY <2>6, <2>7, <2>9 DEF IInv
<1>2. CASE Deny
    <2>1. step' \in StepType
        BY <1>2 DEF Deny, IInv, TypeOK, StepType
    <2>2. QED  BY <1>2, <2>1, EndsKeeps DEF Deny, IInv, TypeOK
<1>3. CASE RequestApproval
    <2>1. step' \in StepType
        BY <1>3 DEF RequestApproval, IInv, TypeOK, StepType
    <2>2. QED  BY <1>3, <2>1, EndsKeeps DEF RequestApproval, IInv, TypeOK
<1>4. CASE MakeReady
    <2>1. step' \in StepType
        BY <1>4 DEF MakeReady, IInv, TypeOK, StepType
    <2>2. QED  BY <1>4, <2>1, EndsKeeps DEF MakeReady, IInv, TypeOK
<1>5. QED  BY <1>1, <1>2, <1>3, <1>4

(* While no run is under way, the step's row may change.                   *)
LEMMA RowStep ==
    ASSUME IInv, Decide \/ ReclaimOrphan \/ Retry
    PROVE  IInv'
<1>1. step' \in StepType /\ UNCHANGED <<mission, policy, edit, edits, run, done, standing>> /\ faults' \in 0..MaxFaults
    <2>1. CASE Decide
        <3>1. step' \in StepType
            BY <2>1 DEF Decide, IInv, TypeOK, StepType
        <3>2. QED  BY <2>1, <3>1 DEF Decide, IInv, TypeOK, author
    <2>2. CASE ReclaimOrphan
        <3>1. step' \in StepType
            BY <2>2 DEF ReclaimOrphan, Settle, IInv, TypeOK, StepType
        <3>2. QED  BY <2>2, <3>1 DEF ReclaimOrphan, IInv, TypeOK, author
    <2>3. CASE Retry
        <3>1. step' \in StepType
            BY <2>3 DEF Retry, Settle, IInv, TypeOK, StepType
        <3>2. faults' \in 0..MaxFaults
            BY <2>3, StepAssumption DEF Retry, IInv, TypeOK
        <3>3. QED  BY <2>3, <3>1, <3>2 DEF Retry, author
    <2>4. QED  BY <2>1, <2>2, <2>3
<1>2. run.pc \notin Turning
    BY DEF IInv, RunKeeps, Turning, Calls, Decide, ReclaimOrphan, Retry
<1>3. TypeOK' /\ MissionType' /\ StandingActive'
    BY <1>1 DEF IInv, TypeOK, MissionType, StandingActive, StepType
<1>4. RunKeeps'
    BY <1>1, <1>2 DEF IInv, RunKeeps, Turning
<1>5. AnswersKeep'
    BY <1>1 DEF IInv, AnswersKeep, Effects, Covers
<1>6. QED  BY <1>3, <1>4, <1>5 DEF IInv

-----------------------------------------------------------------------------
(* The agent's turns.                                                      *)

(* What the next turn is made of.                                          *)
LEMMA TurnTaken ==
    ASSUME NEW r \in RunType, r.turn < MaxToolCalls
    PROVE  /\ NextTurn(r) \in RunType /\ NextTurn(r).pc = "model"
           /\ NextTurn(r).approved = r.approved /\ NextTurn(r).used = r.used
           /\ NextTurn(r).begun = r.begun /\ NextTurn(r).satisfied = r.satisfied
           /\ NextTurn(r).wrote = r.wrote
<1>1. r.turn + 1 \in 0..MaxToolCalls
    BY StepAssumption DEF RunType
<1>2. QED  BY <1>1 DEF NextTurn, RunType

(* A run that goes on with the model, the row as it was.                   *)
LEMMA BackToModel ==
    ASSUME IInv, run.pc \in Turning, run' \in RunType, run'.pc = "model",
           run'.approved = run.approved, run'.begun \subseteq run'.used,
           run'.satisfied \subseteq run'.wrote, standing' \subseteq standing,
           done' \in [Writes -> Nat], UNCHANGED <<mission, policy, edit, edits, step, faults>>
    PROVE  IInv'
<1>1. TypeOK' /\ MissionType' /\ StandingActive'
    BY DEF IInv, TypeOK, RunType, MissionType, StandingActive
<1>2. RunKeeps'
    BY DEF IInv, RunKeeps, Turning, Calls
<1>3. AnswersKeep'
    BY DEF AnswersKeep
<1>4. QED  BY <1>1, <1>2, <1>3 DEF IInv

LEMMA StartStep ==
    ASSUME IInv, Start
    PROVE  IInv'
<1>1. /\ step' = [step EXCEPT !.status = "running"]
      /\ run' = [NoRun EXCEPT !.pc = "model", !.approved = IF step.approval = "approved" THEN step.named ELSE {}]
      /\ UNCHANGED <<mission, policy, edit, edits, done, standing, faults>>
    BY DEF Start, author
<1>2. step' \in StepType /\ step'.status = "running" /\ step'.approval = step.approval /\ step'.named = step.named
    BY <1>1 DEF IInv, TypeOK, StepType
<1>3. (IF step.approval = "approved" THEN step.named ELSE {}) \in SUBSET Writes
    BY DEF IInv, TypeOK
<1>4. /\ run' \in RunType /\ run'.pc = "model" /\ run'.begun = {} /\ run'.used = {}
      /\ run'.satisfied = {} /\ run'.wrote = {}
      /\ run'.approved = IF step.approval = "approved" THEN step.named ELSE {}
    BY <1>1, <1>3, NoRunType DEF NoRun, RunType
<1>5. TypeOK' /\ MissionType' /\ StandingActive'
    BY <1>1, <1>2, <1>4 DEF IInv, TypeOK, RunType, StepType, MissionType, StandingActive
<1>6. RunKeeps'
    BY <1>2, <1>4 DEF RunKeeps, Turning, Calls
<1>7. AnswersKeep'
    BY <1>4 DEF AnswersKeep
<1>8. QED  BY <1>5, <1>6, <1>7 DEF IInv

LEMMA CallToolStep ==
    ASSUME IInv, CallTool
    PROVE  IInv'
<1>  DEFINE Using(t) == [run EXCEPT !.used = @ \cup ({t} \cap Writes)]
<1>1. PICK t \in Tools :
        run' = IF UsedUp(t) \/ NotApproved(t) THEN NextTurn(Using(t))
               ELSE [Using(t) EXCEPT !.pc = "guard", !.tool = t]
    BY DEF CallTool
<1>2. /\ run.pc = "model" /\ ~FinalTurn /\ UNCHANGED <<mission, policy, edit, edits, step, done, faults>>
      /\ standing' = IF run'.pc = "guard" THEN InForce ELSE {}
    BY DEF CallTool, author
<1>3. run \in RunType /\ run.turn < MaxToolCalls
    BY <1>2, StepAssumption DEF IInv, TypeOK, RunType, FinalTurn
<1>4. /\ Using(t) \in RunType /\ Using(t).turn = run.turn /\ Using(t).approved = run.approved
      /\ Using(t).begun = run.begun /\ Using(t).wrote = run.wrote /\ Using(t).satisfied = run.satisfied
      /\ Using(t).used = run.used \cup ({t} \cap Writes)
    BY <1>3, StepAssumption DEF RunType
<1>5. run.begun \subseteq run.used /\ run.satisfied \subseteq run.wrote
    BY DEF IInv, RunKeeps
<1>  HIDE DEF Using
<1>6. CASE UsedUp(t) \/ NotApproved(t)
    <2>1. run' = NextTurn(Using(t))
        BY <1>1, <1>6
    <2>2. run' \in RunType /\ run'.pc = "model" /\ run'.approved = run.approved
          /\ run'.begun = run.begun /\ run'.used = run.used \cup ({t} \cap Writes)
          /\ run'.satisfied = run.satisfied /\ run'.wrote = run.wrote
        BY <2>1, <1>3, <1>4, TurnTaken
    <2>3. standing' = {}
        BY <1>2, <2>2
    <2>4. run.pc \in Turning /\ done' \in [Writes -> Nat]
        BY <1>2 DEF Turning, IInv, TypeOK
    <2>5. QED  BY <1>2, <1>5, <2>2, <2>3, <2>4, BackToModel
<1>7. CASE ~(UsedUp(t) \/ NotApproved(t))
    <2>1. run' = [Using(t) EXCEPT !.pc = "guard", !.tool = t]
        BY <1>1, <1>7
    <2>2. /\ run' \in RunType /\ run'.pc = "guard" /\ run'.tool = t /\ run'.approved = run.approved
          /\ run'.turn = run.turn /\ run'.begun = run.begun /\ run'.used = run.used \cup ({t} \cap Writes)
          /\ run'.satisfied = run.satisfied /\ run'.wrote = run.wrote
        BY <2>1, <1>4 DEF RunType
    <2>3. standing' = InForce
        BY <1>2, <2>2
    <2>4. TypeOK' /\ MissionType' /\ StandingActive'
        BY <1>2, <2>2, <2>3 DEF IInv, TypeOK, RunType, MissionType, StandingActive, InForce
    <2>5. (t \in Writes => t \in run.approved) /\ t \notin run.begun
        <3>1. (t \in Writes => t \in run.approved) /\ (t \in Writes => t \notin run.used)
            BY <1>7 DEF UsedUp, NotApproved
        <3>2. run.begun \subseteq Writes
            BY <1>3 DEF RunType
        <3>3. QED  BY <3>1, <3>2, <1>5
    <2>6. RunKeeps'
        BY <1>2, <1>3, <1>5, <2>2, <2>5 DEF IInv, RunKeeps, Turning, Calls
    <2>7. AnswersKeep'
        BY <2>2 DEF AnswersKeep
    <2>8. QED  BY <2>4, <2>6, <2>7 DEF IInv
<1>8. QED  BY <1>6, <1>7

LEMMA GuardStep ==
    ASSUME IInv, Guard
    PROVE  IInv'
<1>1. /\ run.pc = "guard" /\ UNCHANGED <<mission, policy, edit, edits, step, done, faults>>
      /\ standing' = IF run'.pc = "call" THEN standing ELSE {}
      /\ run' = NextTurn(run) \/ (ToolOutcome(run.tool) = "allow" /\ run' = [run EXCEPT !.pc = "call"])
    BY DEF Guard, author
<1>2. run \in RunType /\ run.turn < MaxToolCalls /\ run.pc \in Turning
    BY <1>1 DEF IInv, TypeOK, RunType, RunKeeps, Calls, Turning
<1>3. CASE run' = NextTurn(run)
    <2>1. QED
        BY <1>1, <1>2, <1>3, TurnTaken, BackToModel DEF IInv, TypeOK, RunKeeps
<1>4. CASE ToolOutcome(run.tool) = "allow" /\ run' = [run EXCEPT !.pc = "call"]
    <2>1. /\ run' \in RunType /\ run'.pc = "call" /\ run'.tool = run.tool /\ run'.approved = run.approved
          /\ run'.turn = run.turn /\ run'.begun = run.begun /\ run'.used = run.used
          /\ run'.satisfied = run.satisfied /\ run'.wrote = run.wrote
        BY <1>2, <1>4 DEF RunType
    <2>2. standing' = standing
        BY <1>1, <2>1
    <2>3. TypeOK' /\ MissionType' /\ StandingActive'
        BY <1>1, <2>1, <2>2 DEF IInv, TypeOK, RunType, MissionType, StandingActive
    <2>4. RunKeeps'
        BY <1>1, <2>1 DEF IInv, RunKeeps, Turning, Calls
    <2>5. "deny" \notin Effects(InForce, "tool", {run.tool})
        BY <1>4, StrongestType DEF ToolOutcome
    <2>6. standing \subseteq InForce
        BY DEF IInv, TypeOK, StandingActive, InForce
    <2>7. Effects(standing, "tool", {run.tool}) \subseteq Effects(InForce, "tool", {run.tool})
        BY <2>6 DEF Effects
    <2>8. Effects(standing, "tool", {run.tool})' = Effects(standing, "tool", {run.tool})
        BY <1>1, <2>1, <2>2 DEF Effects, Covers
    <2>9. AnswersKeep'
        BY <2>1, <2>5, <2>7, <2>8 DEF AnswersKeep
    <2>10. QED  BY <2>3, <2>4, <2>9 DEF IInv
<1>5. QED  BY <1>1, <1>3, <1>4

LEMMA BeginCallStep ==
    ASSUME IInv, BeginCall
    PROVE  IInv'
<1>1. /\ run.pc = "call" /\ UNCHANGED <<mission, policy, edit, edits, step, done, faults>> /\ standing' = {}
      /\ \/ run' = NextTurn(run)
         \/ run' = [run EXCEPT !.pc = "calling", !.begun = @ \cup ({run.tool} \cap Writes)]
    BY DEF BeginCall, author
<1>2. run \in RunType /\ run.turn < MaxToolCalls /\ run.pc \in Turning
    BY <1>1 DEF IInv, TypeOK, RunType, RunKeeps, Calls, Turning
<1>3. CASE run' = NextTurn(run)
    <2>1. QED
        BY <1>1, <1>2, <1>3, TurnTaken, BackToModel DEF IInv, TypeOK, RunKeeps
<1>4. CASE run' = [run EXCEPT !.pc = "calling", !.begun = @ \cup ({run.tool} \cap Writes)]
    <2>1. /\ run' \in RunType /\ run'.pc = "calling" /\ run'.tool = run.tool /\ run'.approved = run.approved
          /\ run'.turn = run.turn /\ run'.begun = run.begun \cup ({run.tool} \cap Writes)
          /\ run'.used = run.used /\ run'.satisfied = run.satisfied /\ run'.wrote = run.wrote
        BY <1>2, <1>4 DEF RunType
    <2>2. TypeOK' /\ MissionType' /\ StandingActive'
        BY <1>1, <2>1 DEF IInv, TypeOK, RunType, MissionType, StandingActive
    <2>3. RunKeeps'
        BY <1>1, <2>1 DEF IInv, RunKeeps, Turning, Calls
    <2>4. AnswersKeep'
        BY <2>1 DEF AnswersKeep
    <2>5. QED  BY <2>2, <2>3, <2>4 DEF IInv
<1>5. QED  BY <1>1, <1>3, <1>4

LEMMA EndCallStep ==
    ASSUME IInv, EndCall
    PROVE  IInv'
<1>  DEFINE Came(ok) == [run EXCEPT
                    !.satisfied = @ \cup IF Satisfies(ok) THEN {run.tool} \cap mission.required ELSE {},
                    !.wrote = @ \cup IF ok THEN {run.tool} ELSE {}]
<1>1. PICK ok \in BOOLEAN : run' = NextTurn(Came(ok)) /\ (Lands \/ UNCHANGED done)
    BY DEF EndCall
<1>2. run.pc = "calling" /\ UNCHANGED <<mission, policy, edit, edits, step, standing, faults>>
    BY DEF EndCall, author
<1>3. run \in RunType /\ run.turn < MaxToolCalls /\ run.pc \in Turning /\ run.tool \in Tools
    BY <1>2 DEF IInv, TypeOK, RunType, RunKeeps, Calls, Turning
<1>4. /\ Came(ok) \in RunType /\ Came(ok).turn = run.turn /\ Came(ok).approved = run.approved
      /\ Came(ok).begun = run.begun /\ Came(ok).used = run.used
      /\ Came(ok).satisfied = run.satisfied \cup (IF ok THEN {run.tool} \cap mission.required ELSE {})
      /\ Came(ok).wrote = run.wrote \cup (IF ok THEN {run.tool} ELSE {})
    BY <1>3 DEF RunType, Satisfies
<1>5. Came(ok).satisfied \subseteq Came(ok).wrote /\ Came(ok).begun \subseteq Came(ok).used
    BY <1>4 DEF IInv, RunKeeps
<1>  HIDE DEF Came
<1>6. /\ run' \in RunType /\ run'.pc = "model" /\ run'.approved = run.approved
      /\ run'.begun \subseteq run'.used /\ run'.satisfied \subseteq run'.wrote
    BY <1>1, <1>3, <1>4, <1>5, TurnTaken
<1>7. done' \in [Writes -> Nat]
    BY <1>1, LandsType
<1>8. QED  BY <1>2, <1>3, <1>6, <1>7, BackToModel

LEMMA AnswerStep ==
    ASSUME IInv, RejectAnswer \/ Complete
    PROVE  IInv'
<1>1. run \in RunType
    BY DEF IInv, TypeOK, RunType
<1>2. CASE RejectAnswer
    <2>1. /\ run' = NextTurn(run) /\ run.pc = "model" /\ run.turn < MaxToolCalls
          /\ UNCHANGED <<mission, policy, edit, edits, step, done, standing, faults>>
        BY <1>1, <1>2, StepAssumption DEF RejectAnswer, author, FinalTurn, RunType
    <2>2. QED
        BY <1>1, <2>1, TurnTaken, BackToModel DEF IInv, TypeOK, RunKeeps, Turning
<1>3. CASE Complete
    <2>1. /\ run' = [run EXCEPT !.pc = "over"] /\ run.pc = "model" /\ mission.required \subseteq run.satisfied
          /\ step' = [step EXCEPT !.status = "completed"]
          /\ UNCHANGED <<mission, policy, edit, edits, done, standing, faults>>
        BY <1>3 DEF Complete, author, Unsatisfied, Settle
    <2>2. /\ run' \in RunType /\ run'.pc = "over" /\ run'.begun = run.begun /\ run'.used = run.used
          /\ run'.satisfied = run.satisfied /\ run'.wrote = run.wrote
        BY <1>1, <2>1 DEF RunType
    <2>3. step' \in StepType
        BY <2>1 DEF IInv, TypeOK, StepType
    <2>4. TypeOK' /\ MissionType' /\ StandingActive'
        BY <2>1, <2>2, <2>3 DEF IInv, TypeOK, RunType, StepType, MissionType, StandingActive
    <2>5. RunKeeps' /\ AnswersKeep'
        BY <2>1, <2>2 DEF IInv, RunKeeps, AnswersKeep, Turning, Calls
    <2>6. QED  BY <2>4, <2>5 DEF IInv
<1>4. QED  BY <1>2, <1>3

LEMMA EndStep ==
    ASSUME IInv, Fail \/ WorkerDies
    PROVE  IInv'
<1>1. Ends /\ mission' = mission /\ UNCHANGED author /\ (Lands \/ UNCHANGED done)
    BY DEF Fail, WorkerDies
<1>2. done' \in [Writes -> Nat]
    BY <1>1, LandsType
<1>3. step' \in StepType
    BY DEF Fail, WorkerDies, Settle, IInv, TypeOK, StepType
<1>4. faults' \in 0..MaxFaults
    BY StepAssumption DEF Fail, WorkerDies, IInv, TypeOK
<1>5. QED  BY <1>1, <1>2, <1>3, <1>4, EndsKeeps

-----------------------------------------------------------------------------
LEMMA Started ==
    ASSUME Init
    PROVE  IInv
<1>1. run \in RunType
    BY NoRunType DEF Init
<1>2. policy \in [Policies -> Policy] /\ edit \in [Authors -> [id: Policies \cup {None}, copy: Policy]]
    BY DEF Init, NoEdit, Policy
<1>3. step \in StepType /\ done \in [Writes -> Nat] /\ standing \subseteq Policies
    BY DEF Init, StepType
<1>4. edits \in 0..MaxEdits /\ faults \in 0..MaxFaults
    BY StepAssumption DEF Init
<1>5. TypeOK
    BY <1>1, <1>2, <1>3, <1>4 DEF TypeOK, RunType, StepType
<1>6. MissionType /\ StandingActive /\ RunKeeps /\ AnswersKeep
    BY DEF Init, MissionType, StandingActive, RunKeeps, AnswersKeep, NoRun, Turning, Calls
<1>7. QED  BY <1>5, <1>6 DEF IInv

LEMMA Inductive ==
    ASSUME IInv, [Next]_vars
    PROVE  IInv'
<1>1. CASE UNCHANGED vars
    <2>1. UNCHANGED <<mission, step, run, policy, edit, done, standing, edits, faults>>
        BY <1>1 DEF vars
    <2>2. TypeOK'
        BY <2>1 DEF IInv, TypeOK
    <2>3. QED  BY <2>1, <2>2, AuthorKeeps
<1>2. CASE Next
    BY <1>2, AuthorStep, GateStep, RowStep, StartStep, CallToolStep, GuardStep, BeginCallStep, EndCallStep,
       AnswerStep, EndStep DEF Next, Attempt
<1>3. QED  BY <1>1, <1>2

LEMMA Invariant == Spec => []IInv
<1>1. Init => IInv
    BY Started
<1>2. IInv /\ [Next]_vars => IInv'
    BY Inductive
<1>3. QED  BY <1>1, <1>2, PTL DEF Spec

(* Every variable has its type; above all, no run takes more turns than    *)
(* maxToolCalls allows.                                                    *)
THEOREM TypesHold == Spec => []TypeOK
<1>1. IInv => TypeOK
    BY DEF IInv
<1>2. QED  BY <1>1, Invariant, PTL

(* The agent runtime settles a step as completed only when every tool the  *)
(* plan requires came back well in that run.                               *)
THEOREM RequiredCallsHold == Spec => []RequiredCallsMade
<1>1. IInv => RequiredCallsMade
    BY DEF IInv, RunKeeps, RequiredCallsMade
<1>2. QED  BY <1>1, Invariant, PTL

(* A tool begins only in BeginCall.                                        *)
LEMMA BeginsOnly ==
    ASSUME IInv, [Next]_vars, NEW t \in Tools, Starts(t)
    PROVE  BeginCall /\ run.pc = "call" /\ run.tool = t
<1>1. run.pc = "call" /\ run'.pc = "calling" /\ run.tool = t
    BY DEF Starts
<1>2. ~UNCHANGED vars
    BY <1>1 DEF vars
<1>3. run \in RunType
    BY DEF IInv, TypeOK, RunType
<1>4. ~(Ends \/ run' = run)
    BY <1>1 DEF Ends, NoRun
<1>5. ~(Evaluate \/ Start \/ CallTool \/ Guard \/ EndCall \/ RejectAnswer \/ Complete)
    BY <1>1 DEF Evaluate, Start, CallTool, Guard, EndCall, RejectAnswer, Complete
<1>6. QED
    BY <1>1, <1>2, <1>4, <1>5 DEF Next, Attempt, Deny, RequestApproval, MakeReady, Decide, Fail, WorkerDies,
       ReclaimOrphan, Retry, CreatePolicy, ReadPolicy, WritePolicy

(* The tool executor starts a write only in a step a person approved, and  *)
(* only a write that approval names, whatever policies do meanwhile.       *)
THEOREM WritesApproved == Spec => WritesWereApproved
<1>1. IInv /\ [Next]_vars =>
        [\A w \in Writes : Starts(w) => step.approval = "approved" /\ w \in step.named]_vars
    BY BeginsOnly, StepAssumption DEF IInv, RunKeeps, Turning, Calls
<1>2. QED  BY <1>1, Invariant, PTL DEF Spec, WritesWereApproved

(* One run of a step begins a write at most once: the runtime counts a     *)
(* call before it knows how it ends.                                       *)
THEOREM WritesOnceInARun == Spec => OnceInARun
<1>1. IInv /\ [Next]_vars => [\A w \in Writes : Starts(w) => w \notin run.begun]_vars
    BY BeginsOnly, StepAssumption DEF IInv, RunKeeps
<1>2. QED  BY <1>1, Invariant, PTL DEF Spec, OnceInARun

(* No tool starts against a deny that was in force when the guard was      *)
(* asked and has not been changed since.                                   *)
THEOREM DeniesHold == Spec => StandingDeniesHold
<1>1. IInv /\ [Next]_vars =>
        [\A t \in Tools : Starts(t) => "deny" \notin Effects(standing, "tool", {t})]_vars
    BY BeginsOnly DEF IInv, AnswersKeep
<1>2. QED  BY <1>1, Invariant, PTL DEF Spec, StandingDeniesHold

(* The gate makes a step ready only when no standing policy denies it, and *)
(* approved when a policy, the planner, its skill or a write asks for it.  *)
THEOREM ReadyWasDecided == Spec => ReadyStepsAreDecided
<1>  DEFINE Asked == "require_approval" \in Effects(standing, "task", mission.required)
                        \/ mission.asks # "nobody" \/ mission.required \cap Writes # {}
            Decided == /\ "deny" \notin Effects(standing, "task", mission.required)
                       /\ Asked => step.approval = "approved"
<1>1. ASSUME IInv, [Next]_vars, step.status # "ready", step'.status = "ready"
      PROVE  Decided
    <2>1. step \in StepType
        BY <1>1 DEF IInv, TypeOK, StepType
    <2>2. MakeReady
        <3>1. step' # step
            BY <1>1
        <3>2. ~(Evaluate \/ CallTool \/ Guard \/ BeginCall \/ EndCall \/ RejectAnswer \/ WorkerDies)
            BY <3>1 DEF Evaluate, CallTool, Guard, BeginCall, EndCall, RejectAnswer, WorkerDies
        <3>3. ~(CreatePolicy \/ \E a \in Authors : ReadPolicy(a) \/ WritePolicy(a)) /\ ~UNCHANGED vars
            BY <3>1 DEF CreatePolicy, ReadPolicy, WritePolicy, vars
        <3>4. ~(Deny \/ Complete \/ Fail \/ ReclaimOrphan \/ Retry)
            BY <1>1, <2>1 DEF Deny, Complete, Fail, ReclaimOrphan, Retry, Settle, StepType
        <3>5. ~Decide
            BY <1>1, <2>1 DEF Decide, StepType
        <3>6. ~RequestApproval
            BY <1>1 DEF RequestApproval
        <3>7. ~Start
            BY <1>1, <2>1 DEF Start, StepType
        <3>8. QED  BY <1>1, <3>2, <3>3, <3>4, <3>5, <3>6, <3>7 DEF Next, Attempt
    <2>3. run.pc = "decided" /\ run.outcome # "deny" /\ ~Wanted
        BY <2>2 DEF MakeReady
    <2>4. QED  BY <1>1, <2>3 DEF IInv, AnswersKeep, Wanted
<1>2. IInv /\ [Next]_vars => [step.status # "ready" /\ step'.status = "ready" => Decided]_vars
    BY <1>1
<1>3. QED  BY <1>2, Invariant, PTL DEF Spec, ReadyStepsAreDecided
=============================================================================
