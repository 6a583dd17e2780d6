----------------------------- MODULE GovernedStep -----------------------------
(***************************************************************************)
(* One step of a mission under the company's policies: the gate that asks  *)
(* governance before the step, the person who may have to approve it, the  *)
(* agent's turns with the model and its tool calls, each asked about       *)
(* again, while owners write and change policies.                          *)
(*                                                                         *)
(* A policy's scope is reduced to tools, its conditions are kept; scopes   *)
(* that leave this agent or workspace out make a policy that never         *)
(* matches, and risk decides nothing.  How the approval and the step's row *)
(* are written one after the other is in MissionLifecycle.                 *)
(***************************************************************************)
EXTENDS Naturals, FiniteSets

CONSTANTS
    Policies,       \* ids of policies
    Authors,        \* requests that change policies, in flight together
    Rules,          \* the rules they write
    Tools,          \* the registered tools the agent holds
    Writes,         \* those that change something outside the company
    RequiredSets,   \* what the plan may say the step needs
    None,           \* no policy, rule or tool
    MaxToolCalls,   \* turns of a run
    MaxEdits,       \* bound: changes of policies
    MaxFaults       \* bound: deaths of the worker, and retries

ASSUME StepAssumption ==
    /\ Rules \subseteq [subject: {"task", "tool"}, effect: {"allow", "require_approval", "deny"},
                        tools: SUBSET Tools, startedBy: {"any", "person", "schedule"},
                        external: {"any", "yes", "no"}]
    /\ Writes \subseteq Tools /\ RequiredSets \subseteq SUBSET Tools
    /\ MaxToolCalls \in Nat /\ MaxEdits \in Nat /\ MaxFaults \in Nat
    /\ None \notin Policies \cup Rules \cup Tools

VARIABLES
    mission,   \* who started it, what its step needs, who asked for approval beforehand
    policy,    \* id -> its row
    edit,      \* author -> the change under way
    step,      \* the step's row: its status, its approval and what that names
    run,       \* the attempt at it: the gate, then the agent's turns
    done,      \* how often a write took effect outside (history)
    standing,  \* policies in force, unchanged, since the question was put (history)
    edits,     \* changes so far
    faults     \* faults so far

vars   == <<mission, policy, edit, step, run, done, standing, edits, faults>>
author == <<policy, edit, edits>>

NoPolicy == [status |-> "absent", rule |-> None]
NoEdit   == [id |-> None, copy |-> NoPolicy]
NoRun    == [pc |-> "idle", outcome |-> "none", tool |-> None, approved |-> {}, turn |-> 0,
             used |-> {}, begun |-> {}, wrote |-> {}, satisfied |-> {}]

Init ==
    /\ mission \in [startedBy: {"person", "schedule"}, required: RequiredSets,
                    asks: {"nobody", "planner", "skill"}]
    /\ policy = [p \in Policies |-> NoPolicy]
    /\ edit = [a \in Authors |-> NoEdit]
    /\ step = [status |-> "pending", approval |-> "none", named |-> {}]
    /\ run = NoRun
    /\ done = [w \in Writes |-> 0]
    /\ standing = {} /\ edits = 0 /\ faults = 0

-----------------------------------------------------------------------------
(* Writing policies.                                                       *)

(* A tool policy can only allow or deny.                                   *)
Statuses    == {"draft", "active", "paused", "archived"}
Valid(rule) == ~(rule.subject = "tool" /\ rule.effect = "require_approval")

Changes == edits < MaxEdits /\ edits' = edits + 1

CreatePolicy ==
    /\ Changes
    /\ \E p \in Policies, r \in Rules, s \in Statuses :
        /\ policy[p] = NoPolicy /\ Valid(r)
        /\ policy' = [policy EXCEPT ![p] = [status |-> s, rule |-> r]]
    /\ UNCHANGED <<mission, edit, step, run, done, standing, faults>>

ReadPolicy(a) ==
    /\ edit[a] = NoEdit
    /\ Changes
    /\ \E p \in Policies :
        /\ policy[p].status \notin {"absent", "archived"}
        /\ edit' = [edit EXCEPT ![a] = [id |-> p, copy |-> policy[p]]]
    /\ UNCHANGED <<mission, policy, step, run, done, standing, faults>>

(* The whole row, from the copy: its status or its rule is another.        *)
WritePolicy(a) ==
    /\ edit[a] # NoEdit
    /\ \E s \in Statuses, r \in Rules :
            /\ r.subject = edit[a].copy.rule.subject /\ Valid(r)
            /\ policy' = [policy EXCEPT ![edit[a].id] = [status |-> s, rule |-> r]]
    /\ standing' = standing \ {p \in Policies : policy'[p] # policy[p]}
    /\ edit' = [edit EXCEPT ![a] = NoEdit]
    /\ UNCHANGED <<mission, step, run, done, edits, faults>>

-----------------------------------------------------------------------------
(* Governance.                                                             *)

InForce == {p \in Policies : policy[p].status = "active"}

Covers(rule, subject, tools) ==
    /\ rule.subject = subject
    /\ rule.tools = {} \/ rule.tools \cap tools # {}
    /\ rule.startedBy \in {"any", mission.startedBy}
    /\ rule.external \in {"any", IF tools \cap Writes = {} THEN "no" ELSE "yes"}

Effects(ps, subject, tools) ==
    {policy[p].rule.effect : p \in {q \in ps : Covers(policy[q].rule, subject, tools)}}

Strongest(effects) ==
    CASE "deny" \in effects             -> "deny"
      [] "deny" \notin effects /\ "require_approval" \in effects -> "require_approval"
      [] OTHER                          -> "allow"

(* Neither floor can be lowered, and a deny stays.                         *)
WithFloors(outcome) ==
    IF outcome # "deny" /\ (mission.required \cap Writes # {} \/ mission.asks = "skill")
    THEN "require_approval" ELSE outcome

TaskOutcome == WithFloors(Strongest(Effects(InForce, "task", mission.required)))

(* Mutant: a write a person approved needs no policy's consent.            *)
MutApprovedIsEnough(t) == IF t \in run.approved THEN "allow" ELSE Strongest(Effects(InForce, "tool", {t}))

ToolOutcome(t) == Strongest(Effects(InForce, "tool", {t}))

-----------------------------------------------------------------------------
(* The gate, as the step becomes eligible.                                 *)

Evaluate ==
    /\ run.pc = "idle" /\ step.status = "pending"
    /\ run' = [NoRun EXCEPT !.pc = "decided", !.outcome = TaskOutcome]
    /\ standing' = InForce
    /\ UNCHANGED <<mission, author, step, done, faults>>

Ends == run' = NoRun /\ standing' = {}

Deny ==
    /\ run.pc = "decided" /\ run.outcome = "deny"
    /\ step' = [step EXCEPT !.status = "failed"]
    /\ Ends
    /\ UNCHANGED <<mission, author, done, faults>>

(* A step that was put to a person once is marked as one that needs one.   *)
Wanted ==
    /\ run.outcome = "require_approval" \/ mission.asks # "nobody" \/ step.approval # "none"
    /\ step.approval # "approved"

(* The approval names the writes when governance asked for it.             *)
RequestApproval ==
    /\ run.pc = "decided" /\ run.outcome # "deny" /\ Wanted
    /\ step' = [status |-> "waiting", approval |-> "pending",
                named |-> IF run.outcome = "require_approval" THEN mission.required \cap Writes
                          ELSE step.named]
    /\ Ends
    /\ UNCHANGED <<mission, author, done, faults>>

MakeReady ==
    /\ run.pc = "decided" /\ run.outcome # "deny" /\ ~Wanted
    /\ step' = [step EXCEPT !.status = "ready"]
    /\ Ends
    /\ UNCHANGED <<mission, author, done, faults>>

Decide ==
    /\ step.approval = "pending" /\ step.status = "waiting"
    /\ \/ step' = [step EXCEPT !.status = "pending", !.approval = "approved"]
       \/ step' = [step EXCEPT !.status = "failed", !.approval = "rejected"]
    /\ UNCHANGED <<mission, author, run, done, standing, faults>>

-----------------------------------------------------------------------------
(* The agent's turns.                                                      *)

Start ==
    /\ run.pc = "idle" /\ step.status = "ready"
    /\ step' = [step EXCEPT !.status = "running"]
    /\ run' = [NoRun EXCEPT !.pc = "model", !.approved = IF step.approval = "approved" THEN step.named ELSE {}]
    /\ UNCHANGED <<mission, author, done, standing, faults>>

FinalTurn == run.turn >= MaxToolCalls

(* Mutant: a rejected answer takes no turn.                                *)
MutNoTurn(r) == [r EXCEPT !.pc = "model"]

NextTurn(r) == [r EXCEPT !.pc = "model", !.tool = None, !.turn = @ + 1]

(* A write may be called once in a run.                                    *)
UsedUp(t) == t \in Writes /\ t \in run.used

(* Mutant: any approval of the step will do.                               *)
MutAnyApproval(t) == t \in Writes /\ step.approval # "approved"

NotApproved(t) == t \in Writes \ run.approved

CallTool ==
    /\ run.pc = "model" /\ ~FinalTurn
    /\ \E t \in Tools :
        /\ run' = LET r == [run EXCEPT !.used = @ \cup ({t} \cap Writes)]
                  IN IF UsedUp(t) \/ NotApproved(t) THEN NextTurn(r)
                     ELSE [r EXCEPT !.pc = "guard", !.tool = t]
        /\ standing' = IF run'.pc = "guard" THEN InForce ELSE {}
    /\ UNCHANGED <<mission, author, step, done, faults>>

(* A guard that cannot answer refuses.                                     *)
Guard ==
    /\ run.pc = "guard"
    /\ \/ run' = IF ToolOutcome(run.tool) = "allow" THEN [run EXCEPT !.pc = "call"] ELSE NextTurn(run)
       \/ run' = NextTurn(run)
    /\ standing' = IF run'.pc = "call" THEN standing ELSE {}
    /\ UNCHANGED <<mission, author, step, done, faults>>

(* The input is refused, or the tool starts.                               *)
BeginCall ==
    /\ run.pc = "call"
    /\ \/ run' = NextTurn(run)
       \/ run' = [run EXCEPT !.pc = "calling", !.begun = @ \cup ({run.tool} \cap Writes)]
    /\ standing' = {}
    /\ UNCHANGED <<mission, author, step, done, faults>>

Lands == done' = [w \in Writes |-> IF run.pc = "calling" /\ w = run.tool THEN done[w] + 1 ELSE done[w]]

Satisfies(ok) == ok

(* A call that fails may have taken effect.                                *)
EndCall ==
    /\ run.pc = "calling"
    /\ \E ok \in BOOLEAN :
        /\ IF ok THEN Lands ELSE Lands \/ UNCHANGED done
        /\ run' = NextTurn([run EXCEPT
                    !.satisfied = @ \cup IF Satisfies(ok) THEN {run.tool} \cap mission.required ELSE {},
                    !.wrote = @ \cup IF ok THEN {run.tool} ELSE {}])
    /\ UNCHANGED <<mission, author, step, standing, faults>>

Unsatisfied == mission.required \ run.satisfied

RejectAnswer ==
    /\ run.pc = "model" /\ ~FinalTurn /\ Unsatisfied # {}
    /\ run' = NextTurn(run)
    /\ UNCHANGED <<mission, author, step, done, standing, faults>>

Settle(status) == step' = [step EXCEPT !.status = status]

Complete ==
    /\ run.pc = "model" /\ Unsatisfied = {}
    /\ Settle("completed")
    /\ run' = [run EXCEPT !.pc = "over"]
    /\ UNCHANGED <<mission, author, done, standing, faults>>

(* No required call on the last turn, the model throws, or time is up.     *)
Fail ==
    /\ run.pc \in {"model", "guard", "call", "calling"}
    /\ Settle("failed")
    /\ Lands \/ UNCHANGED done
    /\ Ends
    /\ UNCHANGED <<mission, author, faults>>

-----------------------------------------------------------------------------
(* The worker dies; a later attempt puts the step it was running back to   *)
(* the plan, as a retry does with a failed one.  An approval stays.        *)
WorkerDies ==
    /\ run.pc \notin {"idle", "over"} /\ faults < MaxFaults /\ faults' = faults + 1
    /\ Lands \/ UNCHANGED done
    /\ Ends
    /\ UNCHANGED <<mission, author, step>>

ReclaimOrphan ==
    /\ run.pc = "idle" /\ step.status = "running"
    /\ Settle("pending")
    /\ UNCHANGED <<mission, author, run, done, standing, faults>>

Retry ==
    /\ run.pc = "idle" /\ step.status = "failed" /\ faults < MaxFaults /\ faults' = faults + 1
    /\ Settle("pending")
    /\ UNCHANGED <<mission, author, run, done, standing>>

Attempt ==
    \/ Evaluate \/ Deny \/ RequestApproval \/ MakeReady \/ Start \/ CallTool \/ Guard \/ BeginCall
    \/ EndCall \/ RejectAnswer \/ Complete \/ Fail \/ ReclaimOrphan

Next ==
    \/ Attempt \/ Decide \/ WorkerDies \/ Retry
    \/ CreatePolicy \/ \E a \in Authors : ReadPolicy(a) \/ WritePolicy(a)

(* A worker goes on with its attempt: models and tools are given a time.   *)
Spec == Init /\ [][Next]_vars /\ WF_vars(Attempt)

-----------------------------------------------------------------------------
Policy == [status: Statuses, rule: Rules] \cup {NoPolicy}

(* Every variable has its type, and a run takes the turns it is given.     *)
TypeOK ==
    /\ policy \in [Policies -> Policy]
    /\ edit \in [Authors -> [id: Policies \cup {None}, copy: Policy]]
    /\ step \in [status: {"pending", "waiting", "ready", "running", "completed", "failed"},
                 approval: {"none", "pending", "approved", "rejected"}, named: SUBSET Writes]
    /\ run \in [pc: {"idle", "decided", "model", "guard", "call", "calling", "over"},
                outcome: {"none", "allow", "require_approval", "deny"}, tool: Tools \cup {None},
                approved: SUBSET Writes, turn: 0..MaxToolCalls, used: SUBSET Writes,
                begun: SUBSET Writes, wrote: SUBSET Tools, satisfied: SUBSET mission.required]
    /\ done \in [Writes -> Nat] /\ standing \subseteq Policies
    /\ edits \in 0..MaxEdits /\ faults \in 0..MaxFaults

Starts(t) == run.pc = "call" /\ run'.pc = "calling" /\ run.tool = t

(* A write starts only in a step a person approved, looking at that write. *)
WritesWereApproved ==
    [][\A w \in Writes : Starts(w) => step.approval = "approved" /\ w \in step.named]_vars

(* A tool does not start against a policy that has stood since the call.   *)
StandingDeniesHold ==
    [][\A t \in Tools : Starts(t) => "deny" \notin Effects(standing, "tool", {t})]_vars

(* A step is ready only when no policy that has stood since the question   *)
(* denies it, and approved when one, the planner, its skill or a write     *)
(* among the tools it needs asks for a person.                             *)
ReadyStepsAreDecided ==
    [][step.status # "ready" /\ step'.status = "ready" =>
        LET effects == Effects(standing, "task", mission.required)
        IN /\ "deny" \notin effects
           /\ \/ "require_approval" \in effects \/ mission.asks # "nobody"
              \/ mission.required \cap Writes # {}
                => step.approval = "approved"]_vars

(* One run calls an approved write once, however the call ended.           *)
OnceInARun == [][\A w \in Writes : Starts(w) => w \notin run.begun]_vars

(* A step is completed only by a run whose required calls came back well.  *)
RequiredCallsMade == run.pc = "over" => mission.required \subseteq run.wrote

(* Every run ends: the model cannot keep it in its turns.                  *)
RunsEnd == run.pc \notin {"idle", "over"} ~> run.pc \in {"idle", "over"}

(* An approved write takes effect once in its step.                        *)
ApprovedOnce == \A w \in Writes : done[w] <= 1

(* A policy that was archived stays so.                                    *)
ArchivedForGood == [][\A p \in Policies : policy[p].status = "archived" => policy'[p] = policy[p]]_vars
=============================================================================
