---------------------------- MODULE MissionPlanning ----------------------------
(***************************************************************************)
(* One mission from its creation to the run that first executes its plan:  *)
(* the requests that launch, prepare, plan, start, retry and cancel it,    *)
(* the launcher that plans it inside the API, and the worker that plans a  *)
(* scheduled run itself before executing it.                               *)
(*                                                                         *)
(* One action is one repository call.  A plan is written step by step and  *)
(* the mission last, from the copy read before the model was asked; the    *)
(* only compare-and-swap is beginPlanning.  Executing the steps is left to *)
(* MissionLifecycle: here a run reads the steps and ends.                  *)
(***************************************************************************)
EXTENDS Naturals, FiniteSets

CONSTANTS
    Requests,     \* API requests that can be in flight together
    Worker,       \* the attempt that executes the mission's job
    Ops,          \* what requests ask for
    Origins,      \* who made the mission: "person", "schedule"
    PlanSize,     \* steps of every plan the planner answers
    Throws,       \* where planning may throw once it has begun: asking the model,
                  \* reading and writing the mission and its steps, recording events
    MaxAttempts,  \* max_attempts of the mission's jobs
    Apart,        \* bound: people leave the planning of scheduled runs to the worker
    SlowPlans,    \* bound: whether a plan may take longer than planningStaleAfterMs
    Patient,      \* bound: nobody cancels or asks for a plan before the requests made so
                  \* far were answered, or asks for a second plan; a model's answer takes
                  \* longer than a request's own checks
    MaxRequests,  \* bound: requests of a behaviour
    MaxFaults     \* bound: worker deaths, API restarts and thrown errors

ASSUME PlanningAssumption ==
    /\ Worker \notin Requests
    /\ Ops \subseteq {"launch", "prepare", "plan", "start", "retry", "cancel"}
    /\ Origins \subseteq {"person", "schedule"}
    /\ Throws \subseteq {"model", "recheck", "create", "finish", "record"}
    /\ PlanSize \in Nat \ {0} /\ MaxAttempts \in Nat \ {0}
    /\ {Apart, SlowPlans, Patient} \subseteq BOOLEAN
    /\ MaxRequests \in Nat /\ MaxFaults \in Nat

VARIABLES
    origin,    \* who made the mission
    work,      \* its row: status, whether it has metadata.plan, is old
    retried,   \* whether anybody ever retried it (history, nobody reads it)
    steps,     \* its tasks, each <<planning call, number>>
    queue,     \* its job
    tracked,   \* MissionLauncher.inFlight
    call,      \* request or worker -> what it has left to do and the copy it holds
    starting,  \* whether the API process is starting up
    plans,     \* planning calls so far
    made,      \* requests so far
    faults     \* faults so far

rows == <<work, steps>>
vars == <<origin, work, retried, steps, queue, tracked, call, starting, plans, made, faults>>

Callers  == Requests \cup {Worker}
Ended    == {"completed", "failed", "cancelled"}
Statuses == {"queued", "planning", "executing"} \cup Ended

NewWork == [status |-> "queued", plan |-> FALSE, stale |-> FALSE]
NoCall  == [op |-> "none", pc |-> "idle", copy |-> NewWork, plan |-> 0, made |-> 0]

Init ==
    /\ origin \in Origins
    /\ work = NewWork
    /\ retried = FALSE
    /\ steps = {}
    /\ queue = IF origin = "schedule" THEN [status |-> "queued", reason |-> "scheduled", attempts |-> 0]
                                      ELSE [status |-> "idle", reason |-> "none", attempts |-> 0]
    /\ tracked = FALSE
    /\ call = [c \in Callers |-> NoCall]
    /\ starting = FALSE
    /\ plans = 0 /\ made = 0 /\ faults = 0

(* How a call goes on.                                                     *)
At(c, p)    == call[c].pc = p
Becomes(c, r) == call' = [call EXCEPT ![c] = r]
Goto(c, p)  == Becomes(c, [call[c] EXCEPT !.pc = p])
Answer(c)   == Becomes(c, NoCall)
Writes(w)   == work' = [w EXCEPT !.stale = FALSE]
Fault       == faults < MaxFaults /\ faults' = faults + 1
Bounds      == UNCHANGED <<origin, retried, starting, made, faults>>

(* enqueueWork: the mission's active job, or a new one.                    *)
Enqueued(reason) == queue' = IF queue.status = "idle"
                             THEN [status |-> "queued", reason |-> reason, attempts |-> 0]
                             ELSE queue

-----------------------------------------------------------------------------
(* planWork, whoever calls it.                                             *)

Planning == {"read", "mark", "model", "recheck", "create", "finish", "record", "fail", "undo", "lost"}

(* An error before planning has begun: nothing is recorded on the mission. *)
PlanRefused(c) == /\ Goto(c, IF c = Worker THEN "failjob" ELSE "settle")
                  /\ UNCHANGED plans

ReadForPlan(c) ==
    /\ At(c, "read")
    /\ CASE work.status = "planning" ->
              /\ Becomes(c, [call[c] EXCEPT !.pc = "model", !.copy = work, !.plan = plans + 1])
              /\ plans' = plans + 1
         [] work.status = "queued" ->
              /\ Becomes(c, [call[c] EXCEPT !.pc = "mark", !.copy = work, !.plan = plans + 1])
              /\ plans' = plans + 1
         [] OTHER -> PlanRefused(c)
    /\ UNCHANGED <<rows, queue, tracked>> /\ Bounds

MarkPlanning(c) ==
    /\ At(c, "mark")
    /\ Writes([call[c].copy EXCEPT !.status = "planning"])
    /\ Goto(c, "model")
    /\ UNCHANGED <<steps, queue, tracked, plans>> /\ Bounds

BeingPlanned == \E c \in Callers : call[c].pc \in Planning

(* Launch and prepare are answered once planning was marked as begun.      *)
Unanswered == {c \in Requests : call[c].pc \notin Planning \cup {"idle", "planned", "settle"}}

(* The planner answers; what it was asked for may have changed meanwhile.  *)
AskModel(c) ==
    /\ At(c, "model")
    /\ Patient => Unanswered = {}
    /\ Goto(c, "recheck")
    /\ UNCHANGED <<rows, queue, tracked, plans>> /\ Bounds

Recheck(c) ==
    /\ At(c, "recheck")
    /\ IF work.status = "planning" THEN Goto(c, "create")
       ELSE Becomes(c, [call[c] EXCEPT !.pc = "planned", !.copy = work])
    /\ UNCHANGED <<rows, queue, tracked, plans>> /\ Bounds

(* One step at a time is given a skill and an agent and created.           *)
AfterStep(n) == IF n < PlanSize THEN "create" ELSE "finish"

CreateStep(c) ==
    /\ At(c, "create")
    /\ LET n == call[c].made + 1
       IN /\ steps' = steps \cup {<<call[c].plan, n>>}
          /\ Becomes(c, [call[c] EXCEPT !.made = n, !.pc = AfterStep(n)])
    /\ UNCHANGED <<work, queue, tracked, plans>> /\ Bounds

(* What the plan leaves of the mission.                                    *)
Planned(copy) == [copy EXCEPT !.status = "queued", !.plan = TRUE]

FinishPlan(c) ==
    /\ At(c, "finish")
    /\ Writes(Planned(call[c].copy))
    /\ Goto(c, "record")
    /\ UNCHANGED <<steps, queue, tracked, plans>> /\ Bounds

(* The plan is put on record, and returned.                                *)
RecordPlan(c) ==
    /\ At(c, "record")
    /\ Becomes(c, [call[c] EXCEPT !.pc = "planned", !.copy = Planned(call[c].copy)])
    /\ UNCHANGED <<rows, queue, tracked, plans>> /\ Bounds

(* The model cannot be reached, a step needs a skill, a tool or an agent   *)
(* that is not there, or the database refuses a statement: the mission     *)
(* fails, also when all that was left was to put its plan on record.       *)
PlanThrows(c) ==
    /\ \E p \in Throws : At(c, p)
    /\ Fault
    /\ Goto(c, IF At(c, "record") THEN "undo" ELSE "fail")
    /\ UNCHANGED <<rows, retried, queue, tracked, plans, origin, starting, made>>

RecordPlanFailure(c) ==
    /\ At(c, "fail") \/ At(c, "undo")
    /\ Writes([call[c].copy EXCEPT !.status = "failed"])
    /\ PlanRefused(c)
    /\ UNCHANGED <<steps, queue, tracked>> /\ Bounds

(* What is outside the try throws, down to the record that planning began, *)
(* or writing the failure does: the mission stays as it is.                *)
LosePlan(c) ==
    /\ \E p \in {"read", "mark", "model", "fail", "undo"} : At(c, p)
    /\ Fault
    /\ Goto(c, "lost")
    /\ UNCHANGED <<rows, retried, queue, tracked, plans, origin, starting, made>>

PlanLost(c) ==
    /\ At(c, "lost")
    /\ PlanRefused(c)
    /\ UNCHANGED <<rows, queue, tracked>> /\ Bounds

PlanStep(c) ==
    \/ ReadForPlan(c) \/ MarkPlanning(c) \/ AskModel(c) \/ Recheck(c) \/ CreateStep(c)
    \/ FinishPlan(c) \/ RecordPlan(c) \/ PlanThrows(c) \/ RecordPlanFailure(c)
    \/ LosePlan(c) \/ PlanLost(c)

-----------------------------------------------------------------------------
(* The API.  A request begins with the read its checks are made on.        *)

Opens(c, op, p) ==
    /\ op \in Ops /\ At(c, "idle") /\ c # Worker
    /\ ~starting
    /\ Patient => \A d \in Requests : call[d].op \notin {"cancel", "plan"}
    /\ made < MaxRequests /\ made' = made + 1
    /\ Becomes(c, [NoCall EXCEPT !.op = op, !.pc = p, !.copy = work])
    /\ UNCHANGED <<origin, rows, retried, queue, tracked, starting, plans, faults>>

MayBePlanned == origin = "person" \/ ~Apart

(* POST launch and prepare: waiting, without a plan, and not being planned *)
(* by this process.                                                        *)
OpenLaunch(c) ==
    \E op \in {"launch", "prepare"} :
        /\ MayBePlanned
        /\ work.status = "queued" /\ ~work.plan /\ ~tracked
        /\ Opens(c, op, "begin")

(* beginPlanning, and the launch it admits, which nothing comes between.   *)
BeginPlanning(c) ==
    /\ c # Worker /\ At(c, "begin")
    /\ IF work.status = "queued"
       THEN /\ Writes([work EXCEPT !.status = "planning"])
            /\ IF tracked THEN Answer(c) /\ UNCHANGED tracked
                          ELSE Goto(c, "read") /\ tracked' = TRUE
       ELSE Answer(c) /\ UNCHANGED <<work, tracked>>
    /\ UNCHANGED <<steps, queue, plans>> /\ Bounds

(* POST plan: only a launch of this process keeps it out.                  *)
OpenPlan(c) ==
    /\ MayBePlanned /\ ~tracked
    /\ Patient => work.status = "queued" /\ ~work.plan /\ ~BeingPlanned /\ Unanswered = {}
    /\ Opens(c, "plan", "read")

(* A launch queues the mission its plan left waiting; planWork threw, or   *)
(* the mission is only prepared: nothing is queued.                        *)
AfterPlan(c) ==
    /\ c # Worker /\ At(c, "planned")
    /\ IF call[c].op = "launch" /\ call[c].copy.status = "queued" THEN Enqueued("requested") ELSE UNCHANGED queue
    /\ Goto(c, "settle")
    /\ UNCHANGED <<rows, tracked, plans>> /\ Bounds

Settle(c) ==
    /\ At(c, "settle")
    /\ tracked' = IF call[c].op = "plan" THEN tracked ELSE FALSE
    /\ Answer(c)
    /\ UNCHANGED <<rows, queue, plans>> /\ Bounds

(* POST execute: planned and waiting, or started and left; no active job.  *)
OpenStart(c) == work.status \in {"queued", "executing"} /\ Opens(c, "start", "check")

CheckStart(c) ==
    /\ At(c, "check")
    /\ IF queue.status = "idle" /\ steps # {} THEN Goto(c, "enqueue") ELSE Answer(c)
    /\ UNCHANGED <<rows, queue, tracked, plans>> /\ Bounds

Enqueue(c) ==
    /\ At(c, "enqueue")
    /\ Enqueued(IF call[c].op = "retry" THEN "retry" ELSE "requested")
    /\ Answer(c)
    /\ UNCHANGED <<rows, tracked, plans>> /\ Bounds

(* POST retry: with steps the plan is resumed and queued, without it is    *)
(* left to be planned again.                                               *)
OpenRetry(c) == work.status = "failed" /\ Opens(c, "retry", "list")

ListForRetry(c) ==
    /\ At(c, "list")
    /\ Goto(c, IF steps = {} THEN "replan" ELSE "resume")
    /\ UNCHANGED <<rows, queue, tracked, plans>> /\ Bounds

WriteRetried(c) ==
    /\ At(c, "replan") \/ At(c, "resume")
    /\ Writes([call[c].copy EXCEPT !.status = "queued"])
    /\ retried' = TRUE
    /\ IF At(c, "resume") THEN Goto(c, "enqueue") ELSE Answer(c)
    /\ UNCHANGED <<origin, steps, queue, tracked, starting, plans, made, faults>>

(* POST cancel: refused while the plan is being written, unless it has     *)
(* been so for too long, and while a worker runs the mission.              *)
(* Mutant: a mission being planned is cancelled like any other.            *)
MutCancelsPlanning(w) == w.status \notin {"completed", "cancelled"}

Cancellable(w) == /\ w.status \notin {"completed", "cancelled"}
                  /\ w.status = "planning" => w.stale

OpenCancel(c) ==
    /\ Cancellable(work)
    /\ Patient => Unanswered = {}
    /\ Opens(c, "cancel", "withdraw")

WithdrawJob(c) ==
    /\ At(c, "withdraw")
    /\ IF queue.status = "running" THEN Answer(c) /\ UNCHANGED queue
       ELSE Goto(c, "cancel") /\ queue' = [queue EXCEPT !.status = "idle"]
    /\ UNCHANGED <<rows, tracked, plans>> /\ Bounds

WriteCancelled(c) ==
    /\ At(c, "cancel")
    /\ Writes([call[c].copy EXCEPT !.status = "cancelled"])
    /\ Answer(c)
    /\ UNCHANGED <<steps, queue, tracked, plans>> /\ Bounds

RequestStep(c) ==
    \/ BeginPlanning(c) \/ AfterPlan(c) \/ Settle(c) \/ CheckStart(c) \/ Enqueue(c)
    \/ ListForRetry(c) \/ WriteRetried(c) \/ WithdrawJob(c) \/ WriteCancelled(c)

-----------------------------------------------------------------------------
(* The worker.                                                             *)

ClaimJob ==
    /\ queue.status = "queued" /\ At(Worker, "idle")
    /\ queue' = [queue EXCEPT !.status = "running", !.attempts = @ + 1]
    /\ Becomes(Worker, [NoCall EXCEPT
            !.op = queue.reason, !.pc = IF queue.reason = "scheduled" THEN "prepare" ELSE "enter"])
    /\ UNCHANGED <<rows, tracked, plans>> /\ Bounds

(* planScheduledRun: the mission, then its steps.                          *)
ReadRun ==
    /\ At(Worker, "prepare")
    /\ Becomes(Worker, [call[Worker] EXCEPT !.copy = work,
            !.pc = IF work.status \in {"queued", "planning"} THEN "listed" ELSE "enter"])
    /\ UNCHANGED <<rows, queue, tracked, plans>> /\ Bounds

(* Mutant: a run found half-planned is planned again on top of its steps.  *)
MutPlansAgain(status) == IF status = "queued" THEN "enter" ELSE "read"

WithSteps(status) == IF status = "queued" THEN "enter" ELSE "interrupted"

ListRunSteps ==
    /\ At(Worker, "listed")
    /\ Goto(Worker, IF steps # {} THEN WithSteps(call[Worker].copy.status)
                    ELSE IF call[Worker].copy.status = "queued" THEN "begin" ELSE "read")
    /\ UNCHANGED <<rows, queue, tracked, plans>> /\ Bounds

(* Whether the mark was its own, the worker does not ask.                  *)
BeginRun ==
    /\ At(Worker, "begin")
    /\ IF work.status = "queued" THEN Writes([work EXCEPT !.status = "planning"]) ELSE UNCHANGED work
    /\ Goto(Worker, "read")
    /\ UNCHANGED <<steps, queue, tracked, plans>> /\ Bounds

(* Planned: go on to execute, unless the mission was cancelled meanwhile.  *)
RunPlanned ==
    /\ At(Worker, "planned")
    /\ Goto(Worker, IF call[Worker].copy.status = "queued" THEN "enter" ELSE "close")
    /\ UNCHANGED <<rows, queue, tracked, plans>> /\ Bounds

(* executeWork: the mission, its start, then its steps.                    *)
EnterRun ==
    /\ At(Worker, "enter")
    /\ Becomes(Worker, [call[Worker] EXCEPT !.copy = work,
            !.pc = CASE work.status = "queued" -> "start"
                     [] work.status = "executing" -> "load"
                     [] work.status = "completed" -> "close"
                     [] OTHER -> "threw"])
    /\ UNCHANGED <<rows, queue, tracked, plans>> /\ Bounds

StartRun ==
    /\ At(Worker, "start")
    /\ Writes([call[Worker].copy EXCEPT !.status = "executing"])
    /\ Goto(Worker, "load")
    /\ UNCHANGED <<steps, queue, tracked, plans>> /\ Bounds

LoadSteps ==
    /\ At(Worker, "load")
    /\ Goto(Worker, IF steps = {} THEN "failed" ELSE "run")
    /\ UNCHANGED <<rows, queue, tracked, plans>> /\ Bounds

(* The steps were executed; the mission ends one way or the other.         *)
EndRun ==
    /\ \/ At(Worker, "run") /\ \E s \in {"completed", "failed"} :
            Writes([call[Worker].copy EXCEPT !.status = s])
       \/ At(Worker, "failed") /\ Writes([call[Worker].copy EXCEPT !.status = "failed"])
    /\ Goto(Worker, "close")
    /\ UNCHANGED <<steps, queue, tracked, plans>> /\ Bounds

(* The attempt threw: another one later, or the mission is written failed. *)
RunThrew ==
    /\ At(Worker, "threw")
    /\ IF queue.attempts < MaxAttempts
       THEN /\ queue' = [queue EXCEPT !.status = "queued"]
            /\ Answer(Worker)
       ELSE UNCHANGED queue /\ Goto(Worker, "interrupted")
    /\ UNCHANGED <<rows, tracked, plans>> /\ Bounds

(* recordWorkFailure, and with it the end of the job.                      *)
(* Mutant: the job fails and the mission is left as it was.                *)
MutNotRecorded(status) == FALSE

RecordsFailureOn(status) == status \notin {"completed", "failed"}

RecordRunFailure ==
    /\ At(Worker, "interrupted")
    /\ IF RecordsFailureOn(work.status) THEN Writes([work EXCEPT !.status = "failed"]) ELSE UNCHANGED work
    /\ Goto(Worker, "close")
    /\ UNCHANGED <<steps, queue, tracked, plans>> /\ Bounds

CloseJob ==
    /\ At(Worker, "close") \/ At(Worker, "failjob")
    /\ queue' = [queue EXCEPT !.status = "idle"]
    /\ Answer(Worker)
    /\ UNCHANGED <<rows, tracked, plans>> /\ Bounds

WorkerStep ==
    \/ ClaimJob \/ ReadRun \/ ListRunSteps \/ BeginRun \/ RunPlanned \/ EnterRun \/ StartRun
    \/ LoadSteps \/ EndRun \/ RunThrew \/ RecordRunFailure \/ CloseJob

-----------------------------------------------------------------------------
(* Failures and time.                                                      *)

WorkerDies ==
    /\ ~At(Worker, "idle") /\ Fault
    /\ Answer(Worker)
    /\ UNCHANGED <<origin, rows, retried, queue, tracked, starting, plans, made>>

(* A lapsed lease: another attempt, or fail_expired_execution_job.         *)
RecoverJob ==
    /\ queue.status = "running" /\ At(Worker, "idle")
    /\ IF queue.attempts < MaxAttempts
       THEN queue' = [queue EXCEPT !.status = "queued"] /\ UNCHANGED work
       ELSE /\ queue' = [queue EXCEPT !.status = "idle"]
            /\ IF work.status \in Ended THEN UNCHANGED work ELSE Writes([work EXCEPT !.status = "failed"])
    /\ UNCHANGED <<steps, tracked, call, plans>> /\ Bounds

(* The API stops: its requests, its launches and what it tracked are gone. *)
ApiRestarts ==
    /\ Fault
    /\ starting' = TRUE
    /\ tracked' = FALSE
    /\ call' = [c \in Callers |-> IF c = Worker THEN call[c] ELSE NoCall]
    /\ UNCHANGED <<origin, rows, retried, queue, plans, made>>

(* Reconciliation at startup: old, being planned or executed, and no       *)
(* active job.                                                             *)
Abandoned == work.status \in {"planning", "executing"} /\ work.stale /\ queue.status = "idle"

AbandonedBecomes == "failed"

ApiStarted ==
    /\ starting
    /\ starting' = FALSE
    /\ IF Abandoned THEN Writes([work EXCEPT !.status = AbandonedBecomes]) ELSE UNCHANGED work
    /\ UNCHANGED <<origin, retried, steps, queue, tracked, call, plans, made, faults>>

(* Nothing has written the mission for planningStaleAfterMs.               *)
TimePasses ==
    /\ ~work.stale /\ work.status = "planning"
    /\ SlowPlans \/ ~BeingPlanned
    /\ work' = [work EXCEPT !.stale = TRUE]
    /\ UNCHANGED <<origin, retried, steps, queue, tracked, call, starting, plans, made, faults>>

Open(c) == \/ OpenLaunch(c) \/ OpenPlan(c) \/ OpenStart(c) \/ OpenRetry(c) \/ OpenCancel(c)

Next ==
    \/ \E c \in Callers : PlanStep(c)
    \/ \E c \in Requests : Open(c) \/ RequestStep(c)
    \/ WorkerStep
    \/ WorkerDies \/ RecoverJob \/ ApiRestarts \/ ApiStarted \/ TimePasses

Spec == Init /\ [][Next]_vars

(* Planning ends, because the model and every call to it time out; workers *)
(* poll and leases lapse.  Nobody has to ask for anything.                 *)
Fairness ==
    /\ \A c \in Callers : WF_vars(PlanStep(c))
    /\ \A c \in Requests : WF_vars(RequestStep(c))
    /\ WF_vars(WorkerStep) /\ WF_vars(RecoverJob) /\ WF_vars(ApiStarted)

FairSpec == Spec /\ Fairness

-----------------------------------------------------------------------------
Row == [status: Statuses, plan: BOOLEAN, stale: BOOLEAN]

(* Every variable has its type.                                            *)
TypeOK ==
    /\ origin \in {"person", "schedule"}
    /\ work \in Row /\ retried \in BOOLEAN
    /\ steps \in SUBSET ((1 .. plans) \X (1 .. PlanSize))
    /\ queue \in [status: {"idle", "queued", "running"},
                  reason: {"none", "requested", "retry", "scheduled"}, attempts: 0 .. MaxAttempts]
    /\ tracked \in BOOLEAN
    /\ call \in [Callers -> [op: Ops \cup {"none", "requested", "retry", "scheduled"},
                             pc: Planning \cup {"idle", "begin", "planned", "settle", "check",
                                 "enqueue", "list", "replan", "resume", "withdraw", "cancel",
                                 "prepare", "listed", "enter", "start", "load", "run", "failed",
                                 "threw", "interrupted", "close", "failjob"},
                             copy: Row, plan: 0 .. plans, made: 0 .. PlanSize]]
    /\ starting \in BOOLEAN
    /\ plans \in Nat /\ made \in Nat /\ faults \in Nat

PlansIn(S) == {s[1] : s \in S}

Whole(S) == \E p \in 1 .. plans : S = {p} \X (1 .. PlanSize)

(* What the worker executes is a whole plan, never the part of one that    *)
(* was written before planning failed or its process died.                 *)
RunsWholePlan == At(Worker, "run") => Whole(steps)

(* The steps of a mission nobody retried were all written by one planning  *)
(* call: launches, the worker and what restarts leave never plan it twice; *)
(* it says that it has a plan, and runs, only when it has all of it.       *)
OneWholePlan ==
    /\ TypeOK
    /\ ~retried =>
        /\ Cardinality(PlansIn(steps)) <= 1
        /\ work.plan => Whole(steps)
        /\ RunsWholePlan

(* A planner that has not written its plan yet writes nothing over a       *)
(* mission that was cancelled.  One that has, and cannot put it on record, *)
(* writes its failure over whatever came after (CancelStands).             *)
PlannerLeavesCancelled ==
    [][work.status = "cancelled" /\ work' # work =>
          \A c \in Callers : call[c].pc \in {"mark", "finish", "fail"} => call'[c] = call[c]]_vars

(* Once planning has begun, a cancellation and the planner cannot race: it *)
(* is refused until the planner has nothing left to write.                 *)
CancelStands ==
    [][work.status = "cancelled" /\ work' # work =>
          \A c \in Callers : call[c].pc \in Planning => call'[c] = call[c]]_vars

(* A mission stays in planning for ever only if the API process was        *)
(* restarted or a statement outside planWork's try, or in its catch,       *)
(* failed: every other plan ends, whoever writes it, and what a dead       *)
(* worker left half-planned is ended by its job's next attempt or failure. *)
PlanningEnds == <>[](work.status = "planning") => <>(starting \/ \E c \in Callers : At(c, "lost"))

(* Planning that fails is recorded as such on the mission.                 *)
FailedPlanIsRecorded == <>[](work.status = "planning") => <>starting
=============================================================================
