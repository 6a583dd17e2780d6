--------------------------- MODULE MissionLifecycle ---------------------------
(***************************************************************************)
(* One mission: its works row, its tasks and the approvals raised for      *)
(* them, written by the worker attempt that executes it and by the API     *)
(* requests that start, decide, retry and cancel it.                       *)
(*                                                                         *)
(* One action is one repository call.  Almost all of them write a whole    *)
(* row from a copy read earlier, so every actor keeps the copies it holds: *)
(* snap and exec for the worker, req[c].rows for a request.  Only          *)
(* claimReadyForExecution, resolvePending and the job's cancel compare     *)
(* before they write.                                                      *)
(*                                                                         *)
(* The mission's queue job is the abstract slot module ExecutionQueue      *)
(* implements: at most one active job, and an attempt that lost its claim  *)
(* writes nothing more, so it simply ends here.  The mission is planned.   *)
(***************************************************************************)
EXTENDS Naturals, FiniteSets

CONSTANTS
    Tasks,               \* the steps of the plan
    Deps,                \* task -> the tasks it depends on
    Asks,                \* tasks the planner or a policy puts before a person
    MayBeRefused,        \* tasks a policy may deny, or whose agent may be unfit
    Approvals,           \* identifiers for rows of approval_requests
    Requests,            \* API requests that can be in flight together
    Ops,                 \* what requests ask for
    None,                \* SQL null
    MaxAttempts,         \* max_attempts of the mission's jobs
    MaxConcurrentTasks,  \* steps one turn of the runner executes together
    Patient,             \* bound: decisions and retries wait until no job is active
    MaxRequests,         \* bound: requests of a behaviour
    MaxFaults,           \* bound: worker deaths and thrown errors
    MaxLostWrites,       \* bound: final task writes the database refuses
    MaxUnrecorded,       \* bound: completed steps whose event is not recorded
    Cuttable,            \* bound: what the requests that may be cut short ask for
    MaxCuts,             \* bound: requests cut short
    MaxChanges           \* bound: changes of what a step would do

ASSUME LifecycleAssumption ==
    /\ Deps \in [Tasks -> SUBSET Tasks]
    /\ Asks \subseteq Tasks /\ MayBeRefused \subseteq Tasks
    /\ Ops \subseteq {"start", "approve", "reject", "retry", "cancel"}
    /\ None \notin Approvals /\ None \notin Nat
    /\ MaxAttempts \in Nat \ {0}
    /\ MaxConcurrentTasks \in Nat \ {0}
    /\ Patient \in BOOLEAN
    /\ MaxRequests \in Nat /\ MaxFaults \in Nat
    /\ MaxLostWrites \in Nat /\ MaxUnrecorded \in Nat /\ MaxChanges \in Nat
    /\ Cuttable \subseteq Ops /\ MaxCuts \in Nat

VARIABLES
    work,      \* works.status
    task,      \* the rows of tasks
    approval,  \* the rows of approval_requests
    slot,      \* the mission's job
    pc,        \* where the attempt running the mission is
    snap,      \* the tasks it last loaded
    todo,      \* tasks it still has to reclaim or mark
    raised,    \* the approval it has created and not yet put on the task
    exec,      \* task -> its executeTask call
    req,       \* request -> what it has left to do
    version,   \* task -> which action the step describes now
    made,      \* requests so far
    faults     \* faults so far: [thrown, lost, events, cut]

worker == <<pc, snap, todo, raised, exec>>
rows   == <<work, task, approval>>
bounds == <<version, made, faults>>
vars   == <<work, task, approval, slot, worker, req, bounds>>

TaskStatuses == {"pending", "ready", "running", "waiting", "completed", "failed",
                 "cancelled"}
Ended == {"completed", "failed", "cancelled"}

(* A task row: its status and metadata.approval, whose proposalHash is the *)
(* version of the action that was put before a person.                     *)
TaskRow == [status: TaskStatuses,
            decision: {"none", "pending", "approved", "rejected", "superseded"},
            request: Approvals \cup {None}, hash: Nat \cup {None}]

ApprovalRow == [status: {"absent", "pending", "approved", "rejected", "cancelled"},
                task: Tasks \cup {None}, hash: Nat \cup {None}]

PlannedRow == [status |-> "pending", decision |-> "none", request |-> None, hash |-> None]
Planned    == [t \in Tasks |-> PlannedRow]
NoCall     == [pc |-> "off", row |-> PlannedRow, version |-> 0]
NoCalls    == [t \in Tasks |-> NoCall]
NoRequest  == [op |-> None, pc |-> "idle", approval |-> None, job |-> 0,
               rows |-> Planned, left |-> {}]

Init ==
    /\ work = "queued"
    /\ task = Planned
    /\ approval = [a \in Approvals |-> [status |-> "absent", task |-> None, hash |-> None]]
    /\ slot = [status |-> "idle", attempts |-> 0, job |-> 0, ended |-> None]
    /\ pc = "idle" /\ snap = Planned /\ todo = {} /\ raised = None /\ exec = NoCalls
    /\ req = [c \in Requests |-> NoRequest]
    /\ version = [t \in Tasks |-> 0]
    /\ made = 0
    /\ faults = [thrown |-> 0, lost |-> 0, events |-> 0, cut |-> 0]

With(ts, status)   == {t \in Tasks : ts[t].status = status}
Granted(row)       == row.decision = "approved"

(* Mutant: having been asked about once is enough.                         *)
MutAskedOnce(t, ts) == t \in Asks /\ ts[t].request = None

NeedsDecision(t, ts) == t \in Asks /\ ~Granted(ts[t])

(* Mutant: a step is eligible whatever it depends on.                      *)
MutIgnoresDeps(ts) == With(ts, "pending")

Eligible(ts) == {t \in With(ts, "pending") : \A d \in Deps[t] : ts[d].status = "completed"}

-----------------------------------------------------------------------------
(* The attempt: claim, reclaim, read the mission, then one turn after      *)
(* another until the mission ends or waits.                                *)

(* The attempt is at p and nothing else about it changes.                  *)
Goto(p) == pc' = p /\ UNCHANGED <<snap, todo, raised, exec>>

EndAttempt == /\ pc' = "idle" /\ snap' = Planned /\ todo' = {} /\ raised' = None
              /\ exec' = NoCalls

Claim ==
    /\ slot.status = "queued"
    /\ slot' = [slot EXCEPT !.status = "running", !.attempts = @ + 1]
    /\ Goto("orphans")
    /\ UNCHANGED <<rows, req, bounds>>

(* Tasks an earlier attempt left running go back to the plan, one write    *)
(* each.                                                                   *)
(* Mutant: the tasks of a dead attempt are left as they are.               *)
MutNoReclaim(ts) == {}

Orphans(ts) == With(ts, "running")

ReadOrphans ==
    /\ pc = "orphans"
    /\ snap' = task
    /\ todo' = Orphans(task)
    /\ pc' = "reclaim"
    /\ UNCHANGED <<rows, slot, raised, exec, req, bounds>>

ReclaimOrphan ==
    /\ pc = "reclaim"
    /\ \E t \in todo :
        /\ task' = [task EXCEPT ![t] = [snap[t] EXCEPT !.status = "pending"]]
        /\ todo' = todo \ {t}
    /\ UNCHANGED <<work, approval, slot, pc, snap, raised, exec, req, bounds>>

(* The first read of executeWork decides whether there is anything to do.  *)
EntersAt(w) == CASE w = "queued" -> "start"
                 [] w = "executing" -> "load"
                 [] w \in {"completed", "waiting_approval"} -> "complete"
                 [] OTHER -> "throw"

ReadWork ==
    /\ pc = "reclaim" /\ todo = {}
    /\ Goto(EntersAt(work))
    /\ UNCHANGED <<rows, slot, req, bounds>>

StartWork ==
    /\ pc = "start"
    /\ work' = "executing"
    /\ Goto("load")
    /\ UNCHANGED <<task, approval, slot, req, bounds>>

(* What a turn does with the tasks it loaded: stop for a failed task, then *)
(* for a waiting one, then because all are completed, else mark.           *)
(* Mutant: one completed step completes the mission.                       *)
MutFinishesEarly(ts) ==
    IF With(ts, "failed") # {} THEN "fail"
    ELSE IF With(ts, "waiting") # {} THEN "wait"
    ELSE IF With(ts, "completed") # {} THEN "finish"
    ELSE "mark"

TurnOf(ts) ==
    IF With(ts, "failed") # {} THEN "fail"
    ELSE IF With(ts, "waiting") # {} THEN "wait"
    ELSE IF With(ts, "completed") = Tasks THEN "finish"
    ELSE "mark"

Load ==
    /\ pc = "load"
    /\ snap' = task
    /\ pc' = TurnOf(task)
    /\ todo' = IF TurnOf(task) = "mark" THEN Eligible(task) ELSE {}
    /\ UNCHANGED <<rows, slot, raised, exec, req, bounds>>

(* The three ways a turn ends the mission's run, and failWork.             *)
WriteWork(p, status, next) ==
    /\ pc = p
    /\ work' = status
    /\ Goto(next)
    /\ UNCHANGED <<task, approval, slot, req, bounds>>

WaitForDecision == WriteWork("wait", "waiting_approval", "complete")
FinishWork      == WriteWork("finish", "completed", "complete")
FailWork        == WriteWork("fail", "failed", "failjob")
NoTaskReady     == WriteWork("stuck", "failed", "failjob")

-----------------------------------------------------------------------------
(* markReadyTasks: every eligible task of the snapshot is denied, put      *)
(* before a person, or made ready.                                         *)

WriteTask(t, row) == task' = [task EXCEPT ![t] = row]

DenyTask ==
    /\ pc = "mark"
    /\ \E t \in todo \cap MayBeRefused :
        /\ WriteTask(t, [snap[t] EXCEPT !.status = "failed"])
        /\ todo' = todo \ {t}
    /\ UNCHANGED <<work, approval, slot, pc, snap, raised, exec, req, bounds>>

MarkReady ==
    /\ pc = "mark"
    /\ \E t \in todo :
        /\ ~NeedsDecision(t, snap)
        /\ WriteTask(t, [snap[t] EXCEPT !.status = "ready"])
        /\ todo' = todo \ {t}
    /\ UNCHANGED <<work, approval, slot, pc, snap, raised, exec, req, bounds>>

(* requestApproval: a task whose approval is still pending is returned as  *)
(* it is; otherwise the approval is created first, in a write of its own.  *)
(* Mutant: an approval that was decided counts as still asked.             *)
MutAskedEver(row) == row.request # None

AlreadyAsked(row) == row.request # None /\ approval[row.request].status = "pending"

SkipAsked ==
    /\ pc = "mark"
    /\ \E t \in todo :
        /\ NeedsDecision(t, snap) /\ AlreadyAsked(snap[t])
        /\ todo' = todo \ {t}
    /\ UNCHANGED <<rows, slot, pc, snap, raised, exec, req, bounds>>

Unused == {a \in Approvals : approval[a].status = "absent"}

RaiseApproval ==
    /\ pc = "mark"
    /\ Unused # {}
    /\ \E t \in todo : LET a == CHOOSE x \in Unused : TRUE IN
        /\ NeedsDecision(t, snap) /\ ~AlreadyAsked(snap[t])
        /\ approval' = [approval EXCEPT ![a] =
                          [status |-> "pending", task |-> t, hash |-> version[t]]]
        /\ raised' = a
        /\ pc' = "raised"
    /\ UNCHANGED <<work, task, slot, snap, todo, exec, req, bounds>>

(* ... and the task is put on hold afterwards, from the copy.              *)
HoldTask ==
    /\ pc = "raised"
    /\ LET a == raised  t == approval[raised].task IN
        /\ WriteTask(t, [status |-> "waiting", decision |-> "pending", request |-> a,
                         hash |-> approval[a].hash])
        /\ todo' = todo \ {t}
    /\ raised' = None
    /\ pc' = "mark"
    /\ UNCHANGED <<work, approval, slot, snap, exec, req, bounds>>

(* The reload after marking.  A waiting task sends the runner back to the  *)
(* top of the turn with these rows; ready ones are executed, at most       *)
(* MaxConcurrentTasks of them; otherwise the run stops here.               *)
AfterMarks(ts) ==
    IF With(ts, "waiting") # {} THEN TurnOf(ts)
    ELSE IF With(ts, "ready") # {} THEN "execute"
    ELSE IF With(ts, "running") # {} THEN "complete"
    ELSE "stuck"

Batches(ts) == {b \in SUBSET With(ts, "ready") :
                  \/ b = With(ts, "ready") /\ Cardinality(b) <= MaxConcurrentTasks
                  \/ Cardinality(b) = MaxConcurrentTasks}

Reload ==
    /\ pc = "mark" /\ todo = {}
    /\ snap' = task
    /\ pc' = AfterMarks(task)
    /\ IF AfterMarks(task) = "execute"
       THEN \E b \in Batches(task) :
              exec' = [t \in Tasks |-> IF t \in b THEN [NoCall EXCEPT !.pc = "check"]
                                       ELSE NoCall]
       ELSE UNCHANGED exec
    /\ UNCHANGED <<rows, slot, todo, raised, req, bounds>>
-----------------------------------------------------------------------------
(* executeTask, for every task of the batch at once.                       *)

At(t, p) == pc = "execute" /\ exec[t].pc = p
Call(t, p) == exec' = [exec EXCEPT ![t].pc = p]
EndCall(t) == exec' = [exec EXCEPT ![t] = NoCall]

(* Whether the step still describes the action that was approved.  An      *)
(* approval that carries no fingerprint is not checked.                    *)
(* Mutant: the action is not described again before the step runs.         *)
MutNoDrift(t, row) == FALSE

Drifted(t, row) == Granted(row) /\ row.hash # None /\ row.hash # version[t]

Begin(t) ==
    /\ At(t, "check")
    /\ LET row == task[t] IN
        exec' = [exec EXCEPT ![t] =
            IF row.status \in {"completed", "running"} THEN NoCall
            ELSE IF row.status # "ready" THEN [NoCall EXCEPT !.pc = "rejected"]
            ELSE [pc |-> IF Drifted(t, row) THEN "hold" ELSE "claim",
                  row |-> row, version |-> version[t]]]
    /\ UNCHANGED <<rows, slot, pc, snap, todo, raised, req, bounds>>

(* The agent is missing or not active: the call rejects, the row is ready.  *)
AgentUnfit(t) ==
    /\ t \in MayBeRefused
    /\ At(t, "check") /\ task[t].status = "ready"
    /\ Call(t, "rejected")
    /\ UNCHANGED <<rows, slot, pc, snap, todo, raised, req, bounds>>

StopForNewApproval(t) ==
    /\ At(t, "hold")
    /\ WriteTask(t, [exec[t].row EXCEPT !.status = "pending", !.decision = "superseded",
                                        !.hash = None])
    /\ EndCall(t)
    /\ UNCHANGED <<work, approval, slot, pc, snap, todo, raised, req, bounds>>

(* claimReadyForExecution: only a ready row is claimed.                    *)
Claimable(row) == row.status = "ready"

ClaimTask(t) ==
    /\ At(t, "claim")
    /\ IF Claimable(task[t])
       THEN /\ WriteTask(t, [task[t] EXCEPT !.status = "running"])
            /\ exec' = [exec EXCEPT ![t].pc = "engine",
                                    ![t].row = [task[t] EXCEPT !.status = "running"]]
       ELSE EndCall(t) /\ UNCHANGED task
    /\ UNCHANGED <<work, approval, slot, pc, snap, todo, raised, req, bounds>>

(* The result is written first; that the step completed is recorded after  *)
(* it, in the same try.                                                    *)
EngineEnds(t) ==
    /\ At(t, "engine")
    /\ \E status \in {"completed", "failed"} :
        /\ WriteTask(t, [exec[t].row EXCEPT !.status = status])
        /\ IF status = "completed" THEN Call(t, "record") ELSE EndCall(t)
    /\ UNCHANGED <<work, approval, slot, pc, snap, todo, raised, req, bounds>>

StepRecorded(t) ==
    /\ At(t, "record")
    /\ EndCall(t)
    /\ UNCHANGED <<rows, slot, pc, snap, todo, raised, req, bounds>>

(* The record throws: the catch writes the step failed, from the row it    *)
(* claimed, over the result.  (If recording that throws as well, the       *)
(* rejected call finds the row failed and leaves it.)                      *)
RecordThrows(t) ==
    /\ At(t, "record")
    /\ faults.events < MaxUnrecorded
    /\ faults' = [faults EXCEPT !.events = @ + 1]
    /\ WriteTask(t, [exec[t].row EXCEPT !.status = "failed"])
    /\ EndCall(t)
    /\ UNCHANGED <<work, approval, slot, pc, snap, todo, raised, req, version, made>>

(* The final write is refused, and so is the one that would record that:   *)
(* executeTask rejects and the row stays running.                          *)
EngineResultLost(t) ==
    /\ At(t, "engine")
    /\ faults.lost < MaxLostWrites
    /\ faults' = [faults EXCEPT !.lost = @ + 1]
    /\ Call(t, "rejected")
    /\ UNCHANGED <<rows, slot, pc, snap, todo, raised, req, version, made>>

(* Once every call has settled, a rejected one fails its task, if the task *)
(* still reads as ready.                                                   *)
CallsSettled == \A t \in Tasks : exec[t].pc \in {"off", "rejected", "refused"}

ReadRejected(t) ==
    /\ At(t, "rejected") /\ CallsSettled
    /\ exec' = [exec EXCEPT ![t] = IF task[t].status = "ready"
                                   THEN [NoCall EXCEPT !.pc = "refused", !.row = task[t]]
                                   ELSE NoCall]
    /\ UNCHANGED <<rows, slot, pc, snap, todo, raised, req, bounds>>

FailRejected(t) ==
    /\ At(t, "refused")
    /\ WriteTask(t, [exec[t].row EXCEPT !.status = "failed"])
    /\ EndCall(t)
    /\ UNCHANGED <<work, approval, slot, pc, snap, todo, raised, req, bounds>>

BatchEnds ==
    /\ pc = "execute" /\ exec = NoCalls
    /\ Goto("load")
    /\ UNCHANGED <<rows, slot, req, bounds>>

-----------------------------------------------------------------------------
(* Settling the job, and the errors that end an attempt early.             *)

(* Mutant: settling leaves the job running.                                *)
MutStaysRunning(status) == slot' = [slot EXCEPT !.ended = status]

SettleSlot(status) == slot' = [slot EXCEPT !.status = "idle", !.ended = status]

CompleteJob ==
    /\ pc = "complete"
    /\ SettleSlot("completed")
    /\ EndAttempt
    /\ UNCHANGED <<rows, req, bounds>>

FailJob ==
    /\ pc \in {"failjob", "giveup", "unrecorded"}
    /\ SettleSlot("failed")
    /\ EndAttempt
    /\ UNCHANGED <<rows, req, bounds>>

(* A repository call throws.  Inside recordWorkFailure the error is        *)
(* swallowed and the job is failed all the same.                           *)
StoreError ==
    /\ pc \notin {"idle", "throw", "execute", "giveup", "unrecorded"}
    /\ faults.thrown < MaxFaults
    /\ faults' = [faults EXCEPT !.thrown = @ + 1]
    /\ Goto(IF pc = "record" THEN "unrecorded" ELSE "throw")
    /\ UNCHANGED <<rows, slot, req, version, made>>

RequeueJob ==
    /\ pc = "throw" /\ slot.attempts < MaxAttempts
    /\ slot' = [slot EXCEPT !.status = "queued"]
    /\ EndAttempt
    /\ UNCHANGED <<rows, req, bounds>>

(* The last attempt records the failure on the mission, unless the mission *)
(* reads as completed or failed already.                                   *)
RecordsFailureOn(w) == w \notin {"completed", "failed"}

ReadForFailure ==
    /\ pc = "throw" /\ slot.attempts >= MaxAttempts
    /\ Goto(IF RecordsFailureOn(work) THEN "record" ELSE "giveup")
    /\ UNCHANGED <<rows, slot, req, bounds>>

RecordFailure == WriteWork("record", "failed", "giveup")

(* The worker stops: its job stays running until the lease has passed.     *)
WorkerDies ==
    /\ pc # "idle"
    /\ faults.thrown < MaxFaults
    /\ faults' = [faults EXCEPT !.thrown = @ + 1]
    /\ EndAttempt
    /\ UNCHANGED <<rows, slot, req, version, made>>

Recover ==
    /\ pc = "idle" /\ slot.status = "running" /\ slot.attempts < MaxAttempts
    /\ slot' = [slot EXCEPT !.status = "queued"]
    /\ UNCHANGED <<rows, worker, req, bounds>>

(* fail_expired_execution_job: the job, the mission and its interrupted    *)
(* tasks close in one transaction.                                         *)
Interrupted(ts) == [t \in Tasks |-> IF ts[t].status \in {"ready", "running"}
                                    THEN [ts[t] EXCEPT !.status = "failed"] ELSE ts[t]]

FailExpired ==
    /\ pc = "idle" /\ slot.status = "running" /\ slot.attempts >= MaxAttempts
    /\ SettleSlot("failed")
    /\ IF work \in {"queued", "executing"}
       THEN work' = "failed" /\ task' = Interrupted(task)
       ELSE UNCHANGED <<work, task>>
    /\ UNCHANGED <<approval, worker, req, bounds>>

(* reconcile_abandoned_work, when the API starts: an old executing mission *)
(* no active job owns is closed the same way.                              *)
Reconcile ==
    /\ work = "executing" /\ slot.status = "idle"
    /\ work' = "failed" /\ task' = Interrupted(task)
    /\ UNCHANGED <<approval, slot, worker, req, bounds>>

(* The step comes to describe another action: its agent, tools or skill    *)
(* changed.                                                                *)
ActionChanges(t) ==
    /\ version[t] < MaxChanges
    /\ version' = [version EXCEPT ![t] = @ + 1]
    /\ UNCHANGED <<rows, slot, worker, req, made, faults>>

-----------------------------------------------------------------------------
(* API requests.  A request begins with a read and goes on from what it    *)
(* read.                                                                   *)

Opens(c, op, r) ==
    /\ op \in Ops
    /\ req[c] = NoRequest
    /\ made < MaxRequests
    /\ Patient /\ op \in {"approve", "reject", "retry"} => slot.status = "idle"
    /\ made' = made + 1
    /\ req' = [req EXCEPT ![c] = [r EXCEPT !.op = op]]
    /\ UNCHANGED <<rows, slot, worker, version, faults>>

In(c, op, p) == req[c].op = op /\ req[c].pc = p
Proceed(c, r)  == req' = [req EXCEPT ![c] = r]
Step(c, p)   == req' = [req EXCEPT ![c].pc = p]
Answer(c)    == req' = [req EXCEPT ![c] = NoRequest]
Elsewhere    == UNCHANGED <<worker, bounds>>

(* A statement of the request throws, or its process stops: the person is  *)
(* told so, and what was written stays written.                            *)
RequestCut(c) ==
    /\ req[c].op \in Cuttable /\ faults.cut < MaxCuts
    /\ faults' = [faults EXCEPT !.cut = @ + 1]
    /\ Answer(c)
    /\ UNCHANGED <<rows, slot, worker, version, made>>

(* enqueueWork, decided where the partial unique index decides it.         *)
Enqueue(c) ==
    /\ req[c].pc = "enqueue"
    /\ IF slot.status = "idle"
       THEN slot' = [slot EXCEPT !.status = "queued", !.attempts = 0, !.job = @ + 1]
       ELSE UNCHANGED slot
    /\ Answer(c)
    /\ UNCHANGED rows /\ Elsewhere

(* POST /work/:id/execute: the lifecycle's answer, then the job's.         *)
Startable(w) == w \in {"queued", "executing"}

AskStart(c) == Startable(work) /\ Opens(c, "start", [NoRequest EXCEPT !.pc = "check"])

CheckNoJob(c) ==
    /\ In(c, "start", "check")
    /\ IF slot.status = "idle" THEN Step(c, "enqueue") ELSE Answer(c)
    /\ UNCHANGED <<rows, slot>> /\ Elsewhere

(* Deciding an approval: the reads, the compare-and-swap, then the task    *)
(* and the mission from the copies.                                        *)
OpenDecision(c, op) ==
    \E a \in Approvals :
        /\ approval[a].status = "pending"
        /\ Opens(c, op, [NoRequest EXCEPT !.pc = "resolve", !.approval = a, !.rows = task])

Deciding(c, p) == req[c].op \in {"approve", "reject"} /\ req[c].pc = p

StillPending(a) == approval[a].status = "pending"

ResolvePending(c) ==
    /\ Deciding(c, "resolve")
    /\ LET a == req[c].approval IN
        IF StillPending(a)
        THEN /\ approval' = [approval EXCEPT ![a].status =
                               IF req[c].op = "approve" THEN "approved" ELSE "rejected"]
             /\ Step(c, "task")
        ELSE Answer(c) /\ UNCHANGED approval
    /\ UNCHANGED <<work, task, slot>> /\ Elsewhere

(* Mutant: an approved step stays on hold.                                 *)
MutStaysOnHold(row, op, a) ==
    IF op = "approve" THEN [row EXCEPT !.decision = "approved", !.request = a]
    ELSE [row EXCEPT !.status = "failed", !.decision = "rejected", !.request = a]

DecidedRow(row, op, a) ==
    IF op = "approve"
    THEN [row EXCEPT !.status = "pending", !.decision = "approved", !.request = a]
    ELSE [row EXCEPT !.status = "failed", !.decision = "rejected", !.request = a]

WriteDecidedTask(c) ==
    /\ Deciding(c, "task")
    /\ LET a == req[c].approval  t == approval[a].task IN
        WriteTask(t, DecidedRow(req[c].rows[t], req[c].op, a))
    /\ Step(c, "work")
    /\ UNCHANGED <<work, approval, slot>> /\ Elsewhere

(* Mutant: an approval only writes the rows and enqueues nothing.          *)
MutApproveOnly(op) == "done"

AfterDecision(op) == IF op = "approve" THEN "enqueue" ELSE "done"

WriteDecidedWork(c) ==
    /\ Deciding(c, "work")
    /\ work' = IF req[c].op = "approve" THEN "queued" ELSE "failed"
    /\ IF AfterDecision(req[c].op) = "done" THEN Answer(c) ELSE Step(c, "enqueue")
    /\ UNCHANGED <<task, approval, slot>> /\ Elsewhere

(* POST /work/:id/retry.                                                   *)
OpenRetry(c) == work = "failed" /\ Opens(c, "retry", [NoRequest EXCEPT !.pc = "list"])

(* Mutant: a retry starts every step over.                                 *)
MutResetsAll(ts) == Tasks

Resettable(ts) == Tasks \ With(ts, "completed")

ListForRetry(c) ==
    /\ In(c, "retry", "list")
    /\ Proceed(c, [req[c] EXCEPT !.pc = "reset", !.rows = task, !.left = Resettable(task)])
    /\ UNCHANGED <<rows, slot>> /\ Elsewhere

ResetTask(c) ==
    /\ In(c, "retry", "reset")
    /\ \E t \in req[c].left :
        /\ WriteTask(t, [req[c].rows[t] EXCEPT !.status = "pending"])
        /\ Proceed(c, [req[c] EXCEPT !.left = @ \ {t}])
    /\ UNCHANGED <<work, approval, slot>> /\ Elsewhere

WriteRetriedWork(c) ==
    /\ In(c, "retry", "reset") /\ req[c].left = {}
    /\ work' = "queued"
    /\ Step(c, "enqueue")
    /\ UNCHANGED <<task, approval, slot>> /\ Elsewhere

(* POST /work/:id/cancel.                                                  *)
OpenCancel(c) ==
    /\ work \notin {"completed", "cancelled"}
    /\ Opens(c, "cancel", [NoRequest EXCEPT !.pc = "job"])

(* A running job refuses the cancellation, a queued one is withdrawn.      *)
(* Mutant: a running job does not refuse it.                               *)
MutCancelsRunning(s) == FALSE

RefusesCancel(s) == s = "running"

ReadJobForCancel(c) ==
    /\ In(c, "cancel", "job")
    /\ IF RefusesCancel(slot.status) THEN Answer(c)
       ELSE Proceed(c, [req[c] EXCEPT !.job = slot.job,
                        !.pc = IF slot.status = "queued" THEN "withdraw" ELSE "approvals"])
    /\ UNCHANGED <<rows, slot>> /\ Elsewhere

WithdrawJob(c) ==
    /\ In(c, "cancel", "withdraw")
    /\ IF slot.status = "queued" /\ slot.job = req[c].job
       THEN SettleSlot("cancelled") /\ Step(c, "approvals")
       ELSE Answer(c) /\ UNCHANGED slot
    /\ UNCHANGED rows /\ Elsewhere

OpenDecisions == {a \in Approvals : approval[a].status = "pending"}

ListOpenDecisions(c) ==
    /\ In(c, "cancel", "approvals")
    /\ Proceed(c, [req[c] EXCEPT !.pc = "close", !.left = OpenDecisions])
    /\ UNCHANGED <<rows, slot>> /\ Elsewhere

CloseDecision(c) ==
    /\ In(c, "cancel", "close")
    /\ \E a \in req[c].left :
        /\ approval' = IF StillPending(a) THEN [approval EXCEPT ![a].status = "cancelled"]
                       ELSE approval
        /\ Proceed(c, [req[c] EXCEPT !.left = @ \ {a}])
    /\ UNCHANGED <<work, task, slot>> /\ Elsewhere

ListForCancel(c) ==
    /\ In(c, "cancel", "close") /\ req[c].left = {}
    /\ Proceed(c, [req[c] EXCEPT !.pc = "cancel", !.rows = task,
                               !.left = {t \in Tasks : task[t].status \notin Ended}])
    /\ UNCHANGED <<rows, slot>> /\ Elsewhere

CancelTask(c) ==
    /\ In(c, "cancel", "cancel")
    /\ \E t \in req[c].left :
        /\ WriteTask(t, [req[c].rows[t] EXCEPT !.status = "cancelled"])
        /\ Proceed(c, [req[c] EXCEPT !.left = @ \ {t}])
    /\ UNCHANGED <<work, approval, slot>> /\ Elsewhere

WriteCancelledWork(c) ==
    /\ In(c, "cancel", "cancel") /\ req[c].left = {}
    /\ work' = "cancelled"
    /\ Answer(c)
    /\ UNCHANGED <<task, approval, slot>> /\ Elsewhere

-----------------------------------------------------------------------------
ExecuteStep == \E t \in Tasks :
    \/ Begin(t) \/ AgentUnfit(t) \/ StopForNewApproval(t) \/ ClaimTask(t)
    \/ EngineEnds(t) \/ StepRecorded(t) \/ RecordThrows(t) \/ EngineResultLost(t)
    \/ ReadRejected(t) \/ FailRejected(t)

AttemptStep ==
    \/ ReadOrphans \/ ReclaimOrphan \/ ReadWork \/ StartWork \/ Load
    \/ WaitForDecision \/ FinishWork \/ FailWork \/ NoTaskReady
    \/ DenyTask \/ MarkReady \/ SkipAsked \/ RaiseApproval \/ HoldTask \/ Reload
    \/ ExecuteStep \/ BatchEnds
    \/ CompleteJob \/ FailJob \/ RequeueJob \/ ReadForFailure \/ RecordFailure

QueueStep == Claim \/ Recover \/ FailExpired

Open(c) ==
    \/ AskStart(c) \/ OpenRetry(c) \/ OpenCancel(c)
    \/ OpenDecision(c, "approve") \/ OpenDecision(c, "reject")

Continue(c) ==
    \/ CheckNoJob(c) \/ Enqueue(c)
    \/ ResolvePending(c) \/ WriteDecidedTask(c) \/ WriteDecidedWork(c)
    \/ ListForRetry(c) \/ ResetTask(c) \/ WriteRetriedWork(c)
    \/ ReadJobForCancel(c) \/ WithdrawJob(c) \/ ListOpenDecisions(c) \/ CloseDecision(c)
    \/ ListForCancel(c) \/ CancelTask(c) \/ WriteCancelledWork(c)

Environment ==
    \/ WorkerDies \/ StoreError \/ Reconcile
    \/ \E t \in Tasks : ActionChanges(t)
    \/ \E c \in Requests : RequestCut(c)

Next == \/ AttemptStep \/ QueueStep \/ Environment
        \/ \E c \in Requests : Open(c) \/ Continue(c)

Spec == Init /\ [][Next]_vars

(* A worker is up and polls, an attempt and a request go on; nobody has to *)
(* open a request.                                                         *)
Fairness == /\ WF_vars(AttemptStep) /\ WF_vars(QueueStep)
            /\ \A c \in Requests : WF_vars(Continue(c))

FairSpec == Spec /\ Fairness

-----------------------------------------------------------------------------
CallRow == [pc: {"off", "check", "hold", "claim", "engine", "record", "rejected", "refused"},
            row: TaskRow, version: Nat]

RequestRow == [op: Ops \cup {None},
               pc: {"idle", "check", "enqueue", "resolve", "task", "work", "list", "reset",
                    "job", "withdraw", "approvals", "close", "cancel"},
               approval: Approvals \cup {None}, job: Nat,
               rows: [Tasks -> TaskRow], left: SUBSET (Tasks \cup Approvals)]

(* Every variable has its type.                                            *)
TypeOK ==
    /\ work \in {"queued", "executing", "waiting_approval"} \cup Ended
    /\ task \in [Tasks -> TaskRow]
    /\ approval \in [Approvals -> ApprovalRow]
    /\ slot \in [status: {"idle", "queued", "running"}, attempts: Nat, job: Nat,
                 ended: {None, "completed", "failed", "cancelled"}]
    /\ pc \in {"idle", "orphans", "reclaim", "start", "load", "mark", "raised", "execute",
               "wait", "finish", "fail", "stuck", "complete", "failjob", "throw", "record",
               "giveup", "unrecorded"}
    /\ snap \in [Tasks -> TaskRow]
    /\ todo \in SUBSET Tasks
    /\ raised \in Approvals \cup {None}
    /\ exec \in [Tasks -> CallRow]
    /\ req \in [Requests -> RequestRow]
    /\ version \in [Tasks -> Nat]
    /\ made \in Nat
    /\ faults \in [thrown: Nat, lost: Nat, events: Nat, cut: Nat]

(* Whatever raced with whatever, a step that needs a person's decision is  *)
(* made ready, run or completed only when the approval its row names was   *)
(* raised for it and granted: no stale copy of a row grants anything.      *)
Going == {"ready", "running", "completed"}

GrantedByName(t, row) ==
    /\ row.request \in Approvals
    /\ approval[row.request].task = t
    /\ approval[row.request].status = "approved"

NothingRunsUndecided ==
    \A t \in Asks :
        /\ task[t].status \in Going => GrantedByName(t, task[t])
        /\ exec[t].pc = "engine" => GrantedByName(t, exec[t].row)

(* A step runs on a decision about what it does now: the action the engine *)
(* was handed is the one the granted approval described.                   *)
RunsWhatWasApproved ==
    \A t \in Asks : exec[t].pc = "engine" =>
        \E a \in Approvals : /\ approval[a].status = "approved" /\ approval[a].task = t
                             /\ approval[a].hash = exec[t].version

(* A step runs only when every step it depends on is completed, and nobody *)
(* rewrites its row while the engine is running it.                        *)
EngineRunsInTurn ==
    \A t \in Tasks : exec[t].pc = "engine" =>
        /\ \A d \in Deps[t] : task[d].status = "completed"
        /\ task[t] = exec[t].row

(* Once nothing is under way, a mission waiting for a decision has one a   *)
(* person can still make, on a step that is held for it.                   *)
Quiet == slot.status = "idle" /\ req = [c \in Requests |-> NoRequest]

SomeoneToAsk ==
    Quiet /\ work = "waiting_approval" =>
        \E a \in Approvals : /\ approval[a].status = "pending"
                             /\ task[approval[a].task].status = "waiting"
                             /\ task[approval[a].task].request = a

(* A completed mission has completed steps and, once nothing is under way, *)
(* a cancelled one has nothing left open: no step to run, no decision to   *)
(* make.                                                                   *)
EndedIsWhole ==
    /\ work = "completed" => \A t \in Tasks : task[t].status = "completed"
    /\ Quiet /\ work = "cancelled" =>
        /\ \A t \in Tasks : task[t].status \in Ended
        /\ \A a \in Approvals : approval[a].status # "pending"

(* Cancelling is terminal.                                                 *)
CancelledForGood == [][work = "cancelled" => work' = "cancelled"]_work

(* A completed step is never put back, so that its result is lost and it   *)
(* runs again: but by the call that completed it, while it still has to    *)
(* record that, and then nothing was made of the result.                   *)
CompletedStepsKept ==
    [][\A t \in Tasks : task[t].status = "completed" =>
        \/ task'[t].status = "completed"
        \/ /\ exec[t].pc = "record" /\ task'[t].status = "failed"
           /\ \A u \in Tasks : t \in Deps[u] => task[u].status \notin Going]_task

(* A run that ends because no step is ready had none it could have gone on *)
(* with: every step left has an unfinished dependency.                     *)
StuckMeansUnresolved ==
    pc = "stuck" => Eligible(snap) = {}

(* A mission that was started before and reads as queued again, because a  *)
(* decision or a retry wrote it so, has a job that will take it up, unless *)
(* a request was cut short.                                                *)
QueuedMissionsHaveJobs == Quiet /\ work = "queued" => slot.job = 0 \/ faults.cut > 0

(* A job settles the way the mission stands: completed only over one that  *)
(* completed or waits, and failed over one left executing only when the    *)
(* last attempt could not record the failure.                              *)
JobAgreesWithMission ==
    [][slot.status = "running" /\ slot'.status = "idle" =>
          /\ slot'.ended = "completed" => work' \in {"completed", "waiting_approval"}
          /\ slot'.ended = "failed" /\ pc # "unrecorded" => work' # "executing"]_slot

(* A job that is put on the queue is settled.                              *)
JobsSettle == slot.status # "idle" ~> slot.status = "idle"

(* A step whose approval was granted goes on, unless the mission ends,     *)
(* another decision is still open, the last attempt of its job failed      *)
(* without being able to say so on the mission, or a request was cut short *)
(* and the person who was told so can start the mission.                   *)
FailureUnrecorded ==
    slot.status = "idle" /\ slot.ended = "failed" /\ work \notin Ended

GrantedStepsGoOn ==
    \A t \in Tasks :
        task[t].status = "pending" /\ Granted(task[t])
            ~> \/ task[t].status # "pending" \/ work \in Ended
               \/ OpenDecisions # {} \/ FailureUnrecorded
               \/ faults.cut > 0 /\ slot.status = "idle" /\ Startable(work)
=============================================================================
