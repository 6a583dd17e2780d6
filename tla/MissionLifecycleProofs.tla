----------------------- MODULE MissionLifecycleProofs -----------------------
(***************************************************************************)
(* Proofs about MissionLifecycle, for every plan and every set of           *)
(* approvals.  The first half, up to DecidedFirst, is for any number of     *)
(* requests at any moment.  The second is for requests that do not          *)
(* interleave with one another or with a job that they would overwrite      *)
(* (Alone): the code has no more to keep those apart than the order in      *)
(* which people act.  Its theorems say which faults they allow.             *)
(***************************************************************************)
EXTENDS MissionLifecycle, TLAPS

USE LifecycleAssumption

-----------------------------------------------------------------------------
(* Rows stay rows.                                                         *)

LEMMA InitialRows ==
    /\ PlannedRow \in TaskRow
    /\ Planned \in [Tasks -> TaskRow]
    /\ NoCall \in CallRow
    /\ NoCalls \in [Tasks -> CallRow]
    /\ NoRequest \in RequestRow
    BY DEF PlannedRow, TaskRow, TaskStatuses, Ended, Planned, NoCall, NoCalls, CallRow,
           NoRequest, RequestRow

LEMMA CallWithPc ==
    ASSUME NEW call \in CallRow,
           NEW p \in {"off", "check", "hold", "claim", "engine", "record", "rejected", "refused"}
    PROVE  [call EXCEPT !.pc = p] \in CallRow
    BY DEF CallRow

LEMMA RowWithStatus ==
    ASSUME NEW row \in TaskRow, NEW s \in TaskStatuses
    PROVE  [row EXCEPT !.status = s] \in TaskRow
    BY DEF TaskRow

LEMMA DecidedRowTyped ==
    ASSUME NEW row \in TaskRow, NEW op, NEW a \in Approvals
    PROVE  DecidedRow(row, op, a) \in TaskRow
    BY DEF TaskRow, TaskStatuses, Ended, DecidedRow

(* Replacing one row of a table keeps the table, wherever the row goes.    *)
LEMMA TableWithRow ==
    ASSUME NEW tab \in [Tasks -> TaskRow], NEW t, NEW row \in TaskRow
    PROVE  [tab EXCEPT ![t] = row] \in [Tasks -> TaskRow]
    BY DEF TaskRow

LEMMA InterruptedTyped ==
    ASSUME NEW tab \in [Tasks -> TaskRow]
    PROVE  Interrupted(tab) \in [Tasks -> TaskRow]
    <1>1. ASSUME NEW t \in Tasks
          PROVE  (IF tab[t].status \in {"ready", "running"}
                  THEN [tab[t] EXCEPT !.status = "failed"] ELSE tab[t]) \in TaskRow
        <2>1. tab[t] \in TaskRow
            OBVIOUS
        <2>2. [tab[t] EXCEPT !.status = "failed"] \in TaskRow
            BY <2>1, RowWithStatus DEF TaskStatuses, Ended
        <2> QED
            BY <2>1, <2>2
    <1> QED
        BY <1>1 DEF Interrupted

-----------------------------------------------------------------------------
(* Type correctness, with what makes the names in use denote rows.         *)

Named ==
    /\ \A a \in Approvals : approval[a].status # "absent" => approval[a].task \in Tasks
    /\ pc = "raised" => raised \in Approvals /\ approval[raised].status # "absent"
    /\ \A c \in Requests : req[c].pc \in {"resolve", "task"} =>
          req[c].approval \in Approvals /\ approval[req[c].approval].status # "absent"

Typed == TypeOK /\ Named

(* What is left to a step that only moves the attempt.                     *)
LEMMA AttemptMoves ==
    ASSUME Typed, UNCHANGED <<rows, slot, req, version, made>>,
           faults' \in [thrown: Nat, lost: Nat, events: Nat, cut: Nat],
           snap' \in [Tasks -> TaskRow], todo' \in SUBSET Tasks, exec' \in [Tasks -> CallRow],
           pc' \in {"idle", "orphans", "reclaim", "start", "load", "mark", "execute",
               "wait", "finish", "fail", "stuck", "complete", "failjob", "throw", "record",
               "giveup", "unrecorded"},
           raised' \in Approvals \cup {None}
    PROVE  Typed'
    BY DEF Typed, TypeOK, Named, rows

(* What is left to a step of the attempt that writes one task.             *)
LEMMA AttemptWritesTask ==
    ASSUME Typed, NEW t, NEW row \in TaskRow, WriteTask(t, row),
           UNCHANGED <<work, approval, slot, snap, req, version, made>>,
           faults' \in [thrown: Nat, lost: Nat, events: Nat, cut: Nat],
           pc' \in {pc, "mark"}, todo' \in SUBSET Tasks, raised' \in {raised, None},
           exec' \in [Tasks -> CallRow], pc' = "raised" => raised' = raised
    PROVE  Typed'
    <1>1. task' \in [Tasks -> TaskRow]
        BY TableWithRow DEF Typed, TypeOK, WriteTask
    <1> QED
        BY <1>1 DEF Typed, Named, TypeOK

LEMMA CallChanged ==
    ASSUME Typed, NEW t \in Tasks, NEW call \in CallRow, exec' = [exec EXCEPT ![t] = call]
    PROVE  exec' \in [Tasks -> CallRow]
    BY DEF Typed, TypeOK

LEMMA CallMoves ==
    ASSUME Typed, NEW t \in Tasks,
           NEW p \in {"check", "hold", "claim", "engine", "record", "rejected", "refused"}, Call(t, p)
    PROVE  exec' \in [Tasks -> CallRow]
    BY DEF Typed, TypeOK, Call, CallRow

LEMMA ExecuteStepTyped ==
    ASSUME Typed, ExecuteStep
    PROVE  Typed'
    <1> USE DEF worker, rows, bounds, At
    <1>1. PICK t \in Tasks :
            \/ Begin(t) \/ AgentUnfit(t) \/ StopForNewApproval(t) \/ ClaimTask(t)
            \/ EngineEnds(t) \/ StepRecorded(t) \/ RecordThrows(t)
            \/ EngineResultLost(t) \/ ReadRejected(t) \/ FailRejected(t)
        BY DEF ExecuteStep
    <1>2. pc = "execute" /\ exec[t] \in CallRow /\ exec[t].row \in TaskRow /\ task[t] \in TaskRow
          /\ version[t] \in Nat
        BY <1>1 DEF Begin, AgentUnfit, StopForNewApproval, ClaimTask, EngineEnds, StepRecorded,
           RecordThrows, EngineResultLost, ReadRejected, FailRejected, Typed, TypeOK, CallRow
    <1>3. CASE Begin(t)
        <2> DEFINE bad   == [NoCall EXCEPT !.pc = "rejected"]
                   going == [pc |-> IF Drifted(t, task[t]) THEN "hold" ELSE "claim",
                             row |-> task[t], version |-> version[t]]
        <2>a. bad \in CallRow
            BY InitialRows, CallWithPc
        <2>b. going \in CallRow
            BY <1>2 DEF CallRow
        <2>c. exec' = [exec EXCEPT ![t] =
                         IF task[t].status \in {"completed", "running"} THEN NoCall
                         ELSE IF task[t].status # "ready" THEN bad ELSE going]
            BY <1>3 DEF Begin
        <2> HIDE DEF bad, going
        <2>1. PICK call \in CallRow : exec' = [exec EXCEPT ![t] = call]
            BY <2>a, <2>b, <2>c, InitialRows
        <2> QED
            BY <1>2, <1>3, <2>1, CallChanged, AttemptMoves DEF Begin, Typed, TypeOK
    <1>4. CASE AgentUnfit(t)
        BY <1>2, <1>4, CallMoves, AttemptMoves DEF AgentUnfit, Typed, TypeOK
    <1>5. CASE StopForNewApproval(t)
        <2>1. [exec[t].row EXCEPT !.status = "pending", !.decision = "superseded", !.hash = None]
                \in TaskRow
            BY <1>2 DEF TaskRow, TaskStatuses
        <2>2. exec' \in [Tasks -> CallRow]
            BY <1>5, CallChanged, InitialRows DEF StopForNewApproval, EndCall
        <2> QED
            BY <1>2, <1>5, <2>1, <2>2, AttemptWritesTask DEF StopForNewApproval, Typed, TypeOK
    <1>6. CASE ClaimTask(t)
        <2>1. [task[t] EXCEPT !.status = "running"] \in TaskRow
            BY <1>2, RowWithStatus DEF TaskStatuses
        <2>2. CASE Claimable(task[t])
            <3>1. exec' \in [Tasks -> CallRow]
                BY <1>2, <1>6, <2>1, <2>2 DEF ClaimTask, CallRow, Typed, TypeOK
            <3> QED
                BY <1>2, <1>6, <2>1, <2>2, <3>1, AttemptWritesTask DEF ClaimTask, Typed, TypeOK
        <2>3. CASE ~Claimable(task[t])
            <3>1. exec' \in [Tasks -> CallRow]
                BY <1>6, <2>3, CallChanged, InitialRows DEF ClaimTask, EndCall
            <3> QED
                BY <1>2, <1>6, <2>3, <3>1, AttemptMoves DEF ClaimTask, Typed, TypeOK
        <2> QED
            BY <2>2, <2>3
    <1>7. CASE EngineEnds(t)
        <2>1. PICK status \in {"completed", "failed"} :
                WriteTask(t, [exec[t].row EXCEPT !.status = status])
            BY <1>7 DEF EngineEnds
        <2>2. [exec[t].row EXCEPT !.status = status] \in TaskRow
            BY <1>2, RowWithStatus DEF TaskStatuses, Ended
        <2>3. exec' \in [Tasks -> CallRow]
            BY <1>7, CallChanged, CallMoves, InitialRows DEF EngineEnds, EndCall
        <2> QED
            BY <1>2, <1>7, <2>1, <2>2, <2>3, AttemptWritesTask DEF EngineEnds, Typed, TypeOK
    <1>11. CASE StepRecorded(t)
        <2>1. exec' \in [Tasks -> CallRow]
            BY <1>11, CallChanged, InitialRows DEF StepRecorded, EndCall
        <2> QED
            BY <1>2, <1>11, <2>1, AttemptMoves DEF StepRecorded, Typed, TypeOK
    <1>12. CASE RecordThrows(t)
        <2>1. [exec[t].row EXCEPT !.status = "failed"] \in TaskRow
            BY <1>2, RowWithStatus DEF TaskStatuses, Ended
        <2>2. exec' \in [Tasks -> CallRow]
            BY <1>12, CallChanged, InitialRows DEF RecordThrows, EndCall
        <2>3. faults' \in [thrown: Nat, lost: Nat, events: Nat, cut: Nat]
            BY <1>12 DEF RecordThrows, Typed, TypeOK
        <2> QED
            BY <1>2, <1>12, <2>1, <2>2, <2>3, AttemptWritesTask DEF RecordThrows, Typed, TypeOK
    <1>8. CASE EngineResultLost(t)
        <2>1. faults' \in [thrown: Nat, lost: Nat, events: Nat, cut: Nat]
            BY <1>8 DEF EngineResultLost, Typed, TypeOK
        <2> QED
            BY <1>2, <1>8, <2>1, CallMoves, AttemptMoves DEF EngineResultLost, Typed, TypeOK
    <1>9. CASE ReadRejected(t)
        <2>1. [NoCall EXCEPT !.pc = "refused", !.row = task[t]] \in CallRow
            BY <1>2, InitialRows, CallWithPc DEF CallRow
        <2>2. exec' \in [Tasks -> CallRow]
            BY <1>9, <2>1, CallChanged, InitialRows DEF ReadRejected
        <2> QED
            BY <1>2, <1>9, <2>2, AttemptMoves DEF ReadRejected, Typed, TypeOK
    <1>10. CASE FailRejected(t)
        <2>1. [exec[t].row EXCEPT !.status = "failed"] \in TaskRow
            BY <1>2, RowWithStatus DEF TaskStatuses, Ended
        <2>2. exec' \in [Tasks -> CallRow]
            BY <1>10, CallChanged, InitialRows DEF FailRejected, EndCall
        <2> QED
            BY <1>2, <1>10, <2>1, <2>2, AttemptWritesTask DEF FailRejected, Typed, TypeOK
    <1> QED
        BY <1>1, <1>3, <1>4, <1>5, <1>6, <1>7, <1>8, <1>9, <1>10, <1>11, <1>12

LEMMA AttemptStepTyped ==
    ASSUME Typed, AttemptStep
    PROVE  Typed'
    <1> USE DEF worker, rows, bounds
    <1>1. CASE ReadOrphans
        BY <1>1, AttemptMoves DEF Typed, TypeOK, ReadOrphans, Orphans, With
    <1>2. CASE ReadWork
        BY <1>2, AttemptMoves DEF Typed, TypeOK, ReadWork, EntersAt, Goto
    <1>3. CASE Load
        BY <1>3, AttemptMoves DEF Typed, TypeOK, Load, TurnOf, Eligible, With
    <1>4. CASE StartWork
        BY <1>4 DEF Typed, Named, TypeOK, StartWork, Goto, Ended
    <1>5. CASE WaitForDecision
        BY <1>5 DEF Typed, Named, TypeOK, WaitForDecision, WriteWork, Goto, Ended
    <1>6. CASE FinishWork
        BY <1>6 DEF Typed, Named, TypeOK, FinishWork, WriteWork, Goto, Ended
    <1>7. CASE FailWork
        BY <1>7 DEF Typed, Named, TypeOK, FailWork, WriteWork, Goto, Ended
    <1>8. CASE NoTaskReady
        BY <1>8 DEF Typed, Named, TypeOK, NoTaskReady, WriteWork, Goto, Ended
    <1>9. CASE RecordFailure
        BY <1>9 DEF Typed, Named, TypeOK, RecordFailure, WriteWork, Goto, Ended
    <1>10. CASE ReclaimOrphan
        <2>1. PICK t \in todo : /\ WriteTask(t, [snap[t] EXCEPT !.status = "pending"])
                                /\ todo' = todo \ {t}
            BY <1>10 DEF ReclaimOrphan, WriteTask
        <2>2. [snap[t] EXCEPT !.status = "pending"] \in TaskRow
            BY RowWithStatus DEF Typed, TypeOK, TaskStatuses
        <2> QED
            BY <1>10, <2>1, <2>2, AttemptWritesTask DEF ReclaimOrphan, Typed, TypeOK
    <1>11. CASE DenyTask
        <2>1. PICK t \in todo : /\ WriteTask(t, [snap[t] EXCEPT !.status = "failed"])
                                /\ todo' = todo \ {t}
            BY <1>11 DEF DenyTask
        <2>2. [snap[t] EXCEPT !.status = "failed"] \in TaskRow
            BY RowWithStatus DEF Typed, TypeOK, TaskStatuses, Ended
        <2> QED
            BY <1>11, <2>1, <2>2, AttemptWritesTask DEF DenyTask, Typed, TypeOK
    <1>12. CASE MarkReady
        <2>1. PICK t \in todo : /\ WriteTask(t, [snap[t] EXCEPT !.status = "ready"])
                                /\ todo' = todo \ {t}
            BY <1>12 DEF MarkReady
        <2>2. [snap[t] EXCEPT !.status = "ready"] \in TaskRow
            BY RowWithStatus DEF Typed, TypeOK, TaskStatuses, Ended
        <2> QED
            BY <1>12, <2>1, <2>2, AttemptWritesTask DEF MarkReady, Typed, TypeOK
    <1>13. CASE SkipAsked
        BY <1>13 DEF Typed, Named, TypeOK, SkipAsked
    <1>14. CASE RaiseApproval
        <2> DEFINE a == CHOOSE x \in Unused : TRUE
        <2>1. a \in Unused
            BY <1>14 DEF RaiseApproval
        <2>2. PICK t \in todo :
                /\ approval' = [approval EXCEPT ![a] =
                                  [status |-> "pending", task |-> t, hash |-> version[t]]]
                /\ raised' = a
            BY <1>14 DEF RaiseApproval
        <2>3. a \in Approvals /\ approval[a].status = "absent" /\ t \in Tasks
            BY <2>1 DEF Unused, Typed, TypeOK
        <2> HIDE DEF a
        <2>4. approval' \in [Approvals -> ApprovalRow]
            BY <2>2, <2>3 DEF ApprovalRow, Typed, TypeOK
        <2>5. pc' = "raised"
            BY <1>14 DEF RaiseApproval
        <2>6. Named'
            BY <1>14, <2>2, <2>3, <2>4, <2>5 DEF Named, Typed, TypeOK, ApprovalRow, RaiseApproval
        <2> QED
            BY <1>14, <2>2, <2>3, <2>4, <2>5, <2>6 DEF Typed, TypeOK, RaiseApproval
    <1>15. CASE HoldTask
        <2>1. pc = "raised" /\ raised \in Approvals /\ approval[raised] \in ApprovalRow
            BY <1>15 DEF HoldTask, Typed, TypeOK, Named
        <2>2. PICK t : t = approval[raised].task
            OBVIOUS
        <2>3. PICK row : row = [status |-> "waiting", decision |-> "pending", request |-> raised,
                                hash |-> approval[raised].hash]
            OBVIOUS
        <2>4. row \in TaskRow
            BY <2>1, <2>3 DEF TaskRow, TaskStatuses, ApprovalRow
        <2>5. WriteTask(t, row) /\ todo' = todo \ {t} /\ raised' = None /\ pc' = "mark"
            BY <1>15, <2>2, <2>3 DEF HoldTask
        <2> QED
            BY <1>15, <2>4, <2>5, AttemptWritesTask DEF HoldTask, Typed, TypeOK
    <1>16. CASE Reload
        <2>1. AfterMarks(task) \in
                {"fail", "wait", "finish", "mark", "execute", "complete", "stuck"}
            BY DEF AfterMarks, TurnOf
        <2>2. exec' \in [Tasks -> CallRow]
            <3>1. [NoCall EXCEPT !.pc = "check"] \in CallRow
                BY InitialRows, CallWithPc
            <3> QED
                BY <1>16, <3>1, InitialRows DEF Reload, Typed, TypeOK
        <2>3. pc' # "raised"
            BY <1>16, <2>1 DEF Reload
        <2> QED
            BY <1>16, <2>1, <2>2, AttemptMoves DEF Reload, Typed, TypeOK
    <1>17. CASE ExecuteStep
        BY <1>17, ExecuteStepTyped
    <1>18. CASE BatchEnds
        BY <1>18, AttemptMoves DEF Typed, TypeOK, BatchEnds, Goto
    <1>19. CASE CompleteJob
        BY <1>19, InitialRows DEF Typed, Named, TypeOK, CompleteJob, SettleSlot, EndAttempt
    <1>20. CASE FailJob
        BY <1>20, InitialRows DEF Typed, Named, TypeOK, FailJob, SettleSlot, EndAttempt
    <1>21. CASE RequeueJob
        BY <1>21, InitialRows DEF Typed, Named, TypeOK, RequeueJob, EndAttempt
    <1>22. CASE ReadForFailure
        BY <1>22, AttemptMoves DEF Typed, TypeOK, ReadForFailure, RecordsFailureOn, Goto
    <1> QED
        BY <1>1, <1>2, <1>3, <1>4, <1>5, <1>6, <1>7, <1>8, <1>9, <1>10, <1>11, <1>12, <1>13,
           <1>14, <1>15, <1>16, <1>17, <1>18, <1>19, <1>20, <1>21, <1>22 DEF AttemptStep

(* The rows a failed attempt or a dead worker leaves are rows.             *)
LEMMA QueueStepTyped ==
    ASSUME Typed, QueueStep
    PROVE  Typed'
    <1> USE DEF worker, rows, bounds
    <1>1. CASE Claim
        <2>1. slot' \in [status: {"idle", "queued", "running"}, attempts: Nat, job: Nat,
                         ended: {None, "completed", "failed", "cancelled"}]
            <3> DEFINE n == slot.attempts + 1
            <3>1. slot' = [slot EXCEPT !.status = "running", !.attempts = n]
                BY <1>1 DEF Claim
            <3>2. n \in Nat
                BY DEF Typed, TypeOK
            <3> HIDE DEF n
            <3> QED
                BY <3>1, <3>2 DEF Typed, TypeOK
        <2> QED
            BY <1>1, <2>1 DEF Typed, Named, TypeOK, Claim, Goto
    <1>2. CASE Recover
        BY <1>2 DEF Typed, Named, TypeOK, Recover
    <1>3. CASE FailExpired
        <2>1. Interrupted(task) \in [Tasks -> TaskRow]
            BY InterruptedTyped DEF Typed, TypeOK
        <2> QED
            BY <1>3, <2>1 DEF Typed, Named, TypeOK, FailExpired, SettleSlot, Ended
    <1> QED
        BY <1>1, <1>2, <1>3 DEF QueueStep

(* A request's own record stays one, and names an approval when it must.   *)
LEMMA RequestMoves ==
    ASSUME Typed, NEW c \in Requests, NEW r \in RequestRow, Proceed(c, r),
           r.pc \in {"resolve", "task"} =>
               r.approval \in Approvals /\ approval'[r.approval].status # "absent",
           approval' \in [Approvals -> ApprovalRow],
           \A a \in Approvals :
               /\ approval'[a].task = approval[a].task
               /\ approval[a].status = "absent" <=> approval'[a].status = "absent",
           work' \in {"queued", "executing", "waiting_approval"} \cup Ended,
           task' \in [Tasks -> TaskRow], made' \in Nat,
           faults' \in [thrown: Nat, lost: Nat, events: Nat, cut: Nat],
           slot' \in [status: {"idle", "queued", "running"}, attempts: Nat, job: Nat,
                      ended: {None, "completed", "failed", "cancelled"}],
           UNCHANGED <<worker, version>>
    PROVE  Typed'
    <1> USE DEF worker
    <1>1. req' \in [Requests -> RequestRow]
        BY DEF Proceed, Typed, TypeOK
    <1>2. TypeOK'
        BY <1>1 DEF Typed, TypeOK
    <1>3. \A d \in Requests : req'[d].pc \in {"resolve", "task"} =>
             req'[d].approval \in Approvals /\ approval'[req'[d].approval].status # "absent"
        BY DEF Proceed, Typed, TypeOK, Named
    <1>4. \A a \in Approvals : approval'[a].status # "absent" => approval'[a].task \in Tasks
        BY DEF Named, Typed
    <1>5. pc' = "raised" => raised' \in Approvals /\ approval'[raised'].status # "absent"
        BY DEF Named, Typed
    <1>6. Named'
        BY <1>3, <1>4, <1>5 DEF Named
    <1> QED
        BY <1>2, <1>6 DEF Typed

LEMMA EnvironmentTyped ==
    ASSUME Typed, Environment
    PROVE  Typed'
    <1> USE DEF worker, rows, bounds
    <1>1. CASE WorkerDies
        BY <1>1, InitialRows, AttemptMoves DEF Typed, TypeOK, WorkerDies, EndAttempt
    <1>2. CASE StoreError
        BY <1>2 DEF Typed, Named, TypeOK, StoreError, Goto
    <1>3. CASE Reconcile
        <2>1. Interrupted(task) \in [Tasks -> TaskRow]
            BY InterruptedTyped DEF Typed, TypeOK
        <2> QED
            BY <1>3, <2>1 DEF Typed, Named, TypeOK, Reconcile, Ended
    <1>4. CASE \E t \in Tasks : ActionChanges(t)
        <2>1. PICK t \in Tasks : ActionChanges(t)
            BY <1>4
        <2>2. version' \in [Tasks -> Nat]
            BY <2>1 DEF ActionChanges, Typed, TypeOK
        <2> QED
            BY <2>1, <2>2 DEF Typed, Named, TypeOK, ActionChanges
    <1>5. CASE \E c \in Requests : RequestCut(c)
        <2>1. PICK c \in Requests : RequestCut(c)
            BY <1>5
        <2>2. Proceed(c, NoRequest)
            BY <2>1 DEF RequestCut, Answer, Proceed
        <2>3. NoRequest \in RequestRow /\ NoRequest.pc = "idle"
            BY InitialRows DEF NoRequest
        <2>4. /\ faults' \in [thrown: Nat, lost: Nat, events: Nat, cut: Nat]
              /\ UNCHANGED <<rows, slot, worker, version, made>>
            BY <2>1 DEF RequestCut, Typed, TypeOK
        <2> QED
            BY <2>2, <2>3, <2>4, RequestMoves DEF Typed, TypeOK
    <1> QED
        BY <1>1, <1>2, <1>3, <1>4, <1>5 DEF Environment

LEMMA RequestAt ==
    ASSUME NEW r \in RequestRow,
           NEW p \in {"idle", "check", "enqueue", "resolve", "task", "work", "list", "reset",
                      "job", "withdraw", "approvals", "close", "cancel"}
    PROVE  /\ [r EXCEPT !.pc = p] \in RequestRow
           /\ [r EXCEPT !.pc = p].pc = p
           /\ [r EXCEPT !.pc = p].approval = r.approval
    BY DEF RequestRow

(* What is left to a request that reads, or writes one task or the mission. *)
LEMMA RequestGoesOn ==
    ASSUME Typed, NEW c \in Requests, NEW r \in RequestRow, Proceed(c, r),
           r.pc \notin {"resolve", "task"}, UNCHANGED approval, Elsewhere,
           work' \in {"queued", "executing", "waiting_approval"} \cup Ended,
           task' \in [Tasks -> TaskRow],
           slot' \in [status: {"idle", "queued", "running"}, attempts: Nat, job: Nat,
                      ended: {None, "completed", "failed", "cancelled"}]
    PROVE  Typed'
    BY RequestMoves DEF Elsewhere, bounds, Typed, TypeOK

LEMMA OpenTyped ==
    ASSUME Typed, NEW c \in Requests, Open(c)
    PROVE  Typed'
    <1> USE DEF rows, bounds
    <1> DEFINE Starts(op, r) == /\ r \in RequestRow
                                /\ op \in Ops
                                /\ Opens(c, op, r)
                                /\ r.pc \in {"resolve", "task"} =>
                                      /\ r.approval \in Approvals
                                      /\ approval[r.approval].status # "absent"
    <1>1. ASSUME NEW op, NEW r, Starts(op, r)
          PROVE  Typed'
        <2>1. [r EXCEPT !.op = op] \in RequestRow
            BY <1>1 DEF RequestRow
        <2>2. Proceed(c, [r EXCEPT !.op = op])
            BY <1>1 DEF Opens, Proceed
        <2>3. /\ [r EXCEPT !.op = op].pc = r.pc
              /\ [r EXCEPT !.op = op].approval = r.approval
            BY <1>1 DEF RequestRow
        <2>4. made' \in Nat /\ UNCHANGED <<rows, slot, worker, version, faults>>
            BY <1>1 DEF Opens, Typed, TypeOK
        <2> HIDE DEF Starts
        <2>5. [r EXCEPT !.op = op].pc \in {"resolve", "task"} =>
                 /\ [r EXCEPT !.op = op].approval \in Approvals
                 /\ approval'[[r EXCEPT !.op = op].approval].status # "absent"
            BY <1>1, <2>3, <2>4 DEF Starts
        <2> QED
            BY <2>1, <2>2, <2>4, <2>5, RequestMoves DEF Typed, TypeOK
    <1>2. CASE AskStart(c)
        <2>1. Starts("start", [NoRequest EXCEPT !.pc = "check"])
            BY <1>2, InitialRows, RequestAt DEF AskStart, Opens
        <2> QED
            BY <2>1, <1>1
    <1>3. CASE OpenRetry(c)
        <2>1. Starts("retry", [NoRequest EXCEPT !.pc = "list"])
            BY <1>3, InitialRows, RequestAt DEF OpenRetry, Opens
        <2> QED
            BY <2>1, <1>1
    <1>4. CASE OpenCancel(c)
        <2>1. Starts("cancel", [NoRequest EXCEPT !.pc = "job"])
            BY <1>4, InitialRows, RequestAt DEF OpenCancel, Opens
        <2> QED
            BY <2>1, <1>1
    <1>5. ASSUME NEW op, OpenDecision(c, op)
          PROVE  Typed'
        <2>1. PICK a \in Approvals :
                /\ approval[a].status = "pending"
                /\ Opens(c, op, [NoRequest EXCEPT !.pc = "resolve", !.approval = a, !.rows = task])
            BY <1>5 DEF OpenDecision
        <2>2. /\ [NoRequest EXCEPT !.pc = "resolve", !.approval = a, !.rows = task] \in RequestRow
              /\ [NoRequest EXCEPT !.pc = "resolve", !.approval = a, !.rows = task].approval = a
            BY InitialRows DEF RequestRow, NoRequest, Typed, TypeOK
        <2>3. Starts(op, [NoRequest EXCEPT !.pc = "resolve", !.approval = a, !.rows = task])
            BY <2>1, <2>2 DEF Opens
        <2> QED
            BY <2>3, <1>1
    <1> QED
        BY <1>2, <1>3, <1>4, <1>5 DEF Open

LEMMA ContinueTyped ==
    ASSUME Typed, NEW c \in Requests, Continue(c)
    PROVE  Typed'
    <1> USE DEF rows, bounds, Elsewhere
    <1>1. req[c] \in RequestRow
        BY DEF Typed, TypeOK
    <1>2. /\ NoRequest \in RequestRow /\ NoRequest.pc = "idle"
          /\ work \in {"queued", "executing", "waiting_approval"} \cup Ended
          /\ task \in [Tasks -> TaskRow]
          /\ slot \in [status: {"idle", "queued", "running"}, attempts: Nat, job: Nat,
                       ended: {None, "completed", "failed", "cancelled"}]
        BY InitialRows DEF NoRequest, Typed, TypeOK
    <1>3. ASSUME NEW p, Step(c, p),
                 p \in {"idle", "check", "enqueue", "work", "list", "reset", "job",
                            "withdraw", "approvals", "close", "cancel"}
          PROVE  /\ [req[c] EXCEPT !.pc = p] \in RequestRow
                 /\ [req[c] EXCEPT !.pc = p].pc \notin {"resolve", "task"}
                 /\ Proceed(c, [req[c] EXCEPT !.pc = p])
        <2>1. p \in {"idle", "check", "enqueue", "resolve", "task", "work", "list", "reset",
                     "job", "withdraw", "approvals", "close", "cancel"}
            BY <1>3
        <2>2. [req[c] EXCEPT !.pc = p] \in RequestRow /\ [req[c] EXCEPT !.pc = p].pc = p
            BY <1>1, <2>1 DEF RequestRow
        <2>3. Proceed(c, [req[c] EXCEPT !.pc = p])
            BY <1>3 DEF Step, Proceed
        <2> QED
            BY <1>3, <2>2, <2>3
    <1>4. ASSUME Answer(c)
          PROVE  Proceed(c, NoRequest)
        BY <1>4 DEF Answer, Proceed
    <1>5. ASSUME NEW r \in RequestRow, NEW t, NEW s \in TaskStatuses, t \in Tasks
          PROVE  [task EXCEPT ![t] = [r.rows[t] EXCEPT !.status = s]] \in [Tasks -> TaskRow]
        <2>1. r.rows[t] \in TaskRow
            BY <1>5 DEF RequestRow
        <2>2. [r.rows[t] EXCEPT !.status = s] \in TaskRow
            BY <2>1, RowWithStatus
        <2> QED
            BY <1>2, <2>2, TableWithRow
    <1>6. ASSUME NEW r \in RequestRow, NEW x
          PROVE  /\ [r EXCEPT !.left = @ \ {x}] \in RequestRow
                 /\ [r EXCEPT !.left = @ \ {x}].pc = r.pc
        BY DEF RequestRow
    <1>7. CASE CheckNoJob(c)
        BY <1>2, <1>3, <1>4, <1>7, RequestGoesOn DEF CheckNoJob
    <1>8. CASE Enqueue(c)
        <2>1. slot' \in [status: {"idle", "queued", "running"}, attempts: Nat, job: Nat,
                         ended: {None, "completed", "failed", "cancelled"}]
            <3> DEFINE n == slot.job + 1
            <3>1. \/ slot' = [slot EXCEPT !.status = "queued", !.attempts = 0, !.job = n]
                  \/ slot' = slot
                BY <1>8 DEF Enqueue
            <3>2. n \in Nat
                BY <1>2
            <3> HIDE DEF n
            <3>3. [slot EXCEPT !.status = "queued", !.attempts = 0, !.job = n] \in
                     [status: {"idle", "queued", "running"}, attempts: Nat, job: Nat,
                      ended: {None, "completed", "failed", "cancelled"}]
                BY <1>2, <3>2
            <3> QED
                BY <1>2, <3>1, <3>3
        <2> QED
            BY <1>2, <1>4, <1>8, <2>1, RequestGoesOn DEF Enqueue
    <1>9. CASE ResolvePending(c)
        <2> DEFINE a == req[c].approval
        <2>1. a \in Approvals /\ approval[a] \in ApprovalRow /\ approval[a].status # "absent"
            BY <1>9 DEF ResolvePending, Deciding, Typed, TypeOK, Named
        <2>2. CASE StillPending(a)
            <3>1. PICK s \in {"approved", "rejected"} :
                    approval' = [approval EXCEPT ![a].status = s]
                BY <1>9, <2>2 DEF ResolvePending
            <3>2. /\ [req[c] EXCEPT !.pc = "task"] \in RequestRow
                  /\ [req[c] EXCEPT !.pc = "task"].approval = a
                  /\ Proceed(c, [req[c] EXCEPT !.pc = "task"])
                BY <1>1, <1>9, <2>2, RequestAt DEF ResolvePending, Step, Proceed
            <3> HIDE DEF a
            <3>3. /\ approval' \in [Approvals -> ApprovalRow]
                  /\ \A b \in Approvals : approval'[b].task = approval[b].task
                  /\ \A b \in Approvals : approval[b].status = "absent"
                                            <=> approval'[b].status = "absent"
                BY <2>1, <3>1 DEF ApprovalRow, Typed, TypeOK
            <3>4. approval'[a].status # "absent"
                BY <2>1, <3>3
            <3> QED
                BY <1>2, <1>9, <2>1, <3>2, <3>3, <3>4, RequestMoves
                DEF ResolvePending, Typed, TypeOK
        <2>3. CASE ~StillPending(a)
            BY <1>2, <1>4, <1>9, <2>3, RequestGoesOn DEF ResolvePending
        <2> QED
            BY <2>2, <2>3
    <1>10. CASE WriteDecidedTask(c)
        <2> DEFINE a == req[c].approval
                   t == approval[a].task
        <2>1. a \in Approvals /\ t \in Tasks
            BY <1>10 DEF WriteDecidedTask, Deciding, Typed, TypeOK, Named
        <2>2. DecidedRow(req[c].rows[t], req[c].op, a) \in TaskRow
            BY <1>1, <2>1, DecidedRowTyped DEF RequestRow
        <2>3. task' \in [Tasks -> TaskRow]
            BY <1>2, <1>10, <2>2, TableWithRow DEF WriteDecidedTask, WriteTask
        <2> QED
            BY <1>2, <1>3, <1>10, <2>3, RequestGoesOn DEF WriteDecidedTask
    <1>11. CASE WriteDecidedWork(c)
        BY <1>2, <1>3, <1>4, <1>11, RequestGoesOn DEF WriteDecidedWork, Ended
    <1>12. CASE ListForRetry(c)
        <2> DEFINE r == [req[c] EXCEPT !.pc = "reset", !.rows = task, !.left = Resettable(task)]
        <2>1. r \in RequestRow /\ r.pc \notin {"resolve", "task"}
            BY <1>1, <1>2 DEF RequestRow, Resettable
        <2> QED
            BY <1>2, <1>12, <2>1, RequestGoesOn DEF ListForRetry
    <1>13. CASE ResetTask(c)
        <2>1. PICK t \in req[c].left :
                /\ WriteTask(t, [req[c].rows[t] EXCEPT !.status = "pending"])
                /\ Proceed(c, [req[c] EXCEPT !.left = @ \ {t}])
            BY <1>13 DEF ResetTask
        <2>2. task' \in [Tasks -> TaskRow]
            <3>1. CASE t \in Tasks
                BY <1>1, <1>5, <2>1, <3>1 DEF WriteTask, TaskStatuses
            <3>2. CASE t \notin Tasks
                BY <1>2, <2>1, <3>2 DEF WriteTask
            <3> QED
                BY <3>1, <3>2
        <2> QED
            BY <1>1, <1>2, <1>6, <1>13, <2>1, <2>2, RequestGoesOn DEF ResetTask, In
    <1>14. CASE WriteRetriedWork(c)
        BY <1>2, <1>3, <1>14, RequestGoesOn DEF WriteRetriedWork
    <1>15. CASE ReadJobForCancel(c)
        <2>1. CASE RefusesCancel(slot.status)
            BY <1>2, <1>4, <1>15, <2>1, RequestGoesOn DEF ReadJobForCancel
        <2>2. CASE ~RefusesCancel(slot.status)
            <3>1. PICK p \in {"withdraw", "approvals"} :
                    Proceed(c, [req[c] EXCEPT !.job = slot.job, !.pc = p])
                BY <1>15, <2>2 DEF ReadJobForCancel
            <3>2. /\ [req[c] EXCEPT !.job = slot.job, !.pc = p] \in RequestRow
                  /\ [req[c] EXCEPT !.job = slot.job, !.pc = p].pc = p
                BY <1>1, <1>2 DEF RequestRow
            <3> QED
                BY <1>2, <1>15, <3>1, <3>2, RequestGoesOn DEF ReadJobForCancel
        <2> QED
            BY <2>1, <2>2
    <1>16. CASE WithdrawJob(c)
        <2>1. slot' \in [status: {"idle", "queued", "running"}, attempts: Nat, job: Nat,
                         ended: {None, "completed", "failed", "cancelled"}]
            BY <1>2, <1>16 DEF WithdrawJob, SettleSlot
        <2> QED
            BY <1>2, <1>3, <1>4, <1>16, <2>1, RequestGoesOn DEF WithdrawJob
    <1>17. CASE ListOpenDecisions(c)
        <2> DEFINE r == [req[c] EXCEPT !.pc = "close", !.left = OpenDecisions]
        <2>1. r \in RequestRow /\ r.pc \notin {"resolve", "task"}
            BY <1>1 DEF RequestRow, OpenDecisions
        <2> QED
            BY <1>2, <1>17, <2>1, RequestGoesOn DEF ListOpenDecisions
    <1>18. CASE CloseDecision(c)
        <2>1. PICK a \in req[c].left :
                /\ approval' = IF StillPending(a) THEN [approval EXCEPT ![a].status = "cancelled"]
                               ELSE approval
                /\ Proceed(c, [req[c] EXCEPT !.left = @ \ {a}])
            BY <1>18 DEF CloseDecision
        <2>2. /\ approval' \in [Approvals -> ApprovalRow]
              /\ \A b \in Approvals : approval'[b].task = approval[b].task
              /\ \A b \in Approvals : approval[b].status = "absent"
                                        <=> approval'[b].status = "absent"
            <3>0. approval \in [Approvals -> ApprovalRow]
                BY DEF Typed, TypeOK
            <3>1. CASE StillPending(a)
                <4>1. approval' = [approval EXCEPT ![a].status = "cancelled"]
                         /\ approval[a].status = "pending"
                    BY <2>1, <3>1 DEF StillPending
                <4> QED
                    BY <3>0, <4>1 DEF ApprovalRow
            <3>2. CASE ~StillPending(a)
                BY <2>1, <3>0, <3>2
            <3> QED
                BY <3>1, <3>2
        <2>3. /\ [req[c] EXCEPT !.left = @ \ {a}] \in RequestRow
              /\ [req[c] EXCEPT !.left = @ \ {a}].pc \notin {"resolve", "task"}
            BY <1>1, <1>6, <1>18 DEF CloseDecision, In
        <2> QED
            BY <1>2, <1>18, <2>1, <2>2, <2>3, RequestMoves DEF CloseDecision, Typed, TypeOK
    <1>19. CASE ListForCancel(c)
        <2> DEFINE r == [req[c] EXCEPT !.pc = "cancel", !.rows = task,
                                       !.left = {t \in Tasks : task[t].status \notin Ended}]
        <2>1. r \in RequestRow /\ r.pc \notin {"resolve", "task"}
            BY <1>1, <1>2 DEF RequestRow
        <2> QED
            BY <1>2, <1>19, <2>1, RequestGoesOn DEF ListForCancel
    <1>20. CASE CancelTask(c)
        <2>1. PICK t \in req[c].left :
                /\ WriteTask(t, [req[c].rows[t] EXCEPT !.status = "cancelled"])
                /\ Proceed(c, [req[c] EXCEPT !.left = @ \ {t}])
            BY <1>20 DEF CancelTask
        <2>2. task' \in [Tasks -> TaskRow]
            <3>1. CASE t \in Tasks
                BY <1>1, <1>5, <2>1, <3>1 DEF WriteTask, TaskStatuses, Ended
            <3>2. CASE t \notin Tasks
                BY <1>2, <2>1, <3>2 DEF WriteTask
            <3> QED
                BY <3>1, <3>2
        <2> QED
            BY <1>1, <1>2, <1>6, <1>20, <2>1, <2>2, RequestGoesOn DEF CancelTask, In
    <1>21. CASE WriteCancelledWork(c)
        BY <1>2, <1>4, <1>21, RequestGoesOn DEF WriteCancelledWork, Ended
    <1> QED
        BY <1>7, <1>8, <1>9, <1>10, <1>11, <1>12, <1>13, <1>14, <1>15, <1>16, <1>17, <1>18,
           <1>19, <1>20, <1>21 DEF Continue

LEMMA InitTyped ==
    ASSUME Init
    PROVE  Typed
    BY InitialRows DEF Init, Typed, TypeOK, Named, ApprovalRow, NoRequest, Ended

LEMMA NextTyped ==
    ASSUME Typed, [Next]_vars
    PROVE  Typed'
    <1>1. CASE UNCHANGED vars
        BY <1>1 DEF vars, worker, rows, bounds, Typed, TypeOK, Named
    <1> QED
        BY <1>1, AttemptStepTyped, QueueStepTyped, EnvironmentTyped, OpenTyped, ContinueTyped
        DEF Next

(* Whatever plan, approvals and requests there are, every row any actor    *)
(* reads, holds or writes back is a task row, and every approval the worker *)
(* or a request is about to act on exists.                                  *)
THEOREM TypeCorrect == Spec => []Typed
    BY InitTyped, NextTyped, PTL DEF Spec

(* Every variable has its type, for every value of the constants.          *)
THEOREM TypesHold == Spec => []TypeOK
    BY TypeCorrect, PTL DEF Typed

-----------------------------------------------------------------------------
(* No stale copy grants anything.  Every copy of a row, wherever an actor  *)
(* keeps it, says that it is approved only if the approval it names was    *)
(* granted for that task, and a copy of a row that asks for a decision     *)
(* is ready, running or completed only if it says that it is approved.     *)
SoundIn(ap, t, row) ==
    /\ Granted(row) => /\ row.request \in Approvals
                       /\ ap[row.request].task = t
                       /\ ap[row.request].status = "approved"
    /\ t \in Asks /\ row.status \in Going => Granted(row)

TableSound(ap, ts) == \A t \in Tasks : SoundIn(ap, t, ts[t])

CallSound(ap, t, call) ==
    /\ SoundIn(ap, t, call.row)
    /\ call.pc = "engine" => call.row.status = "running"

RequestSound(ap, r) ==
    /\ TableSound(ap, r.rows)
    /\ r.pc = "task" /\ r.op = "approve" => ap[r.approval].status = "approved"

TasksSound    == TableSound(approval, task)
SnapSound     == TableSound(approval, snap)
CallsSound    == \A t \in Tasks : CallSound(approval, t, exec[t])
RequestsSound == \A c \in Requests : RequestSound(approval, req[c])

Sound == TasksSound /\ SnapSound /\ CallsSound /\ RequestsSound

(* A granted approval stays granted and goes on naming its task.           *)
GrantsKept ==
    \A a \in Approvals : approval[a].status = "approved" =>
        approval'[a].status = "approved" /\ approval'[a].task = approval[a].task

LEMMA SoundStays ==
    ASSUME GrantsKept, NEW t, NEW row, SoundIn(approval, t, row)
    PROVE  SoundIn(approval', t, row)
    BY DEF GrantsKept, SoundIn

LEMMA SameApprovals ==
    ASSUME UNCHANGED approval
    PROVE  GrantsKept
    BY DEF GrantsKept

(* What a step leaves alone stays sound.                                   *)
LEMMA Untouched ==
    ASSUME Typed, Sound, GrantsKept
    PROVE  /\ UNCHANGED task => TasksSound'
           /\ UNCHANGED snap => SnapSound'
           /\ UNCHANGED exec => CallsSound'
           /\ UNCHANGED req => RequestsSound'
    <1>1. UNCHANGED task => TasksSound'
        BY SoundStays DEF Sound, TasksSound, TableSound
    <1>2. UNCHANGED snap => SnapSound'
        BY SoundStays DEF Sound, SnapSound, TableSound
    <1>3. UNCHANGED exec => CallsSound'
        BY SoundStays DEF Sound, CallsSound, CallSound
    <1>4. ASSUME UNCHANGED req, NEW c \in Requests
          PROVE  RequestSound(approval', req[c])
        <2>1. TableSound(approval', req[c].rows)
            BY SoundStays DEF Sound, RequestsSound, RequestSound, TableSound
        <2>2. req[c].pc = "task" /\ req[c].op = "approve" =>
                 approval'[req[c].approval].status = "approved"
            BY DEF Sound, RequestsSound, RequestSound, GrantsKept, Typed, Named
        <2> QED
            BY <2>1, <2>2 DEF RequestSound
    <1>5. UNCHANGED req => RequestsSound'
        BY <1>4 DEF RequestsSound
    <1> QED
        BY <1>1, <1>2, <1>3, <1>5

LEMMA SoundWithStatus ==
    ASSUME NEW ap, NEW t, NEW row \in TaskRow, SoundIn(ap, t, row), NEW s \in TaskStatuses,
           s \in Going => t \notin Asks \/ Granted(row)
    PROVE  SoundIn(ap, t, [row EXCEPT !.status = s])
    BY DEF SoundIn, TaskRow, Granted

LEMMA TableSoundWith ==
    ASSUME NEW ap, NEW ts \in [Tasks -> TaskRow], TableSound(ap, ts),
           NEW t, NEW row, SoundIn(ap, t, row)
    PROVE  TableSound(ap, [ts EXCEPT ![t] = row])
    BY DEF TableSound

LEMMA InitialSound ==
    /\ \A ap : TableSound(ap, Planned)
    /\ \A ap : \A t \in Tasks : CallSound(ap, t, NoCalls[t])
    /\ \A ap, t : CallSound(ap, t, NoCall)
    /\ \A ap : RequestSound(ap, NoRequest)
    BY DEF TableSound, Planned, CallSound, NoCalls, NoCall, RequestSound, NoRequest, SoundIn,
           PlannedRow, Granted, Going

(* A step that writes the row of one task and moves the attempt.           *)
LEMMA OneTaskSound ==
    ASSUME Typed, Sound, NEW t, NEW row, WriteTask(t, row), SoundIn(approval, t, row),
           UNCHANGED <<approval, snap>>, CallsSound', RequestsSound'
    PROVE  Sound'
    <1>1. TasksSound'
        BY TableSoundWith DEF WriteTask, Sound, TasksSound, Typed, TypeOK
    <1> QED
        BY <1>1, SameApprovals, Untouched DEF Sound

(* A step of the attempt that writes no row.                               *)
LEMMA NoTaskSound ==
    ASSUME Typed, Sound, UNCHANGED <<approval, task, req>>, SnapSound', CallsSound'
    PROVE  Sound'
    BY SameApprovals, Untouched DEF Sound

LEMMA InterruptedSound ==
    ASSUME NEW ap, NEW ts \in [Tasks -> TaskRow], TableSound(ap, ts)
    PROVE  TableSound(ap, Interrupted(ts))
    <1> SUFFICES ASSUME NEW t \in Tasks
                 PROVE  SoundIn(ap, t, Interrupted(ts)[t])
        BY DEF TableSound
    <1>1. SoundIn(ap, t, ts[t]) /\ ts[t] \in TaskRow
        BY DEF TableSound
    <1>2. SoundIn(ap, t, [ts[t] EXCEPT !.status = "failed"])
        BY <1>1, SoundWithStatus DEF TaskStatuses, Ended, Going
    <1>3. Interrupted(ts)[t] \in {ts[t], [ts[t] EXCEPT !.status = "failed"]}
        BY DEF Interrupted
    <1> QED
        BY <1>1, <1>2, <1>3

(* One call of the batch changes and its copy is sound.                    *)
LEMMA CallReplaced ==
    ASSUME Typed, Sound, UNCHANGED approval, NEW t, NEW call, CallSound(approval, t, call),
           exec' = [exec EXCEPT ![t] = call]
    PROVE  CallsSound'
    BY DEF Sound, CallsSound, Typed, TypeOK

LEMMA CallMovesSound ==
    ASSUME Typed, Sound, UNCHANGED approval, NEW t \in Tasks, NEW p, Call(t, p),
           p # "engine"
    PROVE  CallsSound'
    <1>1. exec[t] \in CallRow
        BY DEF Typed, TypeOK
    <1>2. CallSound(approval, t, [exec[t] EXCEPT !.pc = p])
        BY <1>1 DEF CallSound, Sound, CallsSound, CallRow
    <1>3. exec' = [exec EXCEPT ![t] = [exec[t] EXCEPT !.pc = p]]
        BY DEF Call
    <1> QED
        BY <1>2, <1>3, CallReplaced

LEMMA RequestsStay ==
    ASSUME Typed, Sound, UNCHANGED <<approval, req>>
    PROVE  RequestsSound'
    BY SameApprovals, Untouched

LEMMA ExecuteStepSound ==
    ASSUME Typed, Sound, ExecuteStep
    PROVE  Sound'
    <1> USE DEF rows, bounds, At
    <1>1. PICK t \in Tasks :
            \/ Begin(t) \/ AgentUnfit(t) \/ StopForNewApproval(t) \/ ClaimTask(t)
            \/ EngineEnds(t) \/ StepRecorded(t) \/ RecordThrows(t)
            \/ EngineResultLost(t) \/ ReadRejected(t) \/ FailRejected(t)
        BY DEF ExecuteStep
    <1>2. /\ UNCHANGED <<approval, snap, req>>
          /\ pc = "execute"
        BY <1>1 DEF Begin, AgentUnfit, StopForNewApproval, ClaimTask, EngineEnds, StepRecorded,
           RecordThrows, EngineResultLost, ReadRejected, FailRejected
    <1>3. SnapSound' /\ RequestsSound'
        BY <1>2, SameApprovals, Untouched
    <1>4. /\ exec[t] \in CallRow /\ exec[t].row \in TaskRow /\ task[t] \in TaskRow
          /\ SoundIn(approval, t, task[t]) /\ CallSound(approval, t, exec[t])
          /\ SoundIn(approval, t, exec[t].row)
        BY DEF Typed, TypeOK, CallRow, Sound, TasksSound, TableSound, CallsSound, CallSound
    <1>5. \A p : CallSound(approval, t, [NoCall EXCEPT !.pc = p])
                    \/ p = "engine"
        BY InitialSound DEF CallSound, NoCall
    <1>6. ASSUME EndCall(t)
          PROVE  CallsSound'
        BY <1>2, <1>6, InitialSound, CallReplaced DEF EndCall
    <1>7. CASE Begin(t)
        <2> DEFINE bad   == [NoCall EXCEPT !.pc = "rejected"]
                   going == [pc |-> IF Drifted(t, task[t]) THEN "hold" ELSE "claim",
                             row |-> task[t], version |-> version[t]]
        <2>1. CallSound(approval, t, NoCall) /\ CallSound(approval, t, bad)
            BY <1>5, InitialSound
        <2>2. CallSound(approval, t, going)
            <3>1. PICK p \in {"hold", "claim"} :
                    going = [pc |-> p, row |-> task[t], version |-> version[t]]
                OBVIOUS
            <3> HIDE DEF going
            <3>2. going.row = task[t] /\ going.pc # "engine"
                BY <3>1
            <3> QED
                BY <1>4, <3>2 DEF CallSound
        <2>3. exec' = [exec EXCEPT ![t] =
                         IF task[t].status \in {"completed", "running"} THEN NoCall
                         ELSE IF task[t].status # "ready" THEN bad ELSE going]
            BY <1>7 DEF Begin
        <2> HIDE DEF bad, going
        <2>5. CallsSound'
            BY <1>2, <2>1, <2>2, <2>3, CallReplaced
        <2> QED
            BY <1>2, <1>3, <1>7, <2>5, NoTaskSound DEF Begin
    <1>8. CASE AgentUnfit(t)
        BY <1>2, <1>3, <1>8, CallMovesSound, NoTaskSound DEF AgentUnfit
    <1>9. CASE StopForNewApproval(t)
        <2>1. SoundIn(approval, t, [exec[t].row EXCEPT !.status = "pending",
                                        !.decision = "superseded", !.hash = None])
            BY <1>4 DEF SoundIn, TaskRow, Granted, Going
        <2> QED
            BY <1>2, <1>3, <1>6, <1>9, <2>1, OneTaskSound DEF StopForNewApproval
    <1>10. CASE ClaimTask(t)
        <2> DEFINE run == [task[t] EXCEPT !.status = "running"]
        <2>1. CASE Claimable(task[t])
            <3>1. SoundIn(approval, t, run) /\ run.status = "running"
                <4>1. t \notin Asks \/ Granted(task[t])
                    BY <1>4, <2>1 DEF SoundIn, Claimable, Going
                <4> QED
                    BY <1>4, <4>1, SoundWithStatus DEF TaskStatuses, TaskRow
            <3>2. exec' = [exec EXCEPT ![t] = [exec[t] EXCEPT !.pc = "engine", !.row = run]]
                BY <1>10, <2>1 DEF ClaimTask
            <3>3. WriteTask(t, run)
                BY <1>10, <2>1 DEF ClaimTask
            <3>4. CallSound(approval, t, [exec[t] EXCEPT !.pc = "engine", !.row = run])
                BY <1>4, <3>1 DEF CallSound, CallRow
            <3> HIDE DEF run
            <3>5. CallsSound'
                BY <1>2, <3>2, <3>4, CallReplaced
            <3> QED
                BY <1>2, <1>3, <3>1, <3>3, <3>5, OneTaskSound
        <2>2. CASE ~Claimable(task[t])
            BY <1>2, <1>3, <1>6, <1>10, <2>2, NoTaskSound DEF ClaimTask
        <2> QED
            BY <2>1, <2>2
    <1>11. CASE EngineEnds(t)
        <2>1. PICK status \in {"completed", "failed"} :
                WriteTask(t, [exec[t].row EXCEPT !.status = status])
            BY <1>11 DEF EngineEnds
        <2>2. t \notin Asks \/ Granted(exec[t].row)
            BY <1>4, <1>11 DEF EngineEnds, CallSound, SoundIn, Going
        <2>3. SoundIn(approval, t, [exec[t].row EXCEPT !.status = status])
            BY <1>4, <2>2, SoundWithStatus DEF TaskStatuses, Ended
        <2>4. CallsSound'
            BY <1>2, <1>6, <1>11, CallMovesSound DEF EngineEnds
        <2> QED
            BY <1>2, <1>3, <1>11, <2>1, <2>3, <2>4, OneTaskSound DEF EngineEnds
    <1>15. CASE StepRecorded(t)
        BY <1>2, <1>3, <1>6, <1>15, NoTaskSound DEF StepRecorded
    <1>16. CASE RecordThrows(t)
        <2>1. SoundIn(approval, t, [exec[t].row EXCEPT !.status = "failed"])
            BY <1>4, SoundWithStatus DEF TaskStatuses, Ended, Going
        <2> QED
            BY <1>2, <1>3, <1>6, <1>16, <2>1, OneTaskSound DEF RecordThrows
    <1>12. CASE EngineResultLost(t)
        BY <1>2, <1>3, <1>12, CallMovesSound, NoTaskSound DEF EngineResultLost
    <1>13. CASE ReadRejected(t)
        <2> DEFINE refused == [NoCall EXCEPT !.pc = "refused", !.row = task[t]]
        <2>1. CallSound(approval, t, NoCall) /\ CallSound(approval, t, refused)
            BY <1>4, InitialSound DEF CallSound, NoCall
        <2>2. exec' = [exec EXCEPT ![t] = IF task[t].status = "ready" THEN refused ELSE NoCall]
            BY <1>13 DEF ReadRejected
        <2> HIDE DEF refused
        <2>3. CallsSound'
            BY <1>2, <2>1, <2>2, CallReplaced
        <2> QED
            BY <1>2, <1>3, <1>13, <2>3, NoTaskSound DEF ReadRejected
    <1>14. CASE FailRejected(t)
        <2>1. SoundIn(approval, t, [exec[t].row EXCEPT !.status = "failed"])
            BY <1>4, SoundWithStatus DEF TaskStatuses, Ended, Going
        <2> QED
            BY <1>2, <1>3, <1>6, <1>14, <2>1, OneTaskSound DEF FailRejected
    <1> QED
        BY <1>1, <1>7, <1>8, <1>9, <1>10, <1>11, <1>12, <1>13, <1>14, <1>15, <1>16

LEMMA AttemptStepSound ==
    ASSUME Typed, Sound, AttemptStep
    PROVE  Sound'
    <1> USE DEF rows, bounds
    <1>1. ASSUME NEW t, t \in todo, NEW s, s \in TaskStatuses,
                 s \in Going => t \notin Asks \/ Granted(snap[t])
          PROVE  SoundIn(approval, t, [snap[t] EXCEPT !.status = s])
        <2>1. snap[t] \in TaskRow /\ SoundIn(approval, t, snap[t])
            BY <1>1 DEF Typed, TypeOK, Sound, SnapSound, TableSound
        <2> QED
            BY <1>1, <2>1, SoundWithStatus
    <1>2. ASSUME UNCHANGED <<approval, task, req, snap, exec>>
          PROVE  Sound'
        BY <1>2, SameApprovals, Untouched DEF Sound
    <1>3. ASSUME UNCHANGED <<approval, task, req>>, snap' = task
          PROVE  SnapSound' /\ (UNCHANGED exec => Sound')
        <2>1. SnapSound'
            BY <1>3 DEF Sound, TasksSound, SnapSound, TableSound
        <2> QED
            BY <1>3, <2>1, SameApprovals, Untouched DEF Sound
    <1>4. ASSUME UNCHANGED <<approval, snap, exec, req>>,
                 NEW t, NEW row, WriteTask(t, row), SoundIn(approval, t, row)
          PROVE  Sound'
        BY <1>4, SameApprovals, Untouched, OneTaskSound
    <1>5. ASSUME UNCHANGED <<approval, task, req>>, EndAttempt
          PROVE  Sound'
        <2>1. SnapSound' /\ CallsSound'
            BY <1>5, InitialSound DEF EndAttempt, SnapSound, CallsSound
        <2> QED
            BY <1>5, <2>1, NoTaskSound
    <1>6. CASE ReadOrphans
        BY <1>3, <1>6 DEF ReadOrphans
    <1>7. CASE ReclaimOrphan
        <2>1. PICK t \in todo : WriteTask(t, [snap[t] EXCEPT !.status = "pending"])
            BY <1>7 DEF ReclaimOrphan, WriteTask
        <2> QED
            BY <1>1, <1>4, <1>7, <2>1 DEF ReclaimOrphan, TaskStatuses, Going
    <1>8. CASE ReadWork
        BY <1>2, <1>8 DEF ReadWork, Goto
    <1>9. CASE StartWork
        BY <1>2, <1>9 DEF StartWork, Goto
    <1>10. CASE Load
        BY <1>3, <1>10 DEF Load
    <1>11. CASE WaitForDecision \/ FinishWork \/ FailWork \/ NoTaskReady \/ RecordFailure
        BY <1>2, <1>11
        DEF WaitForDecision, FinishWork, FailWork, NoTaskReady, RecordFailure, WriteWork, Goto
    <1>12. CASE DenyTask
        <2>1. PICK t \in todo : WriteTask(t, [snap[t] EXCEPT !.status = "failed"])
            BY <1>12 DEF DenyTask
        <2> QED
            BY <1>1, <1>4, <1>12, <2>1 DEF DenyTask, TaskStatuses, Ended, Going
    <1>13. CASE MarkReady
        <2>1. PICK t \in todo : /\ ~NeedsDecision(t, snap)
                                /\ WriteTask(t, [snap[t] EXCEPT !.status = "ready"])
            BY <1>13 DEF MarkReady
        <2>2. SoundIn(approval, t, [snap[t] EXCEPT !.status = "ready"])
            BY <1>1, <2>1 DEF NeedsDecision, TaskStatuses
        <2> QED
            BY <1>4, <1>13, <2>1, <2>2 DEF MarkReady
    <1>14. CASE SkipAsked
        BY <1>2, <1>14 DEF SkipAsked
    <1>15. CASE RaiseApproval
        <2> DEFINE a == CHOOSE x \in Unused : TRUE
        <2>1. a \in Unused /\ UNCHANGED <<task, snap, exec, req>>
            BY <1>15 DEF RaiseApproval
        <2>2. PICK t \in todo :
                approval' = [approval EXCEPT ![a] =
                               [status |-> "pending", task |-> t, hash |-> version[t]]]
            BY <1>15 DEF RaiseApproval
        <2>3. a \in Approvals /\ approval[a].status = "absent"
            BY <2>1 DEF Unused
        <2> HIDE DEF a
        <2>4. GrantsKept
            BY <2>2, <2>3 DEF GrantsKept, Typed, TypeOK
        <2> QED
            BY <2>1, <2>4, Untouched DEF Sound
    <1>16. CASE HoldTask
        <2> DEFINE row == [status |-> "waiting", decision |-> "pending", request |-> raised,
                           hash |-> approval[raised].hash]
        <2>1. PICK t : WriteTask(t, row)
            BY <1>16 DEF HoldTask
        <2>2. SoundIn(approval, t, row)
            BY DEF SoundIn, Granted, Going
        <2> HIDE DEF row
        <2> QED
            BY <1>4, <1>16, <2>1, <2>2 DEF HoldTask
    <1>17. CASE Reload
        <2>1. CallsSound'
            <3>1. CASE AfterMarks(task) = "execute"
                <4>1. PICK b :
                        exec' = [t \in Tasks |->
                                   IF t \in b THEN [NoCall EXCEPT !.pc = "check"] ELSE NoCall]
                    BY <1>17, <3>1 DEF Reload
                <4>2. \A t : /\ CallSound(approval, t, [NoCall EXCEPT !.pc = "check"])
                             /\ CallSound(approval, t, NoCall)
                    BY InitialSound DEF CallSound, NoCall
                <4> QED
                    BY <1>17, <4>1, <4>2 DEF CallsSound, Reload
            <3>2. CASE AfterMarks(task) # "execute"
                BY <1>17, <3>2, SameApprovals, Untouched DEF Reload
            <3> QED
                BY <3>1, <3>2
        <2> QED
            BY <1>3, <1>17, <2>1, NoTaskSound DEF Reload
    <1>18. CASE ExecuteStep
        BY <1>18, ExecuteStepSound
    <1>19. CASE BatchEnds
        BY <1>2, <1>19 DEF BatchEnds, Goto
    <1>20. CASE CompleteJob \/ FailJob \/ RequeueJob
        BY <1>5, <1>20 DEF CompleteJob, FailJob, RequeueJob
    <1>21. CASE ReadForFailure
        BY <1>2, <1>21 DEF ReadForFailure, Goto
    <1> QED
        BY <1>6, <1>7, <1>8, <1>9, <1>10, <1>11, <1>12, <1>13, <1>14, <1>15, <1>16, <1>17,
           <1>18, <1>19, <1>20, <1>21 DEF AttemptStep

LEMMA QueueOrEnvironmentSound ==
    ASSUME Typed, Sound, QueueStep \/ Environment, \A c \in Requests : ~RequestCut(c)
    PROVE  Sound'
    <1> USE DEF worker, rows, bounds
    <1>1. /\ UNCHANGED <<approval, req>>
          /\ task' \in {task, Interrupted(task)}
          /\ UNCHANGED <<snap, exec>> \/ EndAttempt
        BY DEF QueueStep, Environment, Claim, Recover, FailExpired, WorkerDies, StoreError,
               Reconcile, ActionChanges, Goto
    <1>2. TasksSound'
        <2>1. TableSound(approval, Interrupted(task))
            BY InterruptedSound DEF Sound, TasksSound, Typed, TypeOK
        <2> QED
            BY <1>1, <2>1 DEF Sound, TasksSound
    <1>3. SnapSound' /\ CallsSound'
        <2>1. CASE UNCHANGED <<snap, exec>>
            BY <1>1, <2>1, SameApprovals, Untouched
        <2>2. CASE EndAttempt
            BY <2>2, InitialSound DEF EndAttempt, SnapSound, CallsSound
        <2> QED
            BY <1>1, <2>1, <2>2
    <1> QED
        BY <1>1, <1>2, <1>3, SameApprovals, Untouched DEF Sound

(* A request that goes on with a sound copy.                               *)
LEMMA RequestReplaced ==
    ASSUME Typed, Sound, GrantsKept, NEW c \in Requests, NEW r, RequestSound(approval', r),
           Proceed(c, r)
    PROVE  RequestsSound'
    <1>1. ASSUME NEW d \in Requests, d # c
          PROVE  RequestSound(approval', req[d])
        <2>1. TableSound(approval', req[d].rows)
            BY SoundStays DEF Sound, RequestsSound, RequestSound, TableSound
        <2>2. req[d].pc = "task" /\ req[d].op = "approve" =>
                 approval'[req[d].approval].status = "approved"
            BY DEF Sound, RequestsSound, RequestSound, GrantsKept, Typed, Named
        <2> QED
            BY <2>1, <2>2 DEF RequestSound
    <1>2. req' = [req EXCEPT ![c] = r] /\ req \in [Requests -> RequestRow]
        BY DEF Proceed, Typed, TypeOK
    <1> QED
        BY <1>1, <1>2 DEF RequestsSound

(* What is left to a request that writes no row.                           *)
LEMMA RequestOnlySound ==
    ASSUME Typed, Sound, GrantsKept, NEW c \in Requests, NEW r, RequestSound(approval', r),
           Proceed(c, r), UNCHANGED <<task, snap, exec>>
    PROVE  Sound'
    BY RequestReplaced, Untouched DEF Sound

LEMMA RequestCutSound ==
    ASSUME Typed, Sound, NEW c \in Requests, RequestCut(c)
    PROVE  Sound'
    <1>1. Proceed(c, NoRequest) /\ UNCHANGED <<approval, task, snap, exec>>
        BY DEF RequestCut, Answer, Proceed, rows, worker
    <1> QED
        BY <1>1, InitialSound, SameApprovals, RequestOnlySound

(* ... and to one that writes one.                                         *)
LEMMA RequestTaskSound ==
    ASSUME Typed, Sound, NEW c \in Requests, NEW r, RequestSound(approval, r), Proceed(c, r),
           NEW t, NEW row, WriteTask(t, row), SoundIn(approval, t, row),
           UNCHANGED <<approval, snap, exec>>
    PROVE  Sound'
    <1>1. RequestsSound'
        BY SameApprovals, RequestReplaced
    <1>2. CallsSound'
        BY SameApprovals, Untouched
    <1> QED
        BY <1>1, <1>2, OneTaskSound

LEMMA OpenSound ==
    ASSUME Typed, Sound, NEW c \in Requests, Open(c)
    PROVE  Sound'
    <1> USE DEF worker, rows
    <1>1. ASSUME NEW op, NEW r \in RequestRow, r.pc # "task", TableSound(approval, r.rows),
                 Opens(c, op, r)
          PROVE  Sound'
        <2>1. RequestSound(approval, [r EXCEPT !.op = op])
            BY <1>1 DEF RequestSound, RequestRow
        <2>2. Proceed(c, [r EXCEPT !.op = op]) /\ UNCHANGED <<approval, task, snap, exec>>
            BY <1>1 DEF Opens, Proceed
        <2>3. RequestSound(approval', [r EXCEPT !.op = op])
            BY <2>1, <2>2
        <2> QED
            BY <2>2, <2>3, SameApprovals, RequestOnlySound
    <1>2. ASSUME NEW op, NEW p \in {"check", "list", "job"},
                 Opens(c, op, [NoRequest EXCEPT !.pc = p])
          PROVE  Sound'
        <2>1. /\ [NoRequest EXCEPT !.pc = p] \in RequestRow
              /\ [NoRequest EXCEPT !.pc = p].pc # "task"
              /\ [NoRequest EXCEPT !.pc = p].rows = Planned
            BY <1>2, InitialRows DEF NoRequest, RequestRow
        <2> QED
            BY <1>1, <1>2, <2>1, InitialSound
    <1>3. CASE AskStart(c) \/ OpenRetry(c) \/ OpenCancel(c)
        BY <1>2, <1>3 DEF AskStart, OpenRetry, OpenCancel
    <1>4. ASSUME NEW op, OpenDecision(c, op)
          PROVE  Sound'
        <2>1. PICK a \in Approvals :
                Opens(c, op, [NoRequest EXCEPT !.pc = "resolve", !.approval = a, !.rows = task])
            BY <1>4 DEF OpenDecision
        <2> DEFINE r == [NoRequest EXCEPT !.pc = "resolve", !.approval = a, !.rows = task]
        <2>2. r \in RequestRow /\ r.pc # "task" /\ r.rows = task
            BY InitialRows DEF RequestRow, NoRequest, Typed, TypeOK
        <2>3. TableSound(approval, r.rows)
            BY <2>2 DEF Sound, TasksSound
        <2> QED
            BY <1>1, <2>1, <2>2, <2>3
    <1> QED
        BY <1>3, <1>4 DEF Open

LEMMA ContinueSound ==
    ASSUME Typed, Sound, NEW c \in Requests, Continue(c)
    PROVE  Sound'
    <1> USE DEF worker, rows, Elsewhere
    <1>1. /\ req[c] \in RequestRow /\ RequestSound(approval, req[c])
          /\ TableSound(approval, req[c].rows)
        BY DEF Typed, TypeOK, Sound, RequestsSound, RequestSound
    <1>2. ASSUME NEW r \in RequestRow, TableSound(approval, r.rows), r.pc # "task",
                 Proceed(c, r), UNCHANGED <<approval, task, snap, exec>>
          PROVE  Sound'
        <2>1. RequestSound(approval', r)
            BY <1>2 DEF RequestSound
        <2> QED
            BY <1>2, <2>1, SameApprovals, RequestOnlySound
    <1>3. ASSUME NEW p, Step(c, p), p # "task"
          PROVE  /\ Proceed(c, [req[c] EXCEPT !.pc = p])
                 /\ RequestSound(approval, [req[c] EXCEPT !.pc = p])
        BY <1>1, <1>3 DEF Step, Proceed, RequestSound, RequestRow
    <1>4. ASSUME Answer(c)
          PROVE  Proceed(c, NoRequest)
        BY <1>4 DEF Answer, Proceed
    <1>5. ASSUME UNCHANGED <<approval, task, snap, exec>>,
                 Answer(c) \/ \E p : Step(c, p) /\ p # "task"
          PROVE  Sound'
        <2>1. PICK r : Proceed(c, r) /\ RequestSound(approval, r)
            BY <1>3, <1>4, <1>5, InitialSound
        <2>2. RequestSound(approval', r)
            BY <1>5, <2>1
        <2> QED
            BY <1>5, <2>1, <2>2, SameApprovals, RequestOnlySound
    <1>6. CASE CheckNoJob(c) \/ Enqueue(c) \/ WriteDecidedWork(c) \/ WriteRetriedWork(c)
                 \/ WriteCancelledWork(c) \/ WithdrawJob(c)
        BY <1>5, <1>6 DEF CheckNoJob, Enqueue, WriteDecidedWork, WriteRetriedWork,
                          WriteCancelledWork, WithdrawJob
    <1>7. CASE ResolvePending(c)
        <2> DEFINE a == req[c].approval
        <2>1. a \in Approvals /\ UNCHANGED <<task, snap, exec>>
            BY <1>7 DEF ResolvePending, Deciding, Typed, Named
        <2>2. CASE StillPending(a)
            <3> DEFINE s == IF req[c].op = "approve" THEN "approved" ELSE "rejected"
                       r == [req[c] EXCEPT !.pc = "task"]
            <3>1. /\ approval' = [approval EXCEPT ![a].status = s]
                  /\ Proceed(c, r)
                BY <1>7, <2>2 DEF ResolvePending, Step, Proceed
            <3>2. r.op = req[c].op /\ r.approval = a /\ r.rows = req[c].rows
                BY <1>1 DEF RequestRow
            <3>3. r.op = "approve" => s = "approved"
                BY <3>2
            <3> HIDE DEF a, s, r
            <3>4. GrantsKept /\ approval'[a].status = s
                BY <2>1, <2>2, <3>1 DEF GrantsKept, StillPending, Typed, TypeOK, ApprovalRow
            <3>5. TableSound(approval', r.rows)
                BY <1>1, <3>2, <3>4, SoundStays DEF TableSound
            <3>6. RequestSound(approval', r)
                BY <3>2, <3>3, <3>4, <3>5 DEF RequestSound
            <3> QED
                BY <2>1, <3>1, <3>4, <3>6, RequestOnlySound
        <2>3. CASE ~StillPending(a)
            BY <1>5, <1>7, <2>3 DEF ResolvePending
        <2> QED
            BY <2>2, <2>3
    <1>8. CASE WriteDecidedTask(c)
        <2> DEFINE a   == req[c].approval
                   t   == approval[a].task
                   row == DecidedRow(req[c].rows[t], req[c].op, a)
        <2>1. /\ a \in Approvals /\ t \in Tasks /\ req[c].rows[t] \in TaskRow
              /\ req[c].op = "approve" => approval[a].status = "approved"
            BY <1>1, <1>8 DEF WriteDecidedTask, Deciding, Typed, TypeOK, Named, RequestSound,
                              RequestRow
        <2>2. SoundIn(approval, t, row)
            BY <2>1 DEF SoundIn, DecidedRow, TaskRow, Granted, Going
        <2>3. /\ WriteTask(t, row) /\ Step(c, "work")
              /\ UNCHANGED <<approval, snap, exec>>
            BY <1>8 DEF WriteDecidedTask
        <2> HIDE DEF row
        <2> QED
            BY <1>3, <2>2, <2>3, RequestTaskSound
    <1>9. CASE ListForRetry(c) \/ ListForCancel(c)
        <2>1. PICK p \in {"reset", "cancel"}, left \in SUBSET Tasks :
                Proceed(c, [req[c] EXCEPT !.pc = p, !.rows = task, !.left = left])
            BY <1>9 DEF ListForRetry, ListForCancel, Resettable
        <2> DEFINE r == [req[c] EXCEPT !.pc = p, !.rows = task, !.left = left]
        <2>2. r \in RequestRow /\ r.pc # "task" /\ r.rows = task
            BY <1>1 DEF RequestRow, Typed, TypeOK
        <2>3. TableSound(approval, r.rows)
            BY <2>2 DEF Sound, TasksSound
        <2>4. UNCHANGED <<approval, task, snap, exec>>
            BY <1>9 DEF ListForRetry, ListForCancel
        <2> QED
            BY <1>2, <2>1, <2>2, <2>3, <2>4
    <1>10. ASSUME NEW t, NEW s \in {"pending", "cancelled"}, t \in req[c].left,
                  WriteTask(t, [req[c].rows[t] EXCEPT !.status = s]),
                  Proceed(c, [req[c] EXCEPT !.left = @ \ {t}]),
                  UNCHANGED <<approval, snap, exec>>
           PROVE  Sound'
        <2>1. RequestSound(approval, [req[c] EXCEPT !.left = @ \ {t}])
            BY <1>1 DEF RequestSound, RequestRow
        <2>2. CASE t \in Tasks
            <3>1. req[c].rows[t] \in TaskRow /\ SoundIn(approval, t, req[c].rows[t])
                BY <1>1, <2>2 DEF RequestRow, TableSound
            <3>2. SoundIn(approval, t, [req[c].rows[t] EXCEPT !.status = s])
                BY <1>10, <3>1, SoundWithStatus DEF TaskStatuses, Ended, Going
            <3> QED
                BY <1>10, <2>1, <3>2, RequestTaskSound
        <2>3. CASE t \notin Tasks
            <3>1. UNCHANGED task
                BY <1>10, <2>3 DEF WriteTask, Typed, TypeOK
            <3> QED
                BY <1>10, <2>1, <3>1, SameApprovals, RequestOnlySound
        <2> QED
            BY <2>2, <2>3
    <1>11. CASE ResetTask(c) \/ CancelTask(c)
        BY <1>10, <1>11 DEF ResetTask, CancelTask
    <1>12. CASE ReadJobForCancel(c)
        <2>1. CASE RefusesCancel(slot.status)
            BY <1>5, <1>12, <2>1 DEF ReadJobForCancel
        <2>2. CASE ~RefusesCancel(slot.status)
            <3>1. PICK p \in {"withdraw", "approvals"} :
                    Proceed(c, [req[c] EXCEPT !.job = slot.job, !.pc = p])
                BY <1>12, <2>2 DEF ReadJobForCancel
            <3> DEFINE r == [req[c] EXCEPT !.job = slot.job, !.pc = p]
            <3>2. r \in RequestRow /\ r.pc # "task" /\ r.rows = req[c].rows
                BY <1>1 DEF RequestRow, Typed, TypeOK
            <3>3. UNCHANGED <<approval, task, snap, exec>>
                BY <1>12 DEF ReadJobForCancel
            <3> HIDE DEF r
            <3>4. TableSound(approval, r.rows)
                BY <1>1, <3>2
            <3>5. Proceed(c, r)
                BY <3>1 DEF r
            <3> QED
                BY <1>2, <3>2, <3>3, <3>4, <3>5
        <2> QED
            BY <2>1, <2>2
    <1>13. CASE ListOpenDecisions(c)
        <2> DEFINE r == [req[c] EXCEPT !.pc = "close", !.left = OpenDecisions]
        <2>1. r \in RequestRow /\ r.pc # "task" /\ r.rows = req[c].rows
            BY <1>1 DEF RequestRow, OpenDecisions
        <2>2. Proceed(c, r) /\ UNCHANGED <<approval, task, snap, exec>>
            BY <1>13 DEF ListOpenDecisions
        <2> HIDE DEF r
        <2>3. TableSound(approval, r.rows)
            BY <1>1, <2>1
        <2> QED
            BY <1>2, <2>1, <2>2, <2>3
    <1>14. CASE CloseDecision(c)
        <2>1. PICK a \in req[c].left :
                /\ approval' = IF StillPending(a) THEN [approval EXCEPT ![a].status = "cancelled"]
                               ELSE approval
                /\ Proceed(c, [req[c] EXCEPT !.left = @ \ {a}])
            BY <1>14 DEF CloseDecision
        <2> DEFINE r == [req[c] EXCEPT !.left = @ \ {a}]
        <2>2. GrantsKept
            BY <2>1 DEF GrantsKept, StillPending, Typed, TypeOK, ApprovalRow
        <2>3. r.pc # "task" /\ r.rows = req[c].rows
            BY <1>1, <1>14 DEF RequestRow, CloseDecision, In
        <2>4. Proceed(c, r) /\ UNCHANGED <<task, snap, exec>>
            BY <1>14, <2>1 DEF CloseDecision
        <2> HIDE DEF r
        <2>5. RequestSound(approval', r)
            BY <1>1, <2>2, <2>3, SoundStays DEF RequestSound, TableSound
        <2> QED
            BY <2>2, <2>4, <2>5, RequestOnlySound
    <1> QED
        BY <1>6, <1>7, <1>8, <1>9, <1>11, <1>12, <1>13, <1>14 DEF Continue

LEMMA InitSound ==
    ASSUME Init
    PROVE  Sound
    BY InitialSound DEF Init, Sound, TasksSound, SnapSound, CallsSound, RequestsSound

LEMMA NextSound ==
    ASSUME Typed, Sound, [Next]_vars
    PROVE  Sound'
    <1>1. CASE UNCHANGED vars
        BY <1>1, SameApprovals, Untouched DEF vars, worker, rows, Sound
    <1>2. CASE QueueStep \/ Environment
        BY <1>2, QueueOrEnvironmentSound, RequestCutSound
    <1> QED
        BY <1>1, <1>2, AttemptStepSound, OpenSound, ContinueSound DEF Next

(* Every copy of a task row, in the table, in the worker's hands or in a   *)
(* request's, stays as sound as the table's: writing rows back whole never *)
(* grants a step.                                                          *)
THEOREM CopiesStaySound == Spec => []Sound
    BY InitSound, NextSound, TypeCorrect, PTL DEF Spec

LEMMA SoundMeansDecided ==
    ASSUME Typed, Sound
    PROVE  NothingRunsUndecided
    <1> SUFFICES ASSUME NEW t \in Asks
                 PROVE  /\ task[t].status \in Going => GrantedByName(t, task[t])
                        /\ exec[t].pc = "engine" => GrantedByName(t, exec[t].row)
        BY DEF NothingRunsUndecided
    <1>1. t \in Tasks
        BY DEF LifecycleAssumption
    <1>2. SoundIn(approval, t, task[t]) /\ CallSound(approval, t, exec[t])
        BY <1>1 DEF Sound, TasksSound, TableSound, CallsSound
    <1> QED
        BY <1>2 DEF CallSound, SoundIn, GrantedByName, Going

(* Whatever plan, approvals, requests and steps at once there are, whatever *)
(* fails, is retried, cancelled or decided meanwhile: a step that needs a   *)
(* person's decision is never ready, running or completed, and its engine   *)
(* never runs, unless the approval its row names was raised for it and was  *)
(* granted.                                                                 *)
THEOREM DecidedFirst == Spec => []NothingRunsUndecided
    BY CopiesStaySound, TypeCorrect, SoundMeansDecided, PTL

-----------------------------------------------------------------------------
(* Requests that come one after another, and write only while no job is    *)
(* active: then what a copy says is what the row says, but for a status    *)
(* the clean-up closed.                                                    *)
Writing == {"resolve", "task", "work", "list", "reset", "approvals", "close", "cancel"}

Alone ==
    /\ \A c, d \in Requests : req[c] # NoRequest /\ req[d] # NoRequest => c = d
    /\ \A c \in Requests : req[c].pc \in Writing => slot.status = "idle"

Agrees(row, new) ==
    new.decision = row.decision /\ new.request = row.request /\ new.hash = row.hash

DepsDone(t) == \A d \in Deps[t] : task[d].status = "completed"

Marking == {"mark", "raised"}
Turned  == {"finish", "wait", "fail", "stuck"}

(* An attempt runs under its job, and calls only in a batch.               *)
AttemptFits ==
    /\ slot.status # "running" => pc = "idle"
    /\ pc # "execute" => \A t \in Tasks : exec[t].pc = "off"

(* The runner's copies are what the rows say.                              *)
CopiesFresh ==
    /\ pc = "reclaim" => \A t \in todo : snap[t] = task[t] /\ task[t].status = "running"
    /\ pc \in Marking => \A t \in todo :
          snap[t] = task[t] /\ task[t].status = "pending" /\ DepsDone(t)
    /\ pc \in Turned => snap = task
    /\ pc = "raised" =>
          /\ approval[raised].status = "pending"
          /\ approval[raised].task \in todo
          /\ ~AlreadyAsked(task[approval[raised].task])

CallFresh(t) ==
    /\ exec[t].pc \in {"hold", "claim", "refused"} =>
          exec[t].row = task[t] /\ task[t].status = "ready"
    /\ exec[t].pc = "hold" => Granted(task[t])
    /\ exec[t].pc = "engine" => exec[t].row = task[t] /\ task[t].status = "running"
    /\ exec[t].pc = "record" => Agrees(task[t], exec[t].row) /\ task[t].status = "completed"

CallsFresh == \A t \in Tasks : CallFresh(t)

WorkerFresh == AttemptFits /\ CopiesFresh /\ CallsFresh

(* What a step may do to the rows: change statuses, ...                    *)
Open3      == {"pending", "ready", "running"}
Unfinished == TaskStatuses \ {"completed"}

Due(t) == pc = "mark" /\ DepsDone(t)

Moves(t, from) ==
    /\ Agrees(task[t], task'[t])
    /\ task[t].status \in from
    /\ task'[t].status # "waiting"
    /\ task'[t].status \in {"ready", "running"} => task[t].status = "ready" \/ Due(t)
    /\ task'[t].status \in {"completed", "failed"} =>
          task[t].status \in {"ready", "running"} \/ Due(t)

Restates(from) == \A t \in Tasks : task'[t] = task[t] \/ Moves(t, from)

(* ... raise an approval, ...                                              *)
Raises ==
    \E a \in Approvals :
        /\ approval[a].status = "absent" /\ approval'[a].status = "pending"
        /\ approval'[a].task \in todo /\ approval'[a].task \in Asks
        /\ approval'[a].hash \in Nat
        /\ ~AlreadyAsked(task[approval'[a].task])
        /\ \A b \in Approvals \ {a} : approval'[b] = approval[b]
        /\ pc = "mark" /\ pc' = "raised" /\ raised' = a

(* ... put a step on hold for it, or take its grant away.                  *)
Only(t) == \A u \in Tasks \ {t} : task'[u] = task[u]

Holds ==
    LET t == approval[raised].task IN
        /\ pc = "raised" /\ pc' = "mark"
        /\ Only(t)
        /\ task[t].status = "pending" /\ task'[t].status = "waiting"
        /\ task'[t].decision = "pending" /\ task'[t].request = raised
        /\ task'[t].hash = approval[raised].hash

Supersedes ==
    \E t \in Tasks :
        /\ Only(t)
        /\ task[t].status = "ready" /\ Granted(task[t])
        /\ task'[t].status = "pending" /\ task'[t].decision = "superseded"
        /\ task'[t].request = task[t].request

(* The call that completed a step fails it again.                          *)
Undoes ==
    \E t \in Tasks :
        /\ pc = "execute" /\ exec[t].pc = "record"
        /\ Only(t)
        /\ Agrees(task[t], task'[t])
        /\ task[t].status = "completed" /\ task'[t].status = "failed"

AttemptWrites ==
    \/ UNCHANGED <<task, approval>> /\ pc' # "raised"
    \/ Restates(Open3) /\ UNCHANGED approval /\ pc' # "raised"
    \/ Raises /\ UNCHANGED task
    \/ Holds /\ UNCHANGED approval
    \/ (Supersedes \/ Undoes) /\ UNCHANGED approval /\ pc' # "raised"

(* One row written from a copy that is fresh.                              *)
LEMMA RowMoves ==
    ASSUME Typed, NEW t \in Tasks, NEW s \in TaskStatuses, NEW from, NEW row,
           row = task[t], WriteTask(t, [row EXCEPT !.status = s]), task[t].status \in from,
           s # "waiting", s \in {"ready", "running"} => task[t].status = "ready" \/ Due(t),
           s \in {"completed", "failed"} =>
              task[t].status \in {"ready", "running"} \/ Due(t)
    PROVE  Restates(from)
    <1>1. task' = [task EXCEPT ![t] = [task[t] EXCEPT !.status = s]]
        BY DEF WriteTask
    <1>2. task \in [Tasks -> TaskRow] /\ task[t] \in TaskRow
        BY DEF Typed, TypeOK
    <1>3. task'[t] = [task[t] EXCEPT !.status = s]
        BY <1>1, <1>2
    <1>4. task'[t].status = s /\ Agrees(task[t], task'[t])
        BY <1>2, <1>3 DEF TaskRow, Agrees
    <1>5. \A u \in Tasks \ {t} : task'[u] = task[u]
        BY <1>1, <1>2
    <1> QED
        BY <1>4, <1>5 DEF Restates, Moves

(* Every step of the attempt is one of these.                              *)
LEMMA ExecuteStepWrites ==
    ASSUME Typed, WorkerFresh, ExecuteStep
    PROVE  AttemptWrites /\ UNCHANGED <<approval, req>>
    <1> USE DEF rows, bounds, At
    <1>1. PICK t \in Tasks :
            \/ Begin(t) \/ AgentUnfit(t) \/ StopForNewApproval(t) \/ ClaimTask(t)
            \/ EngineEnds(t) \/ StepRecorded(t) \/ RecordThrows(t)
            \/ EngineResultLost(t) \/ ReadRejected(t) \/ FailRejected(t)
        BY DEF ExecuteStep
    <1>2. /\ UNCHANGED <<approval, req, pc>>
          /\ pc = "execute"
        BY <1>1 DEF Begin, AgentUnfit, StopForNewApproval, ClaimTask, EngineEnds, StepRecorded,
           RecordThrows, EngineResultLost, ReadRejected, FailRejected
    <1>3. CallFresh(t) /\ task[t] \in TaskRow
        BY DEF WorkerFresh, CallsFresh, Typed, TypeOK
    <1>4. ASSUME UNCHANGED task
          PROVE  AttemptWrites
        BY <1>2, <1>4 DEF AttemptWrites
    <1>5. ASSUME Restates(Open3)
          PROVE  AttemptWrites
        BY <1>2, <1>5 DEF AttemptWrites
    <1>6. CASE Begin(t) \/ AgentUnfit(t) \/ StepRecorded(t) \/ EngineResultLost(t)
                 \/ ReadRejected(t)
        BY <1>4, <1>6 DEF Begin, AgentUnfit, StepRecorded, EngineResultLost, ReadRejected
    <1>7. CASE StopForNewApproval(t)
        <2>1. /\ exec[t].row = task[t] /\ task[t].status = "ready" /\ Granted(task[t])
              /\ task' = [task EXCEPT ![t] = [task[t] EXCEPT !.status = "pending",
                                      !.decision = "superseded", !.hash = None]]
            BY <1>3, <1>7 DEF StopForNewApproval, CallFresh, WriteTask
        <2>2. /\ task'[t].status = "pending" /\ task'[t].decision = "superseded"
              /\ task'[t].request = task[t].request /\ Only(t)
            BY <1>3, <2>1 DEF TaskRow, Only, Typed, TypeOK
        <2> QED
            BY <1>2, <2>1, <2>2 DEF AttemptWrites, Supersedes
    <1>8. CASE ClaimTask(t)
        <2>1. CASE Claimable(task[t])
            <3>1. WriteTask(t, [task[t] EXCEPT !.status = "running"])
                BY <1>8, <2>1 DEF ClaimTask
            <3>2. Restates(Open3)
                BY <3>1, <2>1, RowMoves DEF Claimable, TaskStatuses, Open3
            <3> QED
                BY <1>2, <1>5, <3>2
        <2>2. CASE ~Claimable(task[t])
            BY <1>4, <1>8, <2>2 DEF ClaimTask
        <2> QED
            BY <2>1, <2>2
    <1>9. CASE EngineEnds(t)
        <2>1. PICK s \in {"completed", "failed"} :
                WriteTask(t, [exec[t].row EXCEPT !.status = s])
            BY <1>9 DEF EngineEnds
        <2>2. exec[t].row = task[t] /\ task[t].status = "running"
            BY <1>3, <1>9 DEF EngineEnds, CallFresh
        <2> QED
            BY <1>2, <1>5, <2>1, <2>2, RowMoves DEF TaskStatuses, Ended, Open3
    <1>10. CASE FailRejected(t)
        <2>1. WriteTask(t, [exec[t].row EXCEPT !.status = "failed"])
            BY <1>10 DEF FailRejected
        <2>2. exec[t].row = task[t] /\ task[t].status = "ready"
            BY <1>3, <1>10 DEF FailRejected, CallFresh
        <2> QED
            BY <1>2, <1>5, <2>1, <2>2, RowMoves DEF TaskStatuses, Ended, Open3
    <1>11. CASE RecordThrows(t)
        <2>1. /\ exec[t].row \in TaskRow /\ exec[t].pc = "record"
              /\ Agrees(task[t], exec[t].row) /\ task[t].status = "completed"
              /\ task' = [task EXCEPT ![t] = [exec[t].row EXCEPT !.status = "failed"]]
            BY <1>3, <1>11 DEF RecordThrows, CallFresh, WriteTask, Typed, TypeOK, CallRow
        <2>2. task'[t] = [exec[t].row EXCEPT !.status = "failed"] /\ Only(t)
            BY <2>1 DEF Only, Typed, TypeOK
        <2>3. task'[t].status = "failed" /\ Agrees(task[t], task'[t])
            BY <2>1, <2>2 DEF TaskRow, Agrees
        <2> QED
            BY <1>2, <2>1, <2>2, <2>3 DEF AttemptWrites, Undoes
    <1> QED
        BY <1>1, <1>2, <1>6, <1>7, <1>8, <1>9, <1>10, <1>11

LEMMA HoldTaskHolds ==
    ASSUME Typed, WorkerFresh, HoldTask
    PROVE  Holds /\ UNCHANGED <<approval, req>>
    <1> DEFINE t   == approval[raised].task
               row == [status |-> "waiting", decision |-> "pending", request |-> raised,
                       hash |-> approval[raised].hash]
    <1>1. /\ pc = "raised" /\ pc' = "mark" /\ UNCHANGED <<approval, req>>
          /\ task' = [task EXCEPT ![t] = row]
        BY DEF HoldTask, WriteTask, bounds
    <1>2. t \in Tasks /\ task[t].status = "pending"
        BY <1>1 DEF WorkerFresh, CopiesFresh, Marking, Typed, TypeOK
    <1>3. task'[t] = row /\ Only(t)
        BY <1>1, <1>2 DEF Only, Typed, TypeOK
    <1> QED
        BY <1>1, <1>2, <1>3 DEF Holds

LEMMA AttemptStepWrites ==
    ASSUME Typed, WorkerFresh, AttemptStep
    PROVE  AttemptWrites /\ UNCHANGED req
    <1> USE DEF rows, bounds
    <1>1. ASSUME UNCHANGED <<task, approval, req>>, pc' # "raised"
          PROVE  AttemptWrites /\ UNCHANGED req
        BY <1>1 DEF AttemptWrites
    <1>2. ASSUME Restates(Open3), UNCHANGED <<approval, req>>, pc' # "raised"
          PROVE  AttemptWrites /\ UNCHANGED req
        BY <1>2 DEF AttemptWrites
    <1>3. ASSUME NEW t \in todo, pc \in Marking
          PROVE  t \in Tasks /\ snap[t] = task[t] /\ task[t].status = "pending" /\ DepsDone(t)
        BY <1>3 DEF WorkerFresh, CopiesFresh, Typed, TypeOK
    <1>4. CASE ReadOrphans \/ ReadWork \/ StartWork \/ Load \/ WaitForDecision \/ FinishWork
                 \/ FailWork \/ NoTaskReady \/ RecordFailure \/ SkipAsked \/ Reload \/ BatchEnds
                 \/ CompleteJob \/ FailJob \/ RequeueJob \/ ReadForFailure
        BY <1>1, <1>4 DEF ReadOrphans, ReadWork, StartWork, Load, WaitForDecision, FinishWork,
              FailWork, NoTaskReady, RecordFailure, WriteWork, SkipAsked, Reload, BatchEnds,
              CompleteJob, FailJob, RequeueJob, ReadForFailure, EndAttempt, Goto, EntersAt,
              TurnOf, AfterMarks
    <1>5. CASE ReclaimOrphan
        <2>1. PICK t \in todo : WriteTask(t, [snap[t] EXCEPT !.status = "pending"])
            BY <1>5 DEF ReclaimOrphan, WriteTask
        <2>2. t \in Tasks /\ snap[t] = task[t] /\ task[t].status = "running"
            BY <1>5 DEF ReclaimOrphan, WorkerFresh, CopiesFresh, Typed, TypeOK
        <2>3. Restates(Open3)
            BY <2>1, <2>2, RowMoves DEF TaskStatuses, Open3
        <2> QED
            BY <1>2, <1>5, <2>3 DEF ReclaimOrphan
    <1>6. CASE DenyTask
        <2>1. PICK t \in todo : WriteTask(t, [snap[t] EXCEPT !.status = "failed"])
            BY <1>6 DEF DenyTask
        <2>2. t \in Tasks /\ snap[t] = task[t] /\ task[t].status = "pending" /\ Due(t)
            BY <1>3, <1>6 DEF DenyTask, Marking, Due
        <2>3. Restates(Open3)
            BY <2>1, <2>2, RowMoves DEF TaskStatuses, Ended, Open3
        <2> QED
            BY <1>2, <1>6, <2>3 DEF DenyTask
    <1>7. CASE MarkReady
        <2>1. PICK t \in todo : WriteTask(t, [snap[t] EXCEPT !.status = "ready"])
            BY <1>7 DEF MarkReady
        <2>2. t \in Tasks /\ snap[t] = task[t] /\ task[t].status = "pending" /\ Due(t)
            BY <1>3, <1>7 DEF MarkReady, Marking, Due
        <2>3. Restates(Open3)
            BY <2>1, <2>2, RowMoves DEF TaskStatuses, Open3
        <2> QED
            BY <1>2, <1>7, <2>3 DEF MarkReady
    <1>8. CASE RaiseApproval
        <2> DEFINE a == CHOOSE x \in Unused : TRUE
        <2>1. PICK t \in todo :
                /\ NeedsDecision(t, snap) /\ ~AlreadyAsked(snap[t])
                /\ approval' = [approval EXCEPT ![a] =
                               [status |-> "pending", task |-> t, hash |-> version[t]]]
            BY <1>8 DEF RaiseApproval
        <2>2. /\ pc = "mark" /\ pc' = "raised" /\ raised' = a /\ a \in Unused
              /\ UNCHANGED <<task, req>>
            BY <1>8 DEF RaiseApproval
        <2>3. a \in Approvals /\ approval[a].status = "absent"
            BY <2>2 DEF Unused
        <2> HIDE DEF a
        <2>4. t \in Tasks /\ snap[t] = task[t] /\ t \in Asks /\ version[t] \in Nat
            BY <1>3, <2>1, <2>2 DEF NeedsDecision, Typed, TypeOK, Marking
        <2>5. /\ approval'[a] = [status |-> "pending", task |-> t, hash |-> version[t]]
              /\ \A b \in Approvals \ {a} : approval'[b] = approval[b]
            BY <2>1, <2>3 DEF Typed, TypeOK
        <2>6. Raises
            BY <2>1, <2>2, <2>3, <2>4, <2>5 DEF Raises
        <2> QED
            BY <2>2, <2>6 DEF AttemptWrites
    <1>9. CASE HoldTask
        BY <1>9, HoldTaskHolds DEF AttemptWrites
    <1>10. CASE ExecuteStep
        BY <1>10, ExecuteStepWrites
    <1> QED
        BY <1>4, <1>5, <1>6, <1>7, <1>8, <1>9, <1>10 DEF AttemptStep

(* What requests and the clean-ups do to the rows.                         *)
Settles ==
    \E a \in Approvals :
        /\ approval[a].status = "pending" /\ approval'[a].status \notin {"absent", "pending"}
        /\ approval'[a].task = approval[a].task /\ approval'[a].hash = approval[a].hash
        /\ \A b \in Approvals \ {a} : approval'[b] = approval[b]

Decided(c) ==
    LET a == req[c].approval  t == approval[a].task IN
        /\ req[c].pc = "task"
        /\ Only(t)
        /\ task'[t].status \in {"pending", "failed"}
        /\ task'[t].decision \in {"approved", "rejected"}
        /\ task'[t].request = a
        /\ task'[t].hash = req[c].rows[t].hash

RequestWrites ==
    \/ UNCHANGED <<task, approval>>
    \/ Restates(Unfinished) /\ UNCHANGED approval
    \/ Settles /\ UNCHANGED task
    \/ UNCHANGED approval /\ \E c \in Requests : Decided(c)

(* A request's copies are what the rows say, but for the status.           *)
RequestFresh(c) ==
    /\ req[c].pc \in {"reset", "cancel"} =>
          /\ req[c].left \subseteq Tasks
          /\ \A t \in req[c].left :
                Agrees(req[c].rows[t], task[t]) /\ task[t].status # "completed"
    /\ req[c].pc \in {"resolve", "task"} => \A t \in Tasks : Agrees(req[c].rows[t], task[t])

RequestsFresh == \A c \in Requests : RequestFresh(c)

LEMMA CopyWritten ==
    ASSUME Typed, NEW t \in Tasks, NEW row \in TaskRow, NEW s \in {"pending", "cancelled"},
           Agrees(row, task[t]), task[t].status # "completed",
           WriteTask(t, [row EXCEPT !.status = s])
    PROVE  Restates(Unfinished)
    <1>1. task' = [task EXCEPT ![t] = [row EXCEPT !.status = s]]
        BY DEF WriteTask
    <1>2. task \in [Tasks -> TaskRow] /\ task[t] \in TaskRow
        BY DEF Typed, TypeOK
    <1>3. task'[t] = [row EXCEPT !.status = s]
        BY <1>1, <1>2
    <1>4. task'[t].status = s /\ Agrees(task[t], task'[t])
        BY <1>2, <1>3 DEF TaskRow, Agrees
    <1>5. task[t].status \in Unfinished
        BY <1>2 DEF TaskRow, Unfinished
    <1>6. \A u \in Tasks \ {t} : task'[u] = task[u]
        BY <1>1, <1>2
    <1> QED
        BY <1>4, <1>5, <1>6 DEF Restates, Moves

LEMMA DecisionWritten ==
    ASSUME Typed, NEW c \in Requests, WriteDecidedTask(c)
    PROVE  Decided(c) /\ UNCHANGED approval
    <1> DEFINE a   == req[c].approval
               t   == approval[a].task
               row == DecidedRow(req[c].rows[t], req[c].op, a)
    <1>1. /\ a \in Approvals /\ t \in Tasks /\ req[c].rows[t] \in TaskRow
          /\ task' = [task EXCEPT ![t] = row] /\ req[c].pc = "task" /\ UNCHANGED approval
        BY DEF WriteDecidedTask, Deciding, Typed, TypeOK, Named, RequestRow, WriteTask
    <1>2. /\ row.status \in {"pending", "failed"} /\ row.decision \in {"approved", "rejected"}
          /\ row.request = a /\ row.hash = req[c].rows[t].hash
        BY <1>1 DEF DecidedRow, TaskRow
    <1> HIDE DEF row
    <1>3. task'[t] = row /\ Only(t)
        BY <1>1 DEF Only, Typed, TypeOK
    <1> QED
        BY <1>1, <1>2, <1>3 DEF Decided

LEMMA RequestStepWrites ==
    ASSUME Typed, RequestsFresh, NEW c \in Requests, Open(c) \/ Continue(c)
    PROVE  RequestWrites
    <1> USE DEF rows
    <1>1. ASSUME UNCHANGED <<task, approval>>
          PROVE  RequestWrites
        BY <1>1 DEF RequestWrites
    <1>2. RequestFresh(c) /\ req[c] \in RequestRow
        BY DEF RequestsFresh, Typed, TypeOK
    <1>3. CASE Open(c)
        BY <1>1, <1>3 DEF Open, AskStart, OpenRetry, OpenCancel, OpenDecision, Opens
    <1>4. CASE CheckNoJob(c) \/ Enqueue(c) \/ WriteDecidedWork(c) \/ ListForRetry(c)
                 \/ WriteRetriedWork(c) \/ ReadJobForCancel(c) \/ WithdrawJob(c)
                 \/ ListOpenDecisions(c) \/ ListForCancel(c) \/ WriteCancelledWork(c)
        BY <1>1, <1>4 DEF CheckNoJob, Enqueue, WriteDecidedWork, ListForRetry,
              WriteRetriedWork, ReadJobForCancel, WithdrawJob, ListOpenDecisions,
              ListForCancel, WriteCancelledWork
    <1>5. CASE ResolvePending(c)
        <2> DEFINE a == req[c].approval
        <2>1. a \in Approvals
            BY <1>5 DEF ResolvePending, Deciding, Typed, Named
        <2>2. CASE StillPending(a)
            <3>1. PICK s \in {"approved", "rejected"} :
                    approval' = [approval EXCEPT ![a].status = s]
                BY <1>5, <2>2 DEF ResolvePending
            <3>2. Settles
                BY <2>1, <2>2, <3>1 DEF Settles, StillPending, Typed, TypeOK, ApprovalRow
            <3> QED
                BY <1>5, <3>2 DEF RequestWrites, ResolvePending
        <2>3. CASE ~StillPending(a)
            BY <1>1, <1>5, <2>3 DEF ResolvePending
        <2> QED
            BY <2>2, <2>3
    <1>6. CASE CloseDecision(c)
        <2>1. PICK a \in req[c].left :
                approval' = IF StillPending(a) THEN [approval EXCEPT ![a].status = "cancelled"]
                            ELSE approval
            BY <1>6 DEF CloseDecision
        <2>2. CASE StillPending(a) /\ a \in Approvals
            <3>1. Settles
                BY <2>1, <2>2 DEF Settles, StillPending, Typed, TypeOK, ApprovalRow
            <3> QED
                BY <1>6, <3>1 DEF RequestWrites, CloseDecision
        <2>3. CASE ~(StillPending(a) /\ a \in Approvals)
            <3>1. UNCHANGED approval
                BY <2>1, <2>3 DEF Typed, TypeOK
            <3> QED
                BY <1>1, <1>6, <3>1 DEF CloseDecision
        <2> QED
            BY <2>2, <2>3
    <1>7. CASE ResetTask(c) \/ CancelTask(c)
        <2>1. PICK t \in req[c].left, s \in {"pending", "cancelled"} :
                WriteTask(t, [req[c].rows[t] EXCEPT !.status = s])
            BY <1>7 DEF ResetTask, CancelTask
        <2>2. t \in Tasks /\ Agrees(req[c].rows[t], task[t]) /\ task[t].status # "completed"
            BY <1>2, <1>7 DEF ResetTask, CancelTask, In, RequestFresh
        <2>3. req[c].rows[t] \in TaskRow
            BY <1>2, <2>2 DEF RequestRow
        <2> QED
            BY <1>7, <2>1, <2>2, <2>3, CopyWritten DEF RequestWrites, ResetTask, CancelTask
    <1>8. CASE WriteDecidedTask(c)
        BY <1>8, DecisionWritten DEF RequestWrites
    <1> QED
        BY <1>3, <1>4, <1>5, <1>6, <1>7, <1>8 DEF Continue

LEMMA InterruptedMoves ==
    ASSUME Typed, task' = Interrupted(task)
    PROVE  Restates(Open3)
    <1>1. ASSUME NEW t \in Tasks
          PROVE  task'[t] = task[t] \/ Moves(t, Open3)
        <2>1. task[t] \in TaskRow
            BY DEF Typed, TypeOK
        <2>2. task'[t] = IF task[t].status \in {"ready", "running"}
                         THEN [task[t] EXCEPT !.status = "failed"] ELSE task[t]
            BY DEF Interrupted
        <2> QED
            BY <2>1, <2>2 DEF TaskRow, Moves, Agrees, Open3
    <1> QED
        BY <1>1 DEF Restates

(* The queue and the environment rewrite rows only between attempts.       *)
LEMMA OthersWrite ==
    ASSUME Typed, AttemptFits, QueueStep \/ Environment
    PROVE  /\ UNCHANGED approval
           /\ UNCHANGED task \/ (pc = "idle" /\ Restates(Open3))
    <1> USE DEF rows
    <1>1. /\ UNCHANGED approval
          /\ UNCHANGED task \/ (pc = "idle" /\ task' = Interrupted(task))
        <2>1. CASE FailExpired
            BY <2>1 DEF FailExpired
        <2>2. CASE Reconcile
            BY <2>2 DEF Reconcile, AttemptFits
        <2>3. CASE Claim \/ Recover \/ WorkerDies \/ StoreError
            BY <2>3 DEF Claim, Recover, WorkerDies, StoreError
        <2>4. CASE (\E t \in Tasks : ActionChanges(t)) \/ \E c \in Requests : RequestCut(c)
            BY <2>4 DEF ActionChanges, RequestCut
        <2> QED
            BY <2>1, <2>2, <2>3, <2>4 DEF QueueStep, Environment
    <1> QED
        BY <1>1, InterruptedMoves

LEMMA OthersWriteAlso ==
    ASSUME Typed, AttemptFits, QueueStep \/ Environment
    PROVE  RequestWrites
    BY OthersWrite DEF RequestWrites, Restates, Moves, Open3, Unfinished, TaskStatuses, Ended

(* What a row names has been raised, for a step that asks, with the        *)
(* version it had then; and that stays so.                                 *)
NamesKnown ==
    \A t \in Tasks : task[t].request # None => approval[task[t].request].status # "absent"

AskedFor ==
    \A a \in Approvals : approval[a].status # "absent" =>
        approval[a].task \in Asks /\ approval[a].hash \in Nat

Known == NamesKnown /\ AskedFor

ApprovalsMove ==
    \A a \in Approvals : approval[a].status # "absent" =>
        /\ approval'[a].status # "absent"
        /\ approval'[a].status = "pending" => approval[a].status = "pending"
        /\ approval'[a].task = approval[a].task
        /\ approval'[a].hash = approval[a].hash

LEMMA EveryApprovalMoves ==
    ASSUME AttemptWrites \/ RequestWrites
    PROVE  ApprovalsMove
    BY DEF AttemptWrites, RequestWrites, ApprovalsMove, Raises, Settles

LEMMA KnownKept ==
    ASSUME Typed, Known, AttemptWrites \/ RequestWrites
    PROVE  Known'
    <1>1. ApprovalsMove
        BY EveryApprovalMoves
    <1>2. \A t \in Tasks : task[t] \in TaskRow /\ task[t].request \in Approvals \cup {None}
        BY DEF Typed, TypeOK, TaskRow
    <1>3. ASSUME NEW a \in Approvals, approval'[a].status # "absent"
          PROVE  approval'[a].task \in Asks /\ approval'[a].hash \in Nat
        <2>1. CASE approval[a].status # "absent"
            BY <1>1, <2>1 DEF ApprovalsMove, Known, AskedFor
        <2>2. CASE approval[a].status = "absent"
            <3>1. Raises /\ ~Settles
                BY <1>3, <2>2 DEF AttemptWrites, RequestWrites, Settles
            <3> QED
                BY <1>3, <2>2, <3>1 DEF Raises
        <2> QED
            BY <2>1, <2>2
    <1>4. ASSUME NEW t \in Tasks, task'[t].request # None
          PROVE  approval'[task'[t].request].status # "absent"
        <2>1. CASE task'[t].request = task[t].request
            BY <1>1, <1>2, <1>4, <2>1 DEF ApprovalsMove, Known, NamesKnown
        <2>2. CASE task'[t].request # task[t].request
            <3>1. ~Restates(Open3) /\ ~Restates(Unfinished)
                BY <2>2 DEF Restates, Moves, Agrees
            <3>2. Holds \/ Supersedes \/ Undoes \/ \E c \in Requests : Decided(c)
                BY <2>2, <3>1 DEF AttemptWrites, RequestWrites
            <3>3. ~Supersedes /\ ~Undoes
                BY <2>2 DEF Supersedes, Undoes, Agrees, Only
            <3>4. CASE Holds
                <4>1. task'[t].request = raised /\ pc = "raised"
                    BY <2>2, <3>4 DEF Holds, Only
                <4>2. raised \in Approvals /\ approval[raised].status # "absent"
                    BY <4>1 DEF Typed, Named
                <4> QED
                    BY <1>1, <4>1, <4>2 DEF ApprovalsMove
            <3>5. ASSUME NEW c \in Requests, Decided(c)
                  PROVE  approval'[task'[t].request].status # "absent"
                <4>1. task'[t].request = req[c].approval /\ req[c].pc = "task"
                    BY <2>2, <3>5 DEF Decided, Only
                <4>2. /\ req[c].approval \in Approvals
                      /\ approval[req[c].approval].status # "absent"
                    BY <4>1 DEF Typed, Named
                <4> QED
                    BY <1>1, <4>1, <4>2 DEF ApprovalsMove
            <3> QED
                BY <3>2, <3>3, <3>4, <3>5
        <2> QED
            BY <2>1, <2>2
    <1> QED
        BY <1>3, <1>4 DEF Known, NamesKnown, AskedFor

-----------------------------------------------------------------------------
(* The runner's copies stay fresh.                                         *)

LEMMA OtherCalls ==
    ASSUME Typed, CallsFresh, NEW t \in Tasks, Only(t), CallFresh(t)',
           \A u \in Tasks \ {t} : exec'[u] = exec[u]
    PROVE  CallsFresh'
    BY DEF CallsFresh, CallFresh, Only

LEMMA EndedCall ==
    ASSUME Typed, NEW t \in Tasks, EndCall(t)
    PROVE  CallFresh(t)' /\ \A u \in Tasks \ {t} : exec'[u] = exec[u]
    <1>1. exec'[t] = NoCall /\ \A u \in Tasks \ {t} : exec'[u] = exec[u]
        BY DEF EndCall, Typed, TypeOK
    <1> QED
        BY <1>1 DEF CallFresh, NoCall

LEMMA WroteOnly ==
    ASSUME Typed, NEW t, NEW row, WriteTask(t, row)
    PROVE  Only(t)
    BY DEF WriteTask, Only, Typed, TypeOK

LEMMA ExecuteStaysFresh ==
    ASSUME Typed, WorkerFresh, ExecuteStep
    PROVE  WorkerFresh'
    <1> USE DEF rows, bounds, At
    <1>1. PICK t \in Tasks :
            \/ Begin(t) \/ AgentUnfit(t) \/ StopForNewApproval(t) \/ ClaimTask(t)
            \/ EngineEnds(t) \/ StepRecorded(t) \/ RecordThrows(t)
            \/ EngineResultLost(t) \/ ReadRejected(t) \/ FailRejected(t)
        BY DEF ExecuteStep
    <1>2. UNCHANGED <<pc, slot>> /\ pc = "execute"
        BY <1>1 DEF Begin, AgentUnfit, StopForNewApproval, ClaimTask, EngineEnds, StepRecorded,
           RecordThrows, EngineResultLost, ReadRejected, FailRejected
    <1>3. AttemptFits' /\ CopiesFresh'
        BY <1>2 DEF WorkerFresh, AttemptFits, CopiesFresh, Marking, Turned
    <1>4. /\ CallFresh(t) /\ task[t] \in TaskRow /\ exec[t] \in CallRow
          /\ CallsFresh /\ exec \in [Tasks -> CallRow]
        BY DEF WorkerFresh, CallsFresh, Typed, TypeOK
    <1>5. ASSUME UNCHANGED task
          PROVE  Only(t)
        BY <1>5 DEF Only
    <1>6. ASSUME UNCHANGED task, NEW p \in {"rejected"}, Call(t, p)
          PROVE  CallsFresh'
        <2>1. exec'[t].pc = p /\ \A u \in Tasks \ {t} : exec'[u] = exec[u]
            BY <1>4, <1>6 DEF Call, CallRow
        <2> QED
            BY <1>4, <1>5, <1>6, <2>1, OtherCalls DEF CallFresh
    <1>7. CASE Begin(t)
        <2>1. /\ UNCHANGED task /\ \A u \in Tasks \ {t} : exec'[u] = exec[u]
              /\ exec'[t] = IF task[t].status \in {"completed", "running"} THEN NoCall
                            ELSE IF task[t].status # "ready" THEN [NoCall EXCEPT !.pc = "rejected"]
                            ELSE [pc |-> IF Drifted(t, task[t]) THEN "hold" ELSE "claim",
                                  row |-> task[t], version |-> version[t]]
            BY <1>4, <1>7 DEF Begin
        <2>2. CASE task[t].status = "ready"
            <3>1. PICK p \in {"hold", "claim"} :
                    /\ exec'[t] = [pc |-> p, row |-> task[t], version |-> version[t]]
                    /\ p = "hold" => Drifted(t, task[t])
                BY <2>1, <2>2
            <3>2. exec'[t].pc = p /\ exec'[t].row = task[t]
                BY <3>1
            <3>3. CallFresh(t)'
                BY <2>1, <2>2, <3>1, <3>2 DEF CallFresh, Drifted
            <3> QED
                BY <1>3, <1>4, <1>5, <2>1, <3>3, OtherCalls DEF WorkerFresh
        <2>3. CASE task[t].status # "ready"
            <3>1. exec'[t].pc \in {"off", "rejected"}
                BY <2>1, <2>3 DEF NoCall
            <3>2. CallFresh(t)'
                BY <3>1 DEF CallFresh
            <3> QED
                BY <1>3, <1>4, <1>5, <2>1, <3>2, OtherCalls DEF WorkerFresh
        <2> QED
            BY <2>2, <2>3
    <1>8. CASE AgentUnfit(t)
        BY <1>3, <1>6, <1>8 DEF AgentUnfit, WorkerFresh
    <1>9. CASE EngineResultLost(t)
        BY <1>3, <1>6, <1>9 DEF EngineResultLost, WorkerFresh
    <1>10. CASE StopForNewApproval(t) \/ RecordThrows(t) \/ FailRejected(t)
        <2>1. EndCall(t) /\ \E row : WriteTask(t, row)
            BY <1>10 DEF StopForNewApproval, RecordThrows, FailRejected
        <2> QED
            BY <1>3, <1>4, <2>1, EndedCall, WroteOnly, OtherCalls DEF WorkerFresh
    <1>13. CASE StepRecorded(t)
        BY <1>3, <1>4, <1>5, <1>13, EndedCall, OtherCalls DEF StepRecorded, WorkerFresh
    <1>14. CASE EngineEnds(t)
        <2>1. PICK s \in {"completed", "failed"} :
                /\ WriteTask(t, [exec[t].row EXCEPT !.status = s])
                /\ IF s = "completed" THEN Call(t, "record") ELSE EndCall(t)
            BY <1>14 DEF EngineEnds
        <2>2. CASE s = "failed"
            BY <1>3, <1>4, <2>1, <2>2, EndedCall, WroteOnly, OtherCalls DEF WorkerFresh
        <2>3. CASE s = "completed"
            <3>1. /\ exec'[t].pc = "record" /\ exec'[t].row = exec[t].row
                  /\ \A u \in Tasks \ {t} : exec'[u] = exec[u]
                BY <1>4, <2>1, <2>3 DEF Call, CallRow
            <3>2. exec[t].row = task[t]
                BY <1>4, <1>14 DEF EngineEnds, CallFresh
            <3>3. task'[t] = [task[t] EXCEPT !.status = "completed"]
                BY <2>1, <2>3, <3>2 DEF WriteTask, Typed, TypeOK
            <3>4. task'[t].status = "completed" /\ Agrees(task'[t], task[t])
                BY <1>4, <3>3 DEF TaskRow, Agrees
            <3>5. CallFresh(t)'
                BY <3>1, <3>2, <3>4 DEF CallFresh, Agrees
            <3> QED
                BY <1>3, <1>4, <2>1, <3>1, <3>5, WroteOnly, OtherCalls DEF WorkerFresh
        <2> QED
            BY <2>1, <2>2, <2>3
    <1>11. CASE ClaimTask(t)
        <2>1. CASE Claimable(task[t])
            <3> DEFINE run == [task[t] EXCEPT !.status = "running"]
            <3>1. /\ WriteTask(t, run)
                  /\ exec' = [exec EXCEPT ![t] = [exec[t] EXCEPT !.pc = "engine", !.row = run]]
                BY <1>11, <2>1 DEF ClaimTask
            <3>2. run.status = "running"
                BY <1>4 DEF TaskRow
            <3> HIDE DEF run
            <3>3. /\ exec'[t].pc = "engine" /\ exec'[t].row = run
                  /\ \A u \in Tasks \ {t} : exec'[u] = exec[u]
                BY <1>4, <3>1 DEF CallRow
            <3>4. task'[t] = run
                BY <3>1 DEF WriteTask, Typed, TypeOK
            <3>5. CallFresh(t)'
                BY <3>2, <3>3, <3>4 DEF CallFresh
            <3> QED
                BY <1>3, <1>4, <3>1, <3>3, <3>5, WroteOnly, OtherCalls DEF WorkerFresh
        <2>2. CASE ~Claimable(task[t])
            BY <1>3, <1>4, <1>5, <1>11, <2>2, EndedCall, OtherCalls DEF ClaimTask, WorkerFresh
        <2> QED
            BY <2>1, <2>2
    <1>12. CASE ReadRejected(t)
        <2>1. /\ UNCHANGED task /\ \A u \in Tasks \ {t} : exec'[u] = exec[u]
              /\ exec'[t] = IF task[t].status = "ready"
                            THEN [NoCall EXCEPT !.pc = "refused", !.row = task[t]] ELSE NoCall
            BY <1>4, <1>12 DEF ReadRejected
        <2>2. CallFresh(t)'
            BY <2>1 DEF CallFresh, NoCall
        <2> QED
            BY <1>3, <1>4, <1>5, <2>1, <2>2, OtherCalls DEF WorkerFresh
    <1> QED
        BY <1>1, <1>7, <1>8, <1>9, <1>10, <1>11, <1>12, <1>13, <1>14

(* A write of a row that was marked leaves the others as they were read.   *)
LEMMA MarksOn ==
    ASSUME Typed, CopiesFresh, pc \in Marking, NEW t \in todo, Only(t),
           todo' = todo \ {t}, UNCHANGED snap, pc' = "mark"
    PROVE  CopiesFresh'
    <1>1. task[t].status = "pending" /\ todo \subseteq Tasks
        BY DEF CopiesFresh, Typed, TypeOK
    <1>2. ASSUME NEW u \in todo'
          PROVE  snap'[u] = task'[u] /\ task'[u].status = "pending" /\ DepsDone(u)'
        <2>1. u \in Tasks \ {t} /\ u \in todo
            BY <1>1, <1>2
        <2>2. task'[u] = task[u]
            BY <2>1 DEF Only
        <2>3. snap[u] = task[u] /\ task[u].status = "pending" /\ DepsDone(u)
            BY <2>1 DEF CopiesFresh
        <2>4. Deps[u] \subseteq Tasks
            BY <2>1 DEF LifecycleAssumption
        <2>5. DepsDone(u)'
            BY <1>1, <2>3, <2>4 DEF DepsDone, Only
        <2> QED
            BY <2>2, <2>3, <2>5
    <1> QED
        BY <1>2 DEF CopiesFresh, Marking, Turned

LEMMA IdleCalls ==
    ASSUME Typed, WorkerFresh, pc # "execute", UNCHANGED exec
    PROVE  CallsFresh'
    BY DEF WorkerFresh, AttemptFits, CallsFresh, CallFresh

LEMMA AttemptStaysFresh ==
    ASSUME Typed, Known, WorkerFresh, AttemptStep
    PROVE  WorkerFresh'
    <1> USE DEF rows, bounds
    <1>1. AttemptFits /\ CopiesFresh /\ CallsFresh
        BY DEF WorkerFresh
    <1>2. ASSUME EndAttempt
          PROVE  WorkerFresh'
        BY <1>2 DEF EndAttempt, WorkerFresh, AttemptFits, CopiesFresh, CallsFresh, CallFresh,
                    Marking, Turned, NoCalls, NoCall
    <1>3. ASSUME pc \notin {"idle", "execute"}, UNCHANGED <<slot, exec>>, CopiesFresh'
          PROVE  WorkerFresh'
        <2>1. AttemptFits'
            BY <1>1, <1>3 DEF AttemptFits
        <2> QED
            BY <1>3, <2>1, IdleCalls DEF WorkerFresh
    <1>4. CASE ReadOrphans
        <2>1. CopiesFresh'
            BY <1>4 DEF ReadOrphans, CopiesFresh, Marking, Turned, Orphans, With
        <2> QED
            BY <1>3, <1>4, <2>1 DEF ReadOrphans
    <1>5. CASE ReclaimOrphan
        <2>1. PICK t \in todo :
                /\ WriteTask(t, [snap[t] EXCEPT !.status = "pending"])
                /\ todo' = todo \ {t}
            BY <1>5 DEF ReclaimOrphan, WriteTask
        <2>2. pc = "reclaim" /\ UNCHANGED <<pc, slot, exec, snap>>
            BY <1>5 DEF ReclaimOrphan
        <2>3. ASSUME NEW u \in todo'
              PROVE  snap'[u] = task'[u] /\ task'[u].status = "running"
            <3>1. u \in Tasks \ {t} /\ u \in todo
                BY <2>1, <2>3 DEF Typed, TypeOK
            <3>2. task'[u] = task[u]
                BY <2>1, <3>1, WroteOnly DEF Only
            <3> QED
                BY <1>1, <2>2, <3>1, <3>2 DEF CopiesFresh
        <2>4. CopiesFresh'
            BY <2>2, <2>3 DEF CopiesFresh, Marking, Turned
        <2> QED
            BY <1>3, <2>2, <2>4
    <1>6. CASE ReadWork \/ StartWork \/ WaitForDecision \/ FinishWork \/ FailWork \/ NoTaskReady
                 \/ RecordFailure \/ ReadForFailure
        <2>1. /\ pc' \in {"start", "load", "complete", "throw", "failjob", "giveup", "record"}
              /\ pc \notin {"idle", "execute"} /\ UNCHANGED <<slot, exec>>
            BY <1>6 DEF ReadWork, StartWork, WaitForDecision, FinishWork, FailWork, NoTaskReady,
               RecordFailure, ReadForFailure, WriteWork, Goto, EntersAt
        <2>2. CopiesFresh'
            BY <2>1 DEF CopiesFresh, Marking, Turned
        <2> QED
            BY <1>3, <2>1, <2>2
    <1>7. CASE Load
        <2>1. /\ pc' = TurnOf(task) /\ snap' = task /\ UNCHANGED <<task, slot, exec>>
              /\ todo' = IF TurnOf(task) = "mark" THEN Eligible(task) ELSE {}
              /\ pc = "load"
            BY <1>7 DEF Load
        <2>2. TurnOf(task) \in {"fail", "wait", "finish", "mark"}
            BY DEF TurnOf
        <2>3. CASE TurnOf(task) = "mark"
            <3>1. ASSUME NEW t \in todo'
                  PROVE  snap'[t] = task'[t] /\ task'[t].status = "pending" /\ DepsDone(t)'
                BY <2>1, <2>3, <3>1 DEF Eligible, With, DepsDone
            <3>2. CopiesFresh'
                BY <2>1, <2>3, <3>1 DEF CopiesFresh, Marking, Turned
            <3> QED
                BY <1>3, <2>1, <3>2
        <2>4. CASE TurnOf(task) # "mark"
            <3>1. CopiesFresh'
                BY <2>1, <2>2, <2>4 DEF CopiesFresh, Marking, Turned
            <3> QED
                BY <1>3, <2>1, <3>1
        <2> QED
            BY <2>3, <2>4
    <1>8. CASE DenyTask \/ MarkReady
        <2>1. PICK t \in todo : /\ \E row : WriteTask(t, row)
                                /\ todo' = todo \ {t}
            BY <1>8 DEF DenyTask, MarkReady
        <2>2. pc = "mark" /\ UNCHANGED <<pc, slot, exec, snap>>
            BY <1>8 DEF DenyTask, MarkReady
        <2>3. CopiesFresh'
            BY <1>1, <2>1, <2>2, WroteOnly, MarksOn DEF Marking
        <2> QED
            BY <1>3, <2>2, <2>3
    <1>9. CASE SkipAsked
        <2>1. PICK t \in todo : todo' = todo \ {t}
            BY <1>9 DEF SkipAsked
        <2>2. pc = "mark" /\ UNCHANGED <<task, pc, slot, exec, snap>>
            BY <1>9 DEF SkipAsked
        <2>3. CopiesFresh'
            BY <1>1, <2>1, <2>2, MarksOn DEF Marking, Only
        <2> QED
            BY <1>3, <2>2, <2>3
    <1>10. CASE RaiseApproval
        <2>1. Raises /\ UNCHANGED task /\ pc' = "raised" /\ pc = "mark"
            <3>1. AttemptWrites
                BY <1>10, AttemptStepWrites DEF AttemptStep
            <3>2. pc' = "raised"
                BY <1>10 DEF RaiseApproval
            <3> QED
                BY <3>1, <3>2 DEF AttemptWrites, Holds, Raises
        <2>2. UNCHANGED <<todo, snap, slot, exec>>
            BY <1>10 DEF RaiseApproval
        <2>3. PICK a \in Approvals :
                /\ approval[a].status = "absent" /\ approval'[a].status = "pending"
                /\ approval'[a].task \in todo
                /\ ~AlreadyAsked(task[approval'[a].task])
                /\ \A b \in Approvals \ {a} : approval'[b] = approval[b]
                /\ raised' = a
            BY <2>1 DEF Raises
        <2> DEFINE t == approval'[a].task
        <2>4. t \in Tasks
            BY <2>3 DEF Typed, TypeOK
        <2> HIDE DEF t
        <2>5. task[t].request \in Approvals \cup {None}
            BY <2>4 DEF Typed, TypeOK, TaskRow
        <2>6. task[t].request # a
            BY <2>3, <2>4 DEF Known, NamesKnown
        <2>7. ~(task'[t].request # None /\ approval'[task'[t].request].status = "pending")
            BY <2>1, <2>3, <2>5, <2>6 DEF AlreadyAsked, t
        <2>8. ~AlreadyAsked(task[approval[raised].task])'
            BY <2>3, <2>7 DEF AlreadyAsked, t
        <2>9. \A u \in todo' : /\ snap'[u] = task'[u] /\ task'[u].status = "pending"
                               /\ DepsDone(u)'
            BY <1>1, <2>1, <2>2 DEF CopiesFresh, Marking, DepsDone
        <2>10. CopiesFresh'
            BY <2>1, <2>2, <2>3, <2>8, <2>9 DEF CopiesFresh, Marking, Turned
        <2> QED
            BY <1>3, <2>1, <2>2, <2>10
    <1>11. CASE HoldTask
        <2> DEFINE t == approval[raised].task
        <2>1. /\ pc = "raised" /\ pc' = "mark" /\ UNCHANGED <<slot, exec, snap>>
              /\ \E row : WriteTask(t, row)
              /\ todo' = todo \ {t}
            BY <1>11 DEF HoldTask
        <2>2. t \in todo
            BY <1>1, <2>1 DEF CopiesFresh
        <2> HIDE DEF t
        <2>3. CopiesFresh'
            BY <1>1, <2>1, <2>2, WroteOnly, MarksOn DEF Marking
        <2> QED
            BY <1>3, <2>1, <2>3
    <1>12. CASE Reload
        <2>1. /\ pc = "mark" /\ pc' = AfterMarks(task) /\ snap' = task /\ todo' = {}
              /\ UNCHANGED <<task, slot>>
            BY <1>12 DEF Reload
        <2>2. AfterMarks(task) \in {"fail", "wait", "execute", "complete", "stuck"}
            BY DEF AfterMarks, TurnOf
        <2>3. CopiesFresh' /\ AttemptFits'
            <3>1. CopiesFresh'
                BY <2>1, <2>2 DEF CopiesFresh, Marking, Turned
            <3>2. slot.status = "running" /\ \A t \in Tasks : exec[t].pc = "off"
                BY <1>1, <2>1 DEF AttemptFits
            <3>3. pc' # "execute" => UNCHANGED exec
                BY <1>12, <2>1 DEF Reload
            <3> QED
                BY <2>1, <3>1, <3>2, <3>3 DEF AttemptFits
        <2>4. CASE pc' = "execute"
            <3>1. PICK b : exec' = [t \in Tasks |-> IF t \in b THEN [NoCall EXCEPT !.pc = "check"]
                                                    ELSE NoCall]
                BY <1>12, <2>1, <2>4 DEF Reload
            <3>2. \A t \in Tasks : exec'[t].pc \in {"check", "off"}
                BY <3>1 DEF NoCall
            <3> QED
                BY <2>3, <3>2 DEF WorkerFresh, CallsFresh, CallFresh
        <2>5. CASE pc' # "execute"
            <3>1. UNCHANGED exec
                BY <1>12, <2>1, <2>5 DEF Reload
            <3> QED
                BY <2>1, <2>3, <3>1, IdleCalls DEF WorkerFresh
        <2> QED
            BY <2>4, <2>5
    <1>13. CASE ExecuteStep
        BY <1>13, ExecuteStaysFresh
    <1>14. CASE BatchEnds
        <2>1. /\ pc = "execute" /\ exec = NoCalls /\ pc' = "load" /\ UNCHANGED <<slot, exec>>
            BY <1>14 DEF BatchEnds, Goto
        <2>2. \A t \in Tasks : exec[t].pc = "off"
            BY <2>1 DEF NoCalls, NoCall
        <2> QED
            BY <1>1, <2>1, <2>2 DEF WorkerFresh, AttemptFits, CopiesFresh, CallsFresh, CallFresh,
                                    Marking, Turned
    <1>15. CASE CompleteJob \/ FailJob \/ RequeueJob
        BY <1>2, <1>15 DEF CompleteJob, FailJob, RequeueJob
    <1> QED
        BY <1>4, <1>5, <1>6, <1>7, <1>8, <1>9, <1>10, <1>11, <1>12, <1>13, <1>14, <1>15
           DEF AttemptStep

LEMMA AtRestFresh ==
    ASSUME Typed, WorkerFresh, pc = "idle", UNCHANGED worker
    PROVE  WorkerFresh'
    BY DEF WorkerFresh, AttemptFits, CopiesFresh, CallsFresh, CallFresh, Marking, Turned, worker

LEMMA NothingFresh ==
    ASSUME Typed, WorkerFresh, UNCHANGED <<worker, slot, task, approval>>
    PROVE  WorkerFresh'
    BY DEF WorkerFresh, AttemptFits, CopiesFresh, CallsFresh, CallFresh, DepsDone, AlreadyAsked,
           worker

LEMMA OthersLeaveFresh ==
    ASSUME Typed, WorkerFresh, QueueStep \/ Environment
    PROVE  WorkerFresh'
    <1> USE DEF rows, bounds
    <1>1. CASE Claim
        <2>1. pc = "idle" /\ \A t \in Tasks : exec[t].pc = "off"
            BY <1>1 DEF Claim, WorkerFresh, AttemptFits
        <2>2. pc' = "orphans" /\ slot'.status = "running" /\ UNCHANGED exec
            BY <1>1 DEF Claim, Goto, Typed, TypeOK
        <2> QED
            BY <2>1, <2>2 DEF WorkerFresh, AttemptFits, CopiesFresh, CallsFresh, CallFresh,
                              Marking, Turned
    <1>2. CASE Recover \/ FailExpired \/ Reconcile
        <2>1. pc = "idle" /\ UNCHANGED worker
            BY <1>2 DEF Recover, FailExpired, Reconcile, WorkerFresh, AttemptFits
        <2> QED
            BY <2>1, AtRestFresh
    <1>3. CASE WorkerDies
        BY <1>3 DEF WorkerDies, EndAttempt, WorkerFresh, AttemptFits, CopiesFresh, CallsFresh,
                    CallFresh, Marking, Turned, NoCalls, NoCall
    <1>4. CASE StoreError
        <2>1. /\ pc \notin {"idle", "execute"} /\ pc' \in {"throw", "unrecorded"}
              /\ UNCHANGED <<slot, exec>>
            BY <1>4 DEF StoreError, Goto
        <2>2. slot.status = "running" /\ \A t \in Tasks : exec[t].pc = "off"
            BY <2>1 DEF WorkerFresh, AttemptFits
        <2> QED
            BY <2>1, <2>2 DEF WorkerFresh, AttemptFits, CopiesFresh, CallsFresh, CallFresh,
                              Marking, Turned
    <1>5. CASE (\E t \in Tasks : ActionChanges(t)) \/ \E c \in Requests : RequestCut(c)
        BY <1>5, NothingFresh DEF ActionChanges, RequestCut
    <1> QED
        BY <1>1, <1>2, <1>3, <1>4, <1>5 DEF QueueStep, Environment

LEMMA RequestsLeaveFresh ==
    ASSUME Typed, WorkerFresh, Alone, NEW c \in Requests, Open(c) \/ Continue(c)
    PROVE  WorkerFresh'
    <1> USE DEF rows, Elsewhere
    <1>1. CASE Open(c) \/ CheckNoJob(c) \/ WriteDecidedWork(c) \/ ListForRetry(c)
                 \/ WriteRetriedWork(c) \/ ReadJobForCancel(c)
                 \/ ListOpenDecisions(c) \/ ListForCancel(c) \/ WriteCancelledWork(c)
        BY <1>1, NothingFresh
           DEF Open, AskStart, OpenRetry, OpenCancel, OpenDecision, Opens, CheckNoJob,
               WriteDecidedWork, ListForRetry, WriteRetriedWork, ReadJobForCancel,
               ListOpenDecisions, ListForCancel, WriteCancelledWork
    <1>2. CASE Enqueue(c) \/ WithdrawJob(c)
        <2>1. UNCHANGED <<worker, task, approval>>
            BY <1>2 DEF Enqueue, WithdrawJob
        <2>2. UNCHANGED slot \/ slot.status # "running"
            BY <1>2 DEF Enqueue, WithdrawJob
        <2>3. slot.status # "running" => pc = "idle"
            BY DEF WorkerFresh, AttemptFits
        <2> QED
            BY <2>1, <2>2, <2>3, NothingFresh, AtRestFresh
    <1>3. CASE ResolvePending(c) \/ WriteDecidedTask(c) \/ ResetTask(c) \/ CloseDecision(c)
                 \/ CancelTask(c)
        <2>1. req[c].pc \in Writing /\ UNCHANGED worker
            BY <1>3 DEF ResolvePending, WriteDecidedTask, ResetTask, CloseDecision, CancelTask,
                        In, Deciding, Writing
        <2>2. pc = "idle"
            BY <2>1 DEF Alone, WorkerFresh, AttemptFits
        <2> QED
            BY <2>1, <2>2, AtRestFresh
    <1> QED
        BY <1>1, <1>2, <1>3 DEF Continue

-----------------------------------------------------------------------------
(* So do the copies of requests.                                           *)

LEMMA RequestsRest ==
    ASSUME Typed, RequestsFresh, NEW c \in Requests, UNCHANGED task,
           \A d \in Requests \ {c} : req'[d] = req[d],
           RequestFresh(c)'
    PROVE  RequestsFresh'
    BY DEF RequestsFresh, RequestFresh

LEMMA OthersLeaveCopies ==
    ASSUME Typed, AttemptFits, RequestsFresh, QueueStep \/ Environment
    PROVE  RequestsFresh'
    <1> USE DEF rows, bounds
    <1>1. CASE \E c \in Requests : RequestCut(c)
        <2>1. PICK c \in Requests : RequestCut(c)
            BY <1>1
        <2>2. req'[c] = NoRequest /\ UNCHANGED task /\ \A d \in Requests \ {c} : req'[d] = req[d]
            BY <2>1 DEF RequestCut, Answer, Typed, TypeOK
        <2>3. RequestFresh(c)'
            BY <2>2 DEF RequestFresh, NoRequest
        <2> QED
            BY <2>2, <2>3, RequestsRest
    <1>2. CASE ~\E c \in Requests : RequestCut(c)
        <2>1. UNCHANGED req
            BY <1>2 DEF QueueStep, Environment, Claim, Recover, FailExpired, WorkerDies,
                        StoreError, Reconcile, ActionChanges
        <2>2. task' \in {task, Interrupted(task)}
            BY <1>2 DEF QueueStep, Environment, Claim, Recover, FailExpired, WorkerDies,
                        StoreError, Reconcile, ActionChanges
        <2>3. ASSUME NEW t \in Tasks
              PROVE  /\ Agrees(task[t], task'[t])
                     /\ task[t].status # "completed" => task'[t].status # "completed"
            <3>1. task[t] \in TaskRow
                BY DEF Typed, TypeOK
            <3>2. task'[t] \in {task[t], [task[t] EXCEPT !.status = "failed"]}
                BY <2>2 DEF Interrupted
            <3> QED
                BY <3>1, <3>2 DEF Agrees, TaskRow
        <2> QED
            BY <2>1, <2>3 DEF RequestsFresh, RequestFresh, Agrees
    <1> QED
        BY <1>1, <1>2

LEMMA AttemptLeavesCopies ==
    ASSUME Typed, WorkerFresh, RequestsFresh, Alone, AttemptStep
    PROVE  RequestsFresh'
    <1>1. UNCHANGED req
        BY AttemptStepWrites
    <1>2. pc # "idle"
        BY DEF AttemptStep, ReadOrphans, ReclaimOrphan, ReadWork, StartWork, Load,
           WaitForDecision, FinishWork, FailWork, NoTaskReady, WriteWork, DenyTask, MarkReady,
           SkipAsked, RaiseApproval, HoldTask, Reload, ExecuteStep, Begin, AgentUnfit,
           StopForNewApproval, ClaimTask, EngineEnds, StepRecorded, RecordThrows,
           EngineResultLost, ReadRejected, FailRejected, At, BatchEnds, CompleteJob, FailJob,
           RequeueJob, ReadForFailure, RecordFailure
    <1>3. \A c \in Requests : req[c].pc \notin Writing
        BY <1>2 DEF Alone, WorkerFresh, AttemptFits
    <1> QED
        BY <1>1, <1>3 DEF RequestsFresh, RequestFresh, Writing

LEMMA ContinuesAlone ==
    ASSUME Typed, Alone, NEW c \in Requests, Continue(c)
    PROVE  /\ req[c].pc # "idle"
           /\ \A d \in Requests \ {c} : req[d] = NoRequest /\ req'[d] = NoRequest
    <1>1. req[c].pc # "idle"
        BY DEF Continue, CheckNoJob, Enqueue, ResolvePending, WriteDecidedTask, WriteDecidedWork,
           ListForRetry, ResetTask, WriteRetriedWork, ReadJobForCancel, WithdrawJob,
           ListOpenDecisions, CloseDecision, ListForCancel, CancelTask, WriteCancelledWork,
           In, Deciding
    <1>2. req[c] # NoRequest
        BY <1>1 DEF NoRequest
    <1>3. \A d \in Requests \ {c} : req'[d] = req[d]
        BY DEF Continue, CheckNoJob, Enqueue, ResolvePending, WriteDecidedTask, WriteDecidedWork,
           ListForRetry, ResetTask, WriteRetriedWork, ReadJobForCancel, WithdrawJob,
           ListOpenDecisions, CloseDecision, ListForCancel, CancelTask, WriteCancelledWork,
           Step, Answer, Proceed, Typed, TypeOK
    <1> QED
        BY <1>1, <1>2, <1>3 DEF Alone

LEMMA RequestStaysFresh ==
    ASSUME Typed, Alone, RequestsFresh, NEW c \in Requests, Open(c) \/ Continue(c)
    PROVE  RequestsFresh'
    <1> USE DEF rows, Elsewhere
    <1>1. /\ req[c] \in RequestRow /\ req \in [Requests -> RequestRow]
          /\ RequestFresh(c) /\ task \in [Tasks -> TaskRow]
        BY DEF RequestsFresh, Typed, TypeOK
    <1>2. CASE Open(c)
        <2>1. UNCHANGED task /\ \A d \in Requests \ {c} : req'[d] = req[d]
            BY <1>1, <1>2 DEF Open, AskStart, OpenRetry, OpenCancel, OpenDecision, Opens
        <2>2. RequestFresh(c)'
            <3>1. CASE AskStart(c) \/ OpenRetry(c) \/ OpenCancel(c)
                <4>1. req'[c].pc \in {"check", "list", "job"}
                    <5>1. ASSUME NEW op, NEW p \in {"check", "list", "job"},
                                 Opens(c, op, [NoRequest EXCEPT !.pc = p])
                          PROVE  req'[c].pc = p
                        BY <1>1, <5>1 DEF Opens, NoRequest
                    <5> QED
                        BY <3>1, <5>1 DEF AskStart, OpenRetry, OpenCancel
                <4> QED
                    BY <4>1 DEF RequestFresh
            <3>2. CASE \E op : OpenDecision(c, op)
                <4>1. req'[c].pc = "resolve" /\ req'[c].rows = task
                    BY <1>1, <3>2 DEF OpenDecision, Opens, NoRequest
                <4> QED
                    BY <2>1, <4>1 DEF RequestFresh, Agrees
            <3> QED
                BY <1>2, <3>1, <3>2 DEF Open
        <2> QED
            BY <2>1, <2>2, RequestsRest
    <1>3. ASSUME Continue(c), RequestFresh(c)'
          PROVE  RequestsFresh'
        <2>1. ASSUME NEW d \in Requests \ {c}
              PROVE  RequestFresh(d)'
            BY <1>3, ContinuesAlone DEF RequestFresh, NoRequest
        <2> QED
            BY <1>3, <2>1 DEF RequestsFresh
    <1>4. ASSUME NEW p, Step(c, p), p \notin {"reset", "cancel", "resolve", "task"}
          PROVE  RequestFresh(c)'
        <2>1. req'[c].pc = p
            BY <1>1, <1>4 DEF Step, RequestRow
        <2> QED
            BY <1>4, <2>1 DEF RequestFresh
    <1>5. ASSUME Answer(c)
          PROVE  RequestFresh(c)'
        <2>1. req'[c].pc = "idle"
            BY <1>1, <1>5 DEF Answer, NoRequest
        <2> QED
            BY <2>1 DEF RequestFresh
    <1>6. CASE CheckNoJob(c) \/ Enqueue(c) \/ WriteDecidedTask(c) \/ WriteDecidedWork(c)
                 \/ WriteRetriedWork(c) \/ WithdrawJob(c) \/ WriteCancelledWork(c)
        <2>1. RequestFresh(c)'
            BY <1>4, <1>5, <1>6 DEF CheckNoJob, Enqueue, WriteDecidedTask, WriteDecidedWork,
                  WriteRetriedWork, WithdrawJob, WriteCancelledWork
        <2> QED
            BY <1>3, <1>6, <2>1 DEF Continue
    <1>7. CASE ReadJobForCancel(c) \/ ListOpenDecisions(c)
        <2>1. req'[c].pc \in {"idle", "withdraw", "approvals", "close"}
            <3>1. CASE ReadJobForCancel(c)
                <4>1. CASE RefusesCancel(slot.status)
                    BY <1>1, <3>1, <4>1 DEF ReadJobForCancel, Answer, NoRequest
                <4>2. CASE ~RefusesCancel(slot.status)
                    <5>1. PICK p \in {"withdraw", "approvals"} :
                            Proceed(c, [req[c] EXCEPT !.job = slot.job, !.pc = p])
                        BY <3>1, <4>2 DEF ReadJobForCancel
                    <5> QED
                        BY <1>1, <5>1 DEF Proceed, RequestRow
                <4> QED
                    BY <4>1, <4>2
            <3>2. CASE ListOpenDecisions(c)
                BY <1>1, <3>2 DEF ListOpenDecisions, Proceed, RequestRow
            <3> QED
                BY <1>7, <3>1, <3>2
        <2>2. RequestFresh(c)'
            BY <2>1 DEF RequestFresh
        <2> QED
            BY <1>3, <1>7, <2>2 DEF Continue
    <1>8. CASE ResolvePending(c)
        <2>1. CASE StillPending(req[c].approval)
            <3>1. /\ req'[c].rows = req[c].rows /\ req'[c].pc = "task" /\ req[c].pc = "resolve"
                  /\ UNCHANGED task
                BY <1>1, <1>8, <2>1 DEF ResolvePending, Deciding, Step, RequestRow
            <3>2. RequestFresh(c)'
                BY <1>1, <3>1 DEF RequestFresh
            <3> QED
                BY <1>3, <1>8, <3>2 DEF Continue
        <2>2. CASE ~StillPending(req[c].approval)
            BY <1>3, <1>5, <1>8, <2>2 DEF ResolvePending, Continue
        <2> QED
            BY <2>1, <2>2
    <1>9. CASE ListForRetry(c) \/ ListForCancel(c)
        <2>1. /\ req'[c].pc \in {"reset", "cancel"} /\ req'[c].rows = task /\ UNCHANGED task
              /\ req'[c].left \subseteq Tasks
              /\ \A t \in req'[c].left : task[t].status # "completed"
            <3>1. PICK p \in {"reset", "cancel"}, left \in SUBSET Tasks :
                    /\ Proceed(c, [req[c] EXCEPT !.pc = p, !.rows = task, !.left = left])
                    /\ \A t \in left : task[t].status # "completed"
                <4>1. CASE ListForRetry(c)
                    <5>1. Proceed(c, [req[c] EXCEPT !.pc = "reset", !.rows = task,
                                                    !.left = Resettable(task)])
                        BY <4>1 DEF ListForRetry
                    <5>2. /\ Resettable(task) \in SUBSET Tasks
                          /\ \A t \in Resettable(task) : task[t].status # "completed"
                        BY DEF Resettable, With
                    <5> QED
                        BY <5>1, <5>2
                <4>2. CASE ListForCancel(c)
                    <5> DEFINE open == {t \in Tasks : task[t].status \notin Ended}
                    <5>1. Proceed(c, [req[c] EXCEPT !.pc = "cancel", !.rows = task,
                                                    !.left = open])
                        BY <4>2 DEF ListForCancel
                    <5>2. open \in SUBSET Tasks /\ \A t \in open : task[t].status # "completed"
                        BY DEF Ended
                    <5> HIDE DEF open
                    <5> QED
                        BY <5>1, <5>2
                <4> QED
                    BY <1>9, <4>1, <4>2
            <3>2. UNCHANGED task
                BY <1>9 DEF ListForRetry, ListForCancel
            <3> QED
                BY <1>1, <3>1, <3>2 DEF Proceed, RequestRow
        <2>2. RequestFresh(c)'
            BY <2>1 DEF RequestFresh, Agrees
        <2> QED
            BY <1>3, <1>9, <2>2 DEF Continue
    <1>10. CASE ResetTask(c) \/ CancelTask(c)
        <2>1. PICK t \in req[c].left :
                /\ \E row : WriteTask(t, row)
                /\ Proceed(c, [req[c] EXCEPT !.left = @ \ {t}])
            BY <1>10 DEF ResetTask, CancelTask
        <2>2. /\ req'[c].pc = req[c].pc /\ req'[c].rows = req[c].rows
              /\ req'[c].left = req[c].left \ {t} /\ req[c].pc \in {"reset", "cancel"}
            BY <1>1, <1>10, <2>1 DEF Proceed, RequestRow, ResetTask, CancelTask, In
        <2>3. /\ req[c].left \subseteq Tasks
              /\ \A u \in req[c].left : /\ Agrees(req[c].rows[u], task[u])
                                        /\ task[u].status # "completed"
            BY <1>1, <2>2 DEF RequestFresh
        <2>4. \A u \in Tasks \ {t} : task'[u] = task[u]
            BY <2>1, WroteOnly DEF Only
        <2>5. RequestFresh(c)'
            BY <2>2, <2>3, <2>4 DEF RequestFresh
        <2> QED
            BY <1>3, <1>10, <2>5 DEF Continue
    <1>11. CASE CloseDecision(c)
        <2>1. req'[c].pc = "close"
            BY <1>1, <1>11 DEF CloseDecision, In, Proceed, RequestRow
        <2>2. RequestFresh(c)'
            BY <2>1 DEF RequestFresh
        <2> QED
            BY <1>3, <1>11, <2>2 DEF Continue
    <1> QED
        BY <1>2, <1>6, <1>7, <1>8, <1>9, <1>10, <1>11 DEF Continue

-----------------------------------------------------------------------------
(* All of it together.                                                     *)
Base == Known /\ WorkerFresh /\ RequestsFresh

LEMMA InitBase ==
    ASSUME Init
    PROVE  Base
    <1>1. /\ task = Planned /\ exec = NoCalls /\ pc = "idle" /\ slot.status = "idle"
          /\ \A a \in Approvals : approval[a].status = "absent"
          /\ \A c \in Requests : req[c].pc = "idle"
        BY DEF Init, NoRequest
    <1>2. \A t \in Tasks : task[t].request = None /\ exec[t].pc = "off"
        BY <1>1 DEF Planned, PlannedRow, NoCalls, NoCall
    <1> QED
        BY <1>1, <1>2 DEF Base, Known, NamesKnown, AskedFor, WorkerFresh, AttemptFits, CopiesFresh,
           CallsFresh, CallFresh, RequestsFresh, RequestFresh, Marking, Turned

LEMMA NextWrites ==
    ASSUME Typed, Base, [Next]_vars
    PROVE  AttemptWrites \/ RequestWrites
    <1>1. CASE AttemptStep
        BY <1>1, AttemptStepWrites DEF Base
    <1>2. CASE QueueStep \/ Environment
        BY <1>2, OthersWriteAlso DEF Base, WorkerFresh
    <1>3. CASE \E c \in Requests : Open(c) \/ Continue(c)
        BY <1>3, RequestStepWrites DEF Base
    <1>4. CASE UNCHANGED vars
        BY <1>4 DEF vars, rows, RequestWrites
    <1> QED
        BY <1>1, <1>2, <1>3, <1>4 DEF Next

LEMMA NextBase ==
    ASSUME Typed, Alone, Base, [Next]_vars
    PROVE  Base'
    <1>1. Known /\ WorkerFresh /\ RequestsFresh /\ AttemptFits
        BY DEF Base, WorkerFresh
    <1>2. Known'
        BY <1>1, NextWrites, KnownKept
    <1>3. WorkerFresh' /\ RequestsFresh'
        <2>1. CASE AttemptStep
            BY <1>1, <2>1, AttemptStaysFresh, AttemptLeavesCopies
        <2>2. CASE QueueStep \/ Environment
            BY <1>1, <2>2, OthersLeaveFresh, OthersLeaveCopies
        <2>3. CASE \E c \in Requests : Open(c) \/ Continue(c)
            BY <1>1, <2>3, RequestsLeaveFresh, RequestStaysFresh
        <2>4. CASE UNCHANGED vars
            <3>1. WorkerFresh'
                BY <1>1, <2>4, NothingFresh DEF vars, rows
            <3>2. RequestsFresh'
                BY <1>1, <2>4 DEF vars, rows, RequestsFresh, RequestFresh
            <3> QED
                BY <3>1, <3>2
        <2> QED
            BY <2>1, <2>2, <2>3, <2>4 DEF Next
    <1> QED
        BY <1>2, <1>3 DEF Base

(* As long as requests come one at a time and write while no job is        *)
(* active, every copy says what its row says when it is written back, and  *)
(* what a row or a copy names has been raised.                             *)
THEOREM CopiesStayFresh == Spec /\ []Alone => []Base
    BY InitBase, NextBase, TypeCorrect, PTL DEF Spec

-----------------------------------------------------------------------------
(* Without errors between a write and the next, every open decision is the *)
(* one its step waits for, and what a row says was decided is what was.    *)
PendingNamed ==
    \A a \in Approvals : approval[a].status = "pending" =>
        \/ pc = "raised" /\ raised = a
        \/ task[approval[a].task].request = a

Decides(c) ==
    LET a == req[c].approval  t == approval[a].task IN
        /\ task[t].status # "completed"
        /\ task[t].request = a
        /\ task[t].hash = approval[a].hash
        /\ \A b \in Approvals : approval[b].status = "pending" => approval[b].task # t

DecidesNow == \A c \in Requests : req[c].pc = "task" => Decides(c)

RowsAgree ==
    \A t \in Tasks :
        /\ task[t].decision \in {"pending", "approved"} =>
              task[t].request # None /\ task[t].hash = approval[task[t].request].hash
        /\ AlreadyAsked(task[t]) => task[t].decision = "pending"

CallsAgree ==
    \A t \in Tasks : exec[t].pc \in {"claim", "engine"} /\ Granted(exec[t].row) =>
        exec[t].row.hash = exec[t].version

Exact == PendingNamed /\ DecidesNow /\ RowsAgree /\ CallsAgree

LEMMA RaisedHeld ==
    ASSUME Typed, Base, MaxFaults = 0, [Next]_vars, pc = "raised"
    PROVE  Holds \/ UNCHANGED <<pc, raised>>
    <1> USE DEF rows, bounds, worker
    <1>1. slot.status = "running" /\ ~(faults.thrown < MaxFaults)
        BY DEF Base, WorkerFresh, AttemptFits, Typed, TypeOK
    <1>2. CASE AttemptStep
        <2>1. HoldTask
            BY <1>2 DEF AttemptStep, ReadOrphans, ReclaimOrphan, ReadWork, StartWork, Load,
               WaitForDecision, FinishWork, FailWork, NoTaskReady, WriteWork, DenyTask,
               MarkReady, SkipAsked, RaiseApproval, Reload, ExecuteStep, Begin, AgentUnfit,
               StopForNewApproval, ClaimTask, EngineEnds, StepRecorded, RecordThrows,
               EngineResultLost, ReadRejected, FailRejected, At, BatchEnds, CompleteJob,
               FailJob, RequeueJob, ReadForFailure, RecordFailure
        <2> QED
            BY <2>1, HoldTaskHolds DEF Base
    <1>3. CASE QueueStep \/ Environment
        BY <1>1, <1>3 DEF QueueStep, Environment, Claim, Recover, FailExpired, WorkerDies,
           StoreError, Reconcile, ActionChanges, RequestCut
    <1>4. CASE \E c \in Requests : Open(c) \/ Continue(c)
        <2>1. PICK c \in Requests : Open(c) \/ Continue(c)
            BY <1>4
        <2>2. UNCHANGED worker
            BY <2>1 DEF Open, AskStart, OpenRetry, OpenCancel, OpenDecision, Opens, Continue,
               CheckNoJob, Enqueue, ResolvePending, WriteDecidedTask, WriteDecidedWork,
               ListForRetry, ResetTask, WriteRetriedWork, ReadJobForCancel, WithdrawJob,
               ListOpenDecisions, CloseDecision, ListForCancel, CancelTask, WriteCancelledWork,
               Elsewhere
        <2> QED
            BY <2>2
    <1>5. CASE UNCHANGED vars
        BY <1>5 DEF vars
    <1> QED
        BY <1>2, <1>3, <1>4, <1>5 DEF Next

LEMMA AttemptBusy ==
    ASSUME AttemptStep
    PROVE  pc # "idle"
    BY DEF AttemptStep, ReadOrphans, ReclaimOrphan, ReadWork, StartWork, Load, WaitForDecision,
       FinishWork, FailWork, NoTaskReady, WriteWork, DenyTask, MarkReady, SkipAsked,
       RaiseApproval, HoldTask, Reload, ExecuteStep, Begin, AgentUnfit, StopForNewApproval,
       ClaimTask, EngineEnds, StepRecorded, RecordThrows, EngineResultLost, ReadRejected,
       FailRejected, At, BatchEnds, CompleteJob, FailJob, RequeueJob, ReadForFailure,
       RecordFailure

(* Where a request is after each of its steps.                             *)
LEMMA Stepped ==
    ASSUME Typed, NEW c \in Requests, NEW p, Step(c, p)
    PROVE  /\ req'[c].pc = p /\ req'[c].op = req[c].op /\ req'[c].approval = req[c].approval
           /\ req'[c].rows = req[c].rows /\ req'[c].left = req[c].left
           /\ req'[c].job = req[c].job
           /\ \A d \in Requests \ {c} : req'[d] = req[d]
    <1>1. req \in [Requests -> RequestRow] /\ req[c] \in RequestRow
        BY DEF Typed, TypeOK
    <1> QED
        BY <1>1 DEF Step, RequestRow

LEMMA Answered ==
    ASSUME Typed, NEW c \in Requests, Answer(c)
    PROVE  /\ req'[c] = NoRequest /\ req'[c].pc = "idle" /\ req'[c].op = None
           /\ \A d \in Requests \ {c} : req'[d] = req[d]
    BY DEF Answer, Typed, TypeOK, NoRequest

LEMMA Opened ==
    ASSUME Typed, NEW c \in Requests, Open(c)
    PROVE  /\ \/ AskStart(c) /\ req'[c].pc = "check" /\ req'[c].op = "start"
              \/ OpenRetry(c) /\ req'[c].pc = "list" /\ req'[c].op = "retry"
              \/ OpenCancel(c) /\ req'[c].pc = "job" /\ req'[c].op = "cancel"
              \/ \E op \in {"approve", "reject"} :
                    OpenDecision(c, op) /\ req'[c].pc = "resolve" /\ req'[c].op = op
           /\ req[c] = NoRequest
           /\ \A d \in Requests \ {c} : req'[d] = req[d]
           /\ UNCHANGED <<rows, slot, worker, faults>>
    <1>1. req \in [Requests -> RequestRow]
        BY DEF Typed, TypeOK
    <1>2. ASSUME NEW op, NEW r, Opens(c, op, r)
          PROVE  /\ req'[c] = [r EXCEPT !.op = op]
                 /\ req[c] = NoRequest
                 /\ \A d \in Requests \ {c} : req'[d] = req[d]
                 /\ UNCHANGED <<rows, slot, worker, faults>>
        BY <1>1, <1>2 DEF Opens
    <1>3. ASSUME NEW op, NEW p, NEW r, r = [NoRequest EXCEPT !.pc = p], Opens(c, op, r)
          PROVE  req'[c].pc = p /\ req'[c].op = op
        <2>1. req'[c] = [r EXCEPT !.op = op]
            BY <1>2, <1>3
        <2> QED
            BY <1>3, <2>1 DEF NoRequest
    <1>4. CASE AskStart(c) \/ OpenRetry(c) \/ OpenCancel(c)
        BY <1>2, <1>3, <1>4 DEF AskStart, OpenRetry, OpenCancel
    <1>5. ASSUME NEW op \in {"approve", "reject"}, OpenDecision(c, op)
          PROVE  /\ req'[c].pc = "resolve" /\ req'[c].op = op
                 /\ req[c] = NoRequest
                 /\ \A d \in Requests \ {c} : req'[d] = req[d]
                 /\ UNCHANGED <<rows, slot, worker, faults>>
        <2>1. PICK a \in Approvals :
                Opens(c, op, [NoRequest EXCEPT !.pc = "resolve", !.approval = a, !.rows = task])
            BY <1>5 DEF OpenDecision
        <2> DEFINE r == [NoRequest EXCEPT !.pc = "resolve", !.approval = a, !.rows = task]
        <2>2. req'[c] = [r EXCEPT !.op = op]
            BY <1>2, <2>1
        <2>3. req'[c].pc = "resolve" /\ req'[c].op = op
            BY <2>2 DEF NoRequest
        <2> HIDE DEF r
        <2> QED
            BY <1>2, <2>1, <2>3 DEF r
    <1> QED
        BY <1>4, <1>5 DEF Open

(* The request is at p and otherwise as it was.                            *)
Goes(c, p) ==
    /\ req'[c].pc = p /\ req'[c].op = req[c].op /\ req'[c].approval = req[c].approval
    /\ req'[c].left = req[c].left /\ req'[c].rows = req[c].rows

(* ... or answered.                                                        *)
Gone(c) == req'[c] = NoRequest /\ req'[c].pc = "idle" /\ req'[c].op = None

(* ... or at p with other things left to do.                               *)
Lists(c, p, left) == req'[c].pc = p /\ req'[c].op = req[c].op /\ req'[c].left = left

ContinuesAs(c) ==
    \/ CheckNoJob(c) /\ In(c, "start", "check") /\ (Gone(c) \/ Goes(c, "enqueue"))
    \/ Enqueue(c) /\ req[c].pc = "enqueue" /\ Gone(c)
    \/ ResolvePending(c) /\ Deciding(c, "resolve") /\ ~StillPending(req[c].approval) /\ Gone(c)
    \/ ResolvePending(c) /\ Deciding(c, "resolve") /\ StillPending(req[c].approval)
          /\ Goes(c, "task")
    \/ WriteDecidedTask(c) /\ Deciding(c, "task") /\ Goes(c, "work")
    \/ WriteDecidedWork(c) /\ Deciding(c, "work") /\ req[c].op = "approve" /\ Goes(c, "enqueue")
    \/ WriteDecidedWork(c) /\ Deciding(c, "work") /\ req[c].op # "approve" /\ Gone(c)
    \/ ListForRetry(c) /\ In(c, "retry", "list") /\ Lists(c, "reset", Resettable(task))
    \/ ResetTask(c) /\ In(c, "retry", "reset")
          /\ \E t \in req[c].left : Lists(c, "reset", req[c].left \ {t})
    \/ WriteRetriedWork(c) /\ In(c, "retry", "reset") /\ Goes(c, "enqueue")
    \/ ReadJobForCancel(c) /\ In(c, "cancel", "job") /\ slot.status = "running" /\ Gone(c)
    \/ ReadJobForCancel(c) /\ In(c, "cancel", "job") /\ slot.status = "queued"
          /\ Lists(c, "withdraw", req[c].left)
    \/ ReadJobForCancel(c) /\ In(c, "cancel", "job") /\ slot.status \notin {"queued", "running"}
          /\ Lists(c, "approvals", req[c].left)
    \/ WithdrawJob(c) /\ In(c, "cancel", "withdraw") /\ slot.status = "queued"
          /\ SettleSlot("cancelled") /\ Goes(c, "approvals")
    \/ WithdrawJob(c) /\ In(c, "cancel", "withdraw") /\ UNCHANGED slot /\ Gone(c)
    \/ ListOpenDecisions(c) /\ In(c, "cancel", "approvals") /\ Lists(c, "close", OpenDecisions)
    \/ CloseDecision(c) /\ In(c, "cancel", "close")
          /\ \E a \in req[c].left :
                /\ Lists(c, "close", req[c].left \ {a})
                /\ approval' = IF StillPending(a) THEN [approval EXCEPT ![a].status = "cancelled"]
                               ELSE approval
    \/ ListForCancel(c) /\ In(c, "cancel", "close") /\ req[c].left = {}
          /\ Lists(c, "cancel", {t \in Tasks : task[t].status \notin Ended})
    \/ CancelTask(c) /\ In(c, "cancel", "cancel")
          /\ \E t \in req[c].left :
                /\ Lists(c, "cancel", req[c].left \ {t})
                /\ WriteTask(t, [req[c].rows[t] EXCEPT !.status = "cancelled"])
    \/ WriteCancelledWork(c) /\ In(c, "cancel", "cancel") /\ req[c].left = {} /\ Gone(c)

LEMMA Continued ==
    ASSUME Typed, NEW c \in Requests, Continue(c)
    PROVE  /\ ContinuesAs(c)
           /\ \A d \in Requests \ {c} : req'[d] = req[d]
           /\ UNCHANGED <<worker, bounds>>
    <1>1. req \in [Requests -> RequestRow] /\ req[c] \in RequestRow
        BY DEF Typed, TypeOK
    <1>2. ASSUME Answer(c)
          PROVE  Gone(c)
        BY <1>2, Answered DEF Gone
    <1>3. ASSUME NEW p, Step(c, p)
          PROVE  Goes(c, p)
        BY <1>3, Stepped DEF Goes
    <1>4. ASSUME NEW p, NEW left, Proceed(c, [req[c] EXCEPT !.pc = p, !.left = left])
          PROVE  Lists(c, p, left)
        BY <1>1, <1>4 DEF Proceed, RequestRow, Lists
    <1>5. ASSUME NEW p, NEW left, NEW rs,
                 Proceed(c, [req[c] EXCEPT !.pc = p, !.rows = rs, !.left = left])
          PROVE  Lists(c, p, left)
        BY <1>1, <1>5 DEF Proceed, RequestRow, Lists
    <1>6. ASSUME NEW left, Proceed(c, [req[c] EXCEPT !.left = left])
          PROVE  Lists(c, req[c].pc, left)
        BY <1>1, <1>6 DEF Proceed, RequestRow, Lists
    <1>7. ASSUME NEW p, NEW j, Proceed(c, [req[c] EXCEPT !.job = j, !.pc = p])
          PROVE  Lists(c, p, req[c].left)
        BY <1>1, <1>7 DEF Proceed, RequestRow, Lists
    <1>8. /\ \A d \in Requests \ {c} : req'[d] = req[d]
          /\ UNCHANGED <<worker, bounds>>
        <2>1. \E r : req' = [req EXCEPT ![c] = r]
            BY DEF Continue, CheckNoJob, Enqueue, ResolvePending, WriteDecidedTask,
               WriteDecidedWork, ListForRetry, ResetTask, WriteRetriedWork, ReadJobForCancel,
               WithdrawJob, ListOpenDecisions, CloseDecision, ListForCancel, CancelTask,
               WriteCancelledWork, Step, Answer, Proceed
        <2>2. Elsewhere
            BY DEF Continue, CheckNoJob, Enqueue, ResolvePending, WriteDecidedTask,
               WriteDecidedWork, ListForRetry, ResetTask, WriteRetriedWork, ReadJobForCancel,
               WithdrawJob, ListOpenDecisions, CloseDecision, ListForCancel, CancelTask,
               WriteCancelledWork
        <2> QED
            BY <1>1, <2>1, <2>2 DEF Elsewhere
    <1> SUFFICES ContinuesAs(c)
        BY <1>8
    <1>9. CASE CheckNoJob(c)
        BY <1>2, <1>3, <1>9 DEF CheckNoJob, ContinuesAs
    <1>10. CASE Enqueue(c)
        BY <1>2, <1>10 DEF Enqueue, ContinuesAs
    <1>11. CASE ResolvePending(c)
        BY <1>2, <1>3, <1>11 DEF ResolvePending, ContinuesAs
    <1>12. CASE WriteDecidedTask(c)
        BY <1>3, <1>12 DEF WriteDecidedTask, ContinuesAs
    <1>13. CASE WriteDecidedWork(c)
        BY <1>2, <1>3, <1>13 DEF WriteDecidedWork, ContinuesAs, AfterDecision
    <1>14. CASE ListForRetry(c)
        BY <1>5, <1>14 DEF ListForRetry, ContinuesAs
    <1>15. CASE ResetTask(c)
        <2>1. PICK t \in req[c].left : Proceed(c, [req[c] EXCEPT !.left = req[c].left \ {t}])
            BY <1>15 DEF ResetTask
        <2>2. In(c, "retry", "reset") /\ Lists(c, req[c].pc, req[c].left \ {t})
            BY <1>6, <1>15, <2>1 DEF ResetTask
        <2> QED
            BY <1>15, <2>1, <2>2 DEF ContinuesAs, In
    <1>16. CASE WriteRetriedWork(c)
        BY <1>3, <1>16 DEF WriteRetriedWork, ContinuesAs
    <1>17. CASE ReadJobForCancel(c)
        <2>1. CASE slot.status = "running"
            BY <1>2, <1>17, <2>1 DEF ReadJobForCancel, RefusesCancel, ContinuesAs
        <2>2. CASE slot.status # "running"
            <3>1. Proceed(c, [req[c] EXCEPT !.job = slot.job,
                        !.pc = IF slot.status = "queued" THEN "withdraw" ELSE "approvals"])
                BY <1>17, <2>2 DEF ReadJobForCancel, RefusesCancel
            <3>2. Lists(c, IF slot.status = "queued" THEN "withdraw" ELSE "approvals",
                        req[c].left)
                BY <1>7, <3>1
            <3> QED
                BY <1>17, <2>2, <3>2 DEF ReadJobForCancel, ContinuesAs
        <2> QED
            BY <2>1, <2>2
    <1>18. CASE WithdrawJob(c)
        BY <1>2, <1>3, <1>18 DEF WithdrawJob, ContinuesAs
    <1>19. CASE ListOpenDecisions(c)
        BY <1>4, <1>19 DEF ListOpenDecisions, ContinuesAs
    <1>20. CASE CloseDecision(c)
        BY <1>6, <1>20 DEF CloseDecision, ContinuesAs, In
    <1>21. CASE ListForCancel(c)
        BY <1>5, <1>21 DEF ListForCancel, ContinuesAs
    <1>22. CASE CancelTask(c)
        BY <1>6, <1>22 DEF CancelTask, ContinuesAs, In
    <1>23. CASE WriteCancelledWork(c)
        BY <1>2, <1>23 DEF WriteCancelledWork, ContinuesAs
    <1> QED
        BY <1>9, <1>10, <1>11, <1>12, <1>13, <1>14, <1>15, <1>16, <1>17, <1>18, <1>19,
           <1>20, <1>21, <1>22, <1>23 DEF Continue

(* While a decision is being written, nothing else touches what it is      *)
(* about.                                                                  *)
LEMMA DecidingRests ==
    ASSUME Typed, Alone, Base, [Next]_vars, NEW c \in Requests, req[c].pc = "task",
           req'[c].pc = "task"
    PROVE  /\ UNCHANGED approval /\ req'[c].approval = req[c].approval
           /\ \A t \in Tasks : /\ Agrees(task[t], task'[t])
                               /\ task'[t].status = "completed" => task[t].status = "completed"
    <1>1. pc = "idle" /\ req[c] # NoRequest /\ AttemptFits
        BY DEF Alone, Base, WorkerFresh, AttemptFits, Writing, NoRequest
    <1>2. CASE UNCHANGED <<task, approval>> /\ req'[c] = req[c]
        BY <1>2 DEF Agrees
    <1>3. CASE AttemptStep
        BY <1>1, <1>3, AttemptBusy
    <1>4. CASE QueueStep \/ Environment
        <2>1. UNCHANGED approval /\ (UNCHANGED task \/ Restates(Open3))
            BY <1>1, <1>4, OthersWrite
        <2>2. task' \in {task, Interrupted(task)}
            BY <1>4 DEF QueueStep, Environment, Claim, Recover, FailExpired, WorkerDies,
                        StoreError, Reconcile, ActionChanges, RequestCut, rows
        <2>3. req'[c] \in {req[c], NoRequest}
            BY <1>4 DEF QueueStep, Environment, Claim, Recover, FailExpired, WorkerDies,
                        StoreError, Reconcile, ActionChanges, RequestCut, Answer, Typed, TypeOK
        <2>4. req'[c] = req[c]
            BY <2>3 DEF NoRequest
        <2>5. ASSUME NEW t \in Tasks
              PROVE  /\ Agrees(task[t], task'[t])
                     /\ task'[t].status = "completed" => task[t].status = "completed"
            <3>1. task[t] \in TaskRow
                BY DEF Typed, TypeOK
            <3>2. task'[t] \in {task[t], [task[t] EXCEPT !.status = "failed"]}
                BY <2>2 DEF Interrupted
            <3> QED
                BY <3>1, <3>2 DEF TaskRow, Agrees
        <2> QED
            BY <2>1, <2>4, <2>5
    <1>5. ASSUME NEW d \in Requests, Open(d)
          PROVE  UNCHANGED <<task, approval>> /\ req'[c] = req[c]
        <2>1. req[d] = NoRequest /\ UNCHANGED <<task, approval>>
              /\ \A e \in Requests \ {d} : req'[e] = req[e]
            BY <1>5, Opened DEF rows
        <2> QED
            BY <1>1, <2>1
    <1>6. ASSUME NEW d \in Requests, Continue(d)
          PROVE  FALSE
        <2>1. d = c
            BY <1>1, <1>6, ContinuesAlone
        <2>2. ContinuesAs(c)
            BY <1>6, <2>1, Continued
        <2> QED
            BY <2>2 DEF ContinuesAs, In, Deciding, Goes
    <1>7. CASE UNCHANGED vars
        BY <1>2, <1>7 DEF vars, rows
    <1> QED
        BY <1>2, <1>3, <1>4, <1>5, <1>6, <1>7 DEF Next

(* The request that decides a decision.                                    *)
LEMMA ReachesTask ==
    ASSUME Typed, [Next]_vars, Base, NEW c \in Requests, req[c].pc # "task", req'[c].pc = "task"
    PROVE  /\ ResolvePending(c) /\ StillPending(req[c].approval) /\ Goes(c, "task")
           /\ Deciding(c, "resolve")
    <1>1. req'[c] # req[c]
        OBVIOUS
    <1>2. CASE AttemptStep
        BY <1>1, <1>2, AttemptStepWrites DEF Base
    <1>3. CASE QueueStep \/ Environment
        <2>1. req'[c] \in {req[c], NoRequest}
            BY <1>3 DEF QueueStep, Environment, Claim, Recover, FailExpired, WorkerDies,
                        StoreError, Reconcile, ActionChanges, RequestCut, Answer, Typed, TypeOK
        <2> QED
            BY <2>1 DEF NoRequest
    <1>4. ASSUME NEW d \in Requests, Open(d)
          PROVE  FALSE
        BY <1>4, Opened
    <1>5. ASSUME NEW d \in Requests, Continue(d)
          PROVE  /\ ResolvePending(c) /\ StillPending(req[c].approval) /\ Goes(c, "task")
                 /\ Deciding(c, "resolve")
        <2>1. d = c
            BY <1>1, <1>5, Continued
        <2>2. ContinuesAs(c)
            BY <1>5, <2>1, Continued
        <2> QED
            BY <2>2 DEF ContinuesAs, Goes, Lists, Gone
    <1>6. CASE UNCHANGED vars
        BY <1>1, <1>6 DEF vars
    <1> QED
        BY <1>2, <1>3, <1>4, <1>5, <1>6 DEF Next

(* A pending approval is not the one of a completed step.                  *)
LEMMA PendingNotCompleted ==
    ASSUME Typed, Base, Sound, NEW a \in Approvals, approval[a].status = "pending",
           task[approval[a].task].request = a
    PROVE  task[approval[a].task].status # "completed"
    <1> DEFINE t == approval[a].task
    <1>1. t \in Asks /\ t \in Tasks
        BY DEF Base, Known, AskedFor, LifecycleAssumption
    <1>2. SoundIn(approval, t, task[t])
        BY <1>1 DEF Sound, TasksSound, TableSound
    <1> QED
        BY <1>1, <1>2 DEF SoundIn, Going

LEMMA NextPendingNamed ==
    ASSUME Typed, Base, Exact, MaxFaults = 0, [Next]_vars
    PROVE  PendingNamed'
    <1> SUFFICES ASSUME NEW a \in Approvals, approval'[a].status = "pending"
                 PROVE  (pc' = "raised" /\ raised' = a) \/ task'[approval'[a].task].request = a
        BY DEF PendingNamed
    <1>1. (AttemptWrites \/ RequestWrites) /\ ApprovalsMove
        BY NextWrites, EveryApprovalMoves
    <1>2. CASE approval[a].status = "absent"
        <2>1. Raises /\ ~Settles
            BY <1>1, <1>2 DEF AttemptWrites, RequestWrites, Settles
        <2> QED
            BY <1>2, <2>1 DEF Raises
    <1>3. CASE approval[a].status # "absent"
        <2> DEFINE t == approval[a].task
        <2>1. approval[a].status = "pending" /\ approval'[a].task = t
            BY <1>1, <1>3 DEF ApprovalsMove
        <2>2. t \in Tasks /\ task[t] \in TaskRow
            BY <2>1 DEF Typed, Named, TypeOK
        <2>3. CASE pc = "raised" /\ raised = a
            BY <2>1, <2>3, RaisedHeld DEF Holds
        <2>4. CASE task[t].request = a
            <3>0. AlreadyAsked(task[t])
                BY <2>1, <2>4 DEF AlreadyAsked
            <3>1. task'[t].request = a
                <4>1. CASE UNCHANGED task
                    BY <2>4, <4>1
                <4>2. CASE Restates(Open3) \/ Restates(Unfinished)
                    BY <2>2, <2>4, <4>2 DEF Restates, Moves, Agrees
                <4>3. CASE Holds
                    <5>1. approval[raised].task # t
                        BY <3>0, <4>3 DEF Holds, Base, WorkerFresh, CopiesFresh
                    <5> QED
                        BY <2>2, <2>4, <4>3, <5>1 DEF Holds, Only
                <4>4. CASE Supersedes \/ Undoes
                    BY <2>2, <2>4, <4>4 DEF Supersedes, Undoes, Agrees, Only
                <4>5. ASSUME NEW c \in Requests, Decided(c)
                      PROVE  task'[t].request = a
                    <5>1. approval[req[c].approval].task # t
                        BY <2>1, <4>5 DEF Exact, DecidesNow, Decides, Decided
                    <5> QED
                        BY <2>2, <2>4, <4>5, <5>1 DEF Decided, Only
                <4> QED
                    BY <1>1, <4>1, <4>2, <4>3, <4>4, <4>5 DEF AttemptWrites, RequestWrites
            <3> QED
                BY <2>1, <3>1
        <2> QED
            BY <2>1, <2>3, <2>4 DEF Exact, PendingNamed
    <1> QED
        BY <1>2, <1>3

LEMMA NextDecides ==
    ASSUME Typed, Alone, Base, Sound, Exact, [Next]_vars
    PROVE  DecidesNow'
    <1> SUFFICES ASSUME NEW c \in Requests, req'[c].pc = "task"
                 PROVE  Decides(c)'
        BY DEF DecidesNow
    <1>1. CASE req[c].pc = "task"
        <2> DEFINE a == req[c].approval  t == approval[a].task
        <2>1. /\ UNCHANGED approval /\ req'[c].approval = a
              /\ \A u \in Tasks : /\ Agrees(task[u], task'[u])
                                  /\ task'[u].status = "completed" => task[u].status = "completed"
            BY <1>1, DecidingRests
        <2>2. Decides(c) /\ t \in Tasks
            BY <1>1 DEF Exact, DecidesNow, Typed, Named
        <2> QED
            BY <2>1, <2>2 DEF Decides, Agrees
    <1>2. CASE req[c].pc # "task"
        <2> DEFINE a == req[c].approval  t == approval[a].task
        <2>1. /\ ResolvePending(c) /\ approval[a].status = "pending" /\ req[c].pc = "resolve"
              /\ req'[c].approval = a
            BY <1>2, ReachesTask DEF StillPending, Goes, Deciding
        <2>2. a \in Approvals /\ t \in Tasks /\ pc = "idle"
            BY <2>1 DEF Typed, Named, Alone, Writing, Base, WorkerFresh, AttemptFits
        <2>3. task[t].request = a /\ task[t].status # "completed"
            BY <2>1, <2>2, PendingNotCompleted DEF Exact, PendingNamed
        <2>4. task[t].hash = approval[a].hash
            BY <2>1, <2>2, <2>3 DEF Exact, RowsAgree, AlreadyAsked
        <2>5. UNCHANGED task /\ \E s \in {"approved", "rejected"} :
                                   approval' = [approval EXCEPT ![a].status = s]
            BY <2>1 DEF ResolvePending, StillPending
        <2>6. /\ approval'[a].status # "pending" /\ approval'[a].task = t
              /\ approval'[a].hash = approval[a].hash
              /\ \A b \in Approvals \ {a} : approval'[b] = approval[b]
            BY <2>2, <2>5 DEF Typed, TypeOK, ApprovalRow
        <2>7. ASSUME NEW b \in Approvals, approval'[b].status = "pending"
              PROVE  approval'[b].task # t
            <3>1. b # a /\ approval'[b] = approval[b]
                BY <2>6, <2>7
            <3> QED
                BY <2>2, <2>3, <2>7, <3>1 DEF Exact, PendingNamed
        <2>8. /\ UNCHANGED task /\ req'[c].approval = a
              /\ approval'[a].task = t /\ approval'[a].hash = approval[a].hash
            BY <2>1, <2>5, <2>6
        <2> QED
            BY <2>3, <2>4, <2>7, <2>8 DEF Decides
    <1> QED
        BY <1>1, <1>2

LEMMA NextRowsAgree ==
    ASSUME Typed, Base, Sound, Exact, [Next]_vars
    PROVE  RowsAgree'
    <1>1. (AttemptWrites \/ RequestWrites) /\ ApprovalsMove
        BY NextWrites, EveryApprovalMoves
    <1> SUFFICES ASSUME NEW t \in Tasks
                 PROVE  /\ task'[t].decision \in {"pending", "approved"} =>
                             /\ task'[t].request # None
                             /\ task'[t].hash = approval'[task'[t].request].hash
                        /\ task'[t].request # None
                           /\ approval'[task'[t].request].status = "pending" =>
                              task'[t].decision = "pending"
        BY DEF RowsAgree, AlreadyAsked
    <1>2. /\ task[t] \in TaskRow /\ task[t].request \in Approvals \cup {None}
          /\ task[t].decision \in {"pending", "approved"} =>
                task[t].request # None /\ task[t].hash = approval[task[t].request].hash
          /\ task[t].request # None /\ approval[task[t].request].status = "pending" =>
                task[t].decision = "pending"
          /\ task[t].request # None => approval[task[t].request].status # "absent"
        BY DEF Typed, TypeOK, TaskRow, Exact, RowsAgree, AlreadyAsked, Base, Known, NamesKnown
    <1>3. ASSUME Agrees(task[t], task'[t])
          PROVE  /\ task'[t].decision \in {"pending", "approved"} =>
                       /\ task'[t].request # None
                       /\ task'[t].hash = approval'[task'[t].request].hash
                 /\ task'[t].request # None
                    /\ approval'[task'[t].request].status = "pending" =>
                          task'[t].decision = "pending"
        BY <1>1, <1>2, <1>3 DEF Agrees, ApprovalsMove
    <1>4. CASE UNCHANGED task \/ Restates(Open3) \/ Restates(Unfinished) \/ Undoes
        <2>1. Agrees(task[t], task'[t])
            BY <1>4 DEF Restates, Moves, Undoes, Only, Agrees
        <2> QED
            BY <1>3, <2>1
    <1>5. CASE Holds
        <2>1. CASE t = approval[raised].task
            <3>1. /\ task'[t].decision = "pending" /\ task'[t].request = raised
                  /\ task'[t].hash = approval[raised].hash
                  /\ raised \in Approvals /\ approval[raised].status # "absent"
                BY <1>5, <2>1 DEF Holds, Typed, Named
            <3> QED
                BY <1>1, <3>1 DEF ApprovalsMove
        <2>2. CASE t # approval[raised].task
            BY <1>3, <1>5, <2>2 DEF Holds, Only, Agrees
        <2> QED
            BY <2>1, <2>2
    <1>6. CASE Supersedes
        <2>1. PICK u \in Tasks :
                /\ Only(u)
                /\ task[u].status = "ready" /\ Granted(task[u])
                /\ task'[u].status = "pending" /\ task'[u].decision = "superseded"
                /\ task'[u].request = task[u].request
            BY <1>6 DEF Supersedes
        <2>2. CASE t = u
            BY <1>1, <1>2, <2>1, <2>2 DEF Granted, ApprovalsMove
        <2>3. CASE t # u
            BY <1>3, <2>1, <2>3 DEF Only, Agrees
        <2> QED
            BY <2>2, <2>3
    <1>7. ASSUME NEW c \in Requests, Decided(c)
          PROVE  /\ task'[t].decision \in {"pending", "approved"} =>
                       /\ task'[t].request # None
                       /\ task'[t].hash = approval'[task'[t].request].hash
                 /\ task'[t].request # None
                    /\ approval'[task'[t].request].status = "pending" =>
                          task'[t].decision = "pending"
        <2> DEFINE a == req[c].approval
        <2>1. CASE t = approval[a].task
            <3>1. /\ a \in Approvals /\ approval[a].status # "absent" /\ req[c].pc = "task"
                  /\ task'[t].request = a /\ task'[t].hash = req[c].rows[t].hash
                BY <1>7, <2>1 DEF Decided, Typed, Named
            <3>2. req[c].rows[t].hash = task[t].hash
                BY <3>1 DEF Base, RequestsFresh, RequestFresh, Agrees
            <3>3. task[t].hash = approval[a].hash /\ approval[a].status # "pending"
                BY <2>1, <3>1 DEF Exact, DecidesNow, Decides
            <3> QED
                BY <1>1, <3>1, <3>2, <3>3 DEF ApprovalsMove
        <2>2. CASE t # approval[a].task
            BY <1>3, <1>7, <2>2 DEF Decided, Only, Agrees
        <2> QED
            BY <2>1, <2>2
    <1> QED
        BY <1>1, <1>4, <1>5, <1>6, <1>7 DEF AttemptWrites, RequestWrites

(* Only the calls that run change what was described to them.              *)
LEMMA CallsAlone ==
    ASSUME Typed, [Next]_vars
    PROVE  UNCHANGED exec \/ ExecuteStep \/ (\A t \in Tasks : exec'[t].pc \in {"off", "check"})
    <1> USE DEF rows, worker
    <1>1. ASSUME EndAttempt
          PROVE  \A t \in Tasks : exec'[t].pc \in {"off", "check"}
        BY <1>1 DEF EndAttempt, NoCalls, NoCall
    <1>2. CASE Reload
        <2>1. CASE AfterMarks(task) = "execute"
            <3>1. PICK b : exec' = [t \in Tasks |-> IF t \in b THEN [NoCall EXCEPT !.pc = "check"]
                                                    ELSE NoCall]
                BY <1>2, <2>1 DEF Reload
            <3> QED
                BY <3>1 DEF NoCall
        <2>2. CASE AfterMarks(task) # "execute"
            BY <1>2, <2>2 DEF Reload
        <2> QED
            BY <2>1, <2>2
    <1>3. CASE CompleteJob \/ FailJob \/ RequeueJob \/ WorkerDies
        BY <1>1, <1>3 DEF CompleteJob, FailJob, RequeueJob, WorkerDies
    <1>4. CASE AttemptStep
        BY <1>2, <1>3, <1>4 DEF AttemptStep, ReadOrphans, ReclaimOrphan, ReadWork, StartWork, Load,
           WaitForDecision, FinishWork, FailWork, NoTaskReady, WriteWork, DenyTask, MarkReady,
           SkipAsked, RaiseApproval, HoldTask, BatchEnds, ReadForFailure, RecordFailure, Goto
    <1>5. CASE QueueStep \/ Environment
        BY <1>3, <1>5 DEF QueueStep, Environment, Claim, Recover, FailExpired, StoreError,
           Reconcile, ActionChanges, RequestCut, Goto
    <1>6. CASE \E c \in Requests : Open(c) \/ Continue(c)
        BY <1>6, Opened, Continued
    <1>7. CASE UNCHANGED vars
        BY <1>7 DEF vars
    <1> QED
        BY <1>4, <1>5, <1>6, <1>7 DEF Next

LEMMA NextCallsAgree ==
    ASSUME Typed, Base, Exact, [Next]_vars
    PROVE  CallsAgree'
    <1>1. CASE UNCHANGED exec
        BY <1>1 DEF Exact, CallsAgree
    <1>2. CASE \A t \in Tasks : exec'[t].pc \in {"off", "check"}
        BY <1>2 DEF CallsAgree
    <1>3. CASE ExecuteStep
        <2>1. PICK t \in Tasks :
                \/ Begin(t) \/ AgentUnfit(t) \/ StopForNewApproval(t) \/ ClaimTask(t)
                \/ EngineEnds(t) \/ StepRecorded(t) \/ RecordThrows(t)
            \/ EngineResultLost(t) \/ ReadRejected(t) \/ FailRejected(t)
            BY <1>3 DEF ExecuteStep
        <2>2. /\ exec[t] \in CallRow /\ exec \in [Tasks -> CallRow] /\ task[t] \in TaskRow
              /\ CallsAgree /\ RowsAgree
            BY DEF Typed, TypeOK, Exact
        <2>3. \E call : exec' = [exec EXCEPT ![t] = call]
            BY <2>1 DEF Begin, AgentUnfit, StopForNewApproval, ClaimTask, EngineEnds,
               StepRecorded, RecordThrows, EngineResultLost, ReadRejected, FailRejected, Call,
               EndCall
        <2>4. \A u \in Tasks \ {t} : exec'[u] = exec[u]
            BY <2>2, <2>3
        <2>5. ASSUME exec'[t].pc \in {"claim", "engine"}, Granted(exec'[t].row)
              PROVE  exec'[t].row.hash = exec'[t].version
            <3>1. ASSUME NEW p, Call(t, p), p \notin {"claim", "engine"}
                  PROVE  FALSE
                BY <2>2, <2>5, <3>1 DEF Call, CallRow
            <3>2. ASSUME EndCall(t)
                  PROVE  FALSE
                BY <2>2, <2>5, <3>2 DEF EndCall, NoCall
            <3>3. CASE Begin(t)
                <4>1. exec'[t] = IF task[t].status \in {"completed", "running"} THEN NoCall
                                 ELSE IF task[t].status # "ready"
                                 THEN [NoCall EXCEPT !.pc = "rejected"]
                                 ELSE [pc |-> IF Drifted(t, task[t]) THEN "hold" ELSE "claim",
                                       row |-> task[t], version |-> version[t]]
                    BY <2>2, <3>3 DEF Begin
                <4>2. task[t].status = "ready"
                    BY <2>5, <4>1 DEF NoCall
                <4>3. exec'[t] = [pc |-> IF Drifted(t, task[t]) THEN "hold" ELSE "claim",
                                  row |-> task[t], version |-> version[t]]
                    BY <4>1, <4>2
                <4>4. ~Drifted(t, task[t]) /\ Granted(task[t])
                    BY <2>5, <4>3
                <4>5. task[t].hash # None
                    <5>1. /\ task[t].request # None
                          /\ task[t].hash = approval[task[t].request].hash
                        BY <2>2, <4>4 DEF RowsAgree, Granted
                    <5>2. /\ task[t].request \in Approvals
                          /\ approval[task[t].request].status # "absent"
                        BY <2>2, <5>1 DEF TaskRow, Base, Known, NamesKnown
                    <5>3. task[t].hash \in Nat
                        BY <5>1, <5>2 DEF Base, Known, AskedFor
                    <5> QED
                        BY <5>3 DEF LifecycleAssumption
                <4> QED
                    BY <4>3, <4>4, <4>5 DEF Drifted
            <3>4. CASE ClaimTask(t)
                <4>1. CASE Claimable(task[t])
                    <5> DEFINE run == [task[t] EXCEPT !.status = "running"]
                    <5>1. exec' = [exec EXCEPT ![t] = [exec[t] EXCEPT !.pc = "engine",
                                                                      !.row = run]]
                        BY <3>4, <4>1 DEF ClaimTask
                    <5>2. run.hash = task[t].hash /\ run.decision = task[t].decision
                        BY <2>2 DEF TaskRow
                    <5> HIDE DEF run
                    <5>3. exec'[t].row = run /\ exec'[t].version = exec[t].version
                        BY <2>2, <5>1 DEF CallRow
                    <5>4. exec[t].pc = "claim" /\ exec[t].row = task[t]
                        BY <3>4 DEF ClaimTask, At, Base, WorkerFresh, CallsFresh, CallFresh
                    <5> QED
                        BY <2>2, <2>5, <5>2, <5>3, <5>4 DEF CallsAgree, Granted
                <4>2. CASE ~Claimable(task[t])
                    BY <3>2, <3>4, <4>2 DEF ClaimTask
                <4> QED
                    BY <4>1, <4>2
            <3>5. CASE AgentUnfit(t) \/ EngineResultLost(t)
                BY <3>1, <3>5 DEF AgentUnfit, EngineResultLost
            <3>6. CASE StopForNewApproval(t) \/ EngineEnds(t) \/ StepRecorded(t)
                         \/ RecordThrows(t) \/ FailRejected(t)
                BY <3>1, <3>2, <3>6 DEF StopForNewApproval, EngineEnds, StepRecorded,
                   RecordThrows, FailRejected
            <3>7. CASE ReadRejected(t)
                <4>1. exec'[t].pc \in {"refused", "off"}
                    BY <2>2, <3>7 DEF ReadRejected, NoCall
                <4> QED
                    BY <2>5, <4>1
            <3> QED
                BY <2>1, <3>3, <3>4, <3>5, <3>6, <3>7
        <2> QED
            BY <2>2, <2>4, <2>5 DEF CallsAgree
    <1> QED
        BY <1>1, <1>2, <1>3, CallsAlone

LEMMA InitExact ==
    ASSUME Init
    PROVE  Exact
    <1>1. /\ task = Planned /\ exec = NoCalls
          /\ \A a \in Approvals : approval[a].status = "absent"
          /\ \A c \in Requests : req[c].pc = "idle"
        BY DEF Init, NoRequest
    <1>2. \A t \in Tasks : task[t].decision = "none" /\ task[t].request = None
                           /\ exec[t].pc = "off"
        BY <1>1 DEF Planned, PlannedRow, NoCalls, NoCall
    <1> QED
        BY <1>1, <1>2 DEF Exact, PendingNamed, DecidesNow, RowsAgree, AlreadyAsked, CallsAgree

LEMMA NextExact ==
    ASSUME Typed, Alone, Base, Sound, Exact, MaxFaults = 0, [Next]_vars
    PROVE  Exact'
    BY NextPendingNamed, NextDecides, NextRowsAgree, NextCallsAgree DEF Exact

(* If no error falls between two writes, every open decision is the one    *)
(* its step waits for, and a granted step carries the fingerprint of the   *)
(* action the granted approval described.                                  *)
THEOREM DecisionsStayExact ==
    ASSUME MaxFaults = 0
    PROVE  Spec /\ []Alone => []Exact
    <1>1. Typed /\ Alone /\ Base /\ Sound /\ Exact /\ [Next]_vars => Exact'
        BY NextExact
    <1> QED
        BY <1>1, InitExact, TypeCorrect, CopiesStayFresh, CopiesStaySound, PTL DEF Spec

LEMMA ExactMeansApproved ==
    ASSUME Typed, Base, Sound, Exact
    PROVE  RunsWhatWasApproved
    <1> SUFFICES ASSUME NEW t \in Asks, exec[t].pc = "engine"
                 PROVE  \E a \in Approvals :
                            /\ approval[a].status = "approved" /\ approval[a].task = t
                            /\ approval[a].hash = exec[t].version
        BY DEF RunsWhatWasApproved
    <1>1. t \in Tasks
        BY DEF LifecycleAssumption
    <1>2. exec[t].row = task[t] /\ task[t].status = "running"
        BY <1>1 DEF Base, WorkerFresh, CallsFresh, CallFresh
    <1>3. /\ Granted(task[t]) /\ task[t].request \in Approvals
          /\ approval[task[t].request].task = t /\ approval[task[t].request].status = "approved"
        BY <1>1, <1>2 DEF Sound, TasksSound, TableSound, SoundIn, Going
    <1>4. task[t].hash = exec[t].version
        BY <1>1, <1>2, <1>3 DEF Exact, CallsAgree
    <1>5. task[t].hash = approval[task[t].request].hash
        BY <1>1, <1>3 DEF Exact, RowsAgree, Granted
    <1> QED
        BY <1>3, <1>4, <1>5

(* What the engine is handed is what the person who granted the step was   *)
(* shown, however often the step changed, was retried or asked again.      *)
THEOREM ApprovedAsDescribed ==
    ASSUME MaxFaults = 0
    PROVE  Spec /\ []Alone => []RunsWhatWasApproved
    BY ExactMeansApproved, DecisionsStayExact, TypeCorrect, CopiesStayFresh, CopiesStaySound, PTL

-----------------------------------------------------------------------------
(* Only its own call, or a decision written by a stranded approval, could  *)
(* put a completed step back.                                              *)
CompletedStays(t) ==
    \/ task'[t] = task[t]
    \/ /\ pc = "execute" /\ exec[t].pc = "record" /\ Only(t)
       /\ Agrees(task[t], task'[t]) /\ task'[t].status = "failed"

LEMMA CompletedStayBut ==
    ASSUME Typed, Base, [Next]_vars, NEW t \in Tasks, task[t].status = "completed",
           Exact \/ t \notin Asks
    PROVE  CompletedStays(t)
    <1>1. AttemptWrites \/ RequestWrites
        BY NextWrites
    <1>2. ASSUME NEW c \in Requests, Decided(c)
          PROVE  task'[t] = task[t]
        <2>1. CASE Exact
            BY <1>2, <2>1 DEF Decided, Only, Exact, DecidesNow, Decides
        <2>2. CASE t \notin Asks
            <3>1. approval[req[c].approval].task \in Asks
                BY <1>2 DEF Decided, Typed, Named, Base, Known, AskedFor
            <3> QED
                BY <1>2, <2>2, <3>1 DEF Decided, Only
        <2> QED
            BY <2>1, <2>2
    <1>3. CASE Undoes
        BY <1>3 DEF Undoes, Only, CompletedStays
    <1>4. CASE ~Undoes
        <2>1. task'[t] = task[t]
            BY <1>1, <1>2, <1>4 DEF AttemptWrites, RequestWrites, Restates, Moves, Open3,
               Unfinished, Holds, Supersedes, Only
        <2> QED
            BY <2>1 DEF CompletedStays
    <1> QED
        BY <1>3, <1>4

LEMMA CompletedStay ==
    ASSUME Typed, Base, Exact, [Next]_vars, NEW t \in Tasks, task[t].status = "completed"
    PROVE  CompletedStays(t)
    BY CompletedStayBut

(* What goes on stands on completed steps, and nothing stands on a step    *)
(* whose call is still under way: while a batch is running no step is made *)
(* ready.                                                                  *)
StandsOnDone == \A t \in Tasks : task[t].status \in Going => DepsDone(t)

Unbuilt ==
    \A t \in Tasks : exec[t].pc \in {"engine", "record"} =>
        \A u \in Tasks : t \in Deps[u] => task[u].status \notin Going

InOrder == StandsOnDone /\ Unbuilt

(* Only marking sets a step going.                                         *)
LEMMA SetGoing ==
    ASSUME Typed, Base, [Next]_vars, NEW t \in Tasks, task'[t].status \in Going
    PROVE  task[t].status \in Going \/ Due(t)
    <1>1. AttemptWrites \/ RequestWrites
        BY NextWrites
    <1> QED
        BY <1>1 DEF AttemptWrites, RequestWrites, Restates, Moves, Holds, Supersedes, Undoes,
                    Only, Decided, Going

LEMMA NextStandsOnDone ==
    ASSUME Typed, Base, InOrder, [Next]_vars,
           Exact \/ \A t \in Tasks : Deps[t] \cap Asks = {}
    PROVE  StandsOnDone'
    <1> SUFFICES ASSUME NEW t \in Tasks, task'[t].status \in Going, NEW d \in Deps[t]
                 PROVE  task'[d].status = "completed"
        BY DEF StandsOnDone, DepsDone
    <1>1. d \in Tasks /\ (Exact \/ d \notin Asks)
        BY DEF LifecycleAssumption
    <1>2. task[t].status \in Going \/ Due(t)
        BY SetGoing
    <1>3. task[d].status = "completed"
        BY <1>2 DEF InOrder, StandsOnDone, Due, DepsDone
    <1>4. CompletedStays(d)
        BY <1>1, <1>3, CompletedStayBut
    <1>5. ~(pc = "execute" /\ exec[d].pc = "record")
        BY <1>1, <1>2 DEF InOrder, Unbuilt, Due
    <1> QED
        BY <1>3, <1>4, <1>5 DEF CompletedStays

(* A call comes to the engine from a step that is ready.                   *)
LEMMA ClaimsReady ==
    ASSUME Typed, [Next]_vars, NEW t \in Tasks, exec[t].pc \notin {"engine", "record"},
           exec'[t].pc \in {"engine", "record"}
    PROVE  pc = "execute" /\ task[t].status = "ready"
    <1>1. ExecuteStep
        BY CallsAlone
    <1>2. PICK v \in Tasks :
            \/ Begin(v) \/ AgentUnfit(v) \/ StopForNewApproval(v) \/ ClaimTask(v)
            \/ EngineEnds(v) \/ StepRecorded(v) \/ RecordThrows(v)
            \/ EngineResultLost(v) \/ ReadRejected(v) \/ FailRejected(v)
        BY <1>1 DEF ExecuteStep
    <1>3. exec \in [Tasks -> CallRow] /\ exec[t] \in CallRow /\ pc = "execute"
        BY <1>2 DEF Typed, TypeOK, Begin, AgentUnfit, StopForNewApproval, ClaimTask, EngineEnds,
           StepRecorded, RecordThrows, EngineResultLost, ReadRejected, FailRejected, At
    <1>4. \E call : exec' = [exec EXCEPT ![v] = call]
        BY <1>2 DEF Begin, AgentUnfit, StopForNewApproval, ClaimTask, EngineEnds, StepRecorded,
           RecordThrows, EngineResultLost, ReadRejected, FailRejected, Call, EndCall
    <1>5. v = t
        BY <1>3, <1>4
    <1>6. ASSUME EndCall(t)
          PROVE  FALSE
        BY <1>3, <1>6 DEF EndCall, NoCall
    <1>7. ASSUME Call(t, "rejected")
          PROVE  FALSE
        BY <1>3, <1>7 DEF Call, CallRow
    <1>8. ASSUME Begin(t)
          PROVE  FALSE
        <2>1. exec'[t] = IF task[t].status \in {"completed", "running"} THEN NoCall
                         ELSE IF task[t].status # "ready" THEN [NoCall EXCEPT !.pc = "rejected"]
                         ELSE [pc |-> IF Drifted(t, task[t]) THEN "hold" ELSE "claim",
                               row |-> task[t], version |-> version[t]]
            BY <1>3, <1>8 DEF Begin
        <2>2. exec'[t].pc \in {"off", "rejected", "hold", "claim"}
            BY <2>1 DEF NoCall
        <2> QED
            BY <2>2
    <1>9. ASSUME ReadRejected(t)
          PROVE  FALSE
        <2>1. exec'[t].pc \in {"off", "refused"}
            BY <1>3, <1>9 DEF ReadRejected, NoCall
        <2> QED
            BY <2>1
    <1>10. ~EngineEnds(t)
        BY DEF EngineEnds, At
    <1>11. ClaimTask(t) /\ Claimable(task[t])
        BY <1>2, <1>5, <1>6, <1>7, <1>8, <1>9, <1>10 DEF AgentUnfit, StopForNewApproval,
           StepRecorded, RecordThrows, EngineResultLost, FailRejected, ClaimTask
    <1> QED
        BY <1>3, <1>11 DEF Claimable

LEMMA NextUnbuilt ==
    ASSUME Typed, Base, InOrder, [Next]_vars
    PROVE  Unbuilt'
    <1> SUFFICES ASSUME NEW t \in Tasks, exec'[t].pc \in {"engine", "record"},
                        NEW u \in Tasks, t \in Deps[u], task'[u].status \in Going
                 PROVE  FALSE
        BY DEF Unbuilt
    <1>1. task[u].status \in Going \/ Due(u)
        BY SetGoing
    <1>2. CASE exec[t].pc \in {"engine", "record"}
        <2>1. pc = "execute" /\ task[u].status \notin Going
            BY <1>2 DEF InOrder, Unbuilt, Base, WorkerFresh, AttemptFits
        <2> QED
            BY <1>1, <2>1 DEF Due
    <1>3. CASE exec[t].pc \notin {"engine", "record"}
        <2>1. pc = "execute" /\ task[t].status = "ready"
            BY <1>3, ClaimsReady
        <2>2. task[u].status \in Going
            BY <1>1, <2>1 DEF Due
        <2> QED
            BY <2>1, <2>2 DEF InOrder, StandsOnDone, DepsDone
    <1> QED
        BY <1>2, <1>3

LEMMA NextInOrder ==
    ASSUME Typed, Base, InOrder, [Next]_vars,
           Exact \/ \A t \in Tasks : Deps[t] \cap Asks = {}
    PROVE  InOrder'
    BY NextStandsOnDone, NextUnbuilt DEF InOrder

LEMMA InitInOrder ==
    ASSUME Init
    PROVE  InOrder
    BY DEF Init, InOrder, StandsOnDone, Unbuilt, Going, Planned, PlannedRow, NoCalls, NoCall

LEMMA ExactInOrder ==
    ASSUME MaxFaults = 0
    PROVE  Spec /\ []Alone => []InOrder
    <1>1. Typed /\ Base /\ Exact /\ InOrder /\ [Next]_vars => InOrder'
        BY NextInOrder
    <1> QED
        BY <1>1, InitInOrder, DecisionsStayExact, TypeCorrect, CopiesStayFresh, PTL DEF Spec

(* A completed step is put back neither by a retry nor by a late decision  *)
(* nor by clean-up: only by the call that completed it, when its record of *)
(* that throws, and then before any step was built on the result.          *)
THEOREM CompletedForGood ==
    ASSUME MaxFaults = 0
    PROVE  Spec /\ []Alone => CompletedStepsKept
    <1>1. Typed /\ Base /\ Exact /\ InOrder /\ [Next]_vars =>
            [\A t \in Tasks : task[t].status = "completed" =>
                \/ task'[t].status = "completed"
                \/ /\ exec[t].pc = "record" /\ task'[t].status = "failed"
                   /\ \A u \in Tasks : t \in Deps[u] => task[u].status \notin Going]_task
        BY CompletedStay DEF CompletedStays, InOrder, Unbuilt
    <1> QED
        BY <1>1, ExactInOrder, DecisionsStayExact, TypeCorrect, CopiesStayFresh, PTL
           DEF Spec, CompletedStepsKept

LEMMA OrderMeansTurn ==
    ASSUME Typed, Base, InOrder
    PROVE  EngineRunsInTurn
    BY DEF EngineRunsInTurn, InOrder, StandsOnDone, Going, DepsDone, Base, WorkerFresh,
           CallsFresh, CallFresh

(* A step runs only over completed dependencies, and nobody rewrites its   *)
(* row meanwhile; if errors are allowed, for plans in which no step        *)
(* depends on one that asks.                                               *)
THEOREM RunsInTurn ==
    ASSUME MaxFaults = 0 \/ \A t \in Tasks : Deps[t] \cap Asks = {}
    PROVE  Spec /\ []Alone => []EngineRunsInTurn
    <1>1. Init => InOrder
        BY InitInOrder
    <1>2. CASE MaxFaults = 0
        <2>1. Spec /\ []Alone => []InOrder
            BY <1>2, ExactInOrder
        <2> QED
            BY <2>1, TypeCorrect, CopiesStayFresh, OrderMeansTurn, PTL
    <1>3. CASE \A t \in Tasks : Deps[t] \cap Asks = {}
        <2>1. Typed /\ Base /\ InOrder /\ [Next]_vars => InOrder'
            BY <1>3, NextInOrder
        <2> QED
            BY <1>1, <2>1, TypeCorrect, CopiesStayFresh, OrderMeansTurn, PTL DEF Spec
    <1> QED
        BY <1>2, <1>3

-----------------------------------------------------------------------------
(* A person who decides and retries when nothing runs, and asks for one    *)
(* thing after another, is alone.                                          *)
LEMMA PatientAlone ==
    ASSUME Typed, Alone, Base, Patient, NEW c, Requests = {c}, [Next]_vars
    PROVE  Alone'
    <1> SUFFICES ASSUME req'[c].pc \in Writing
                 PROVE  slot'.status = "idle"
        BY DEF Alone
    <1>1. /\ req[c].pc \in Writing => slot.status = "idle"
          /\ pc # "idle" => slot.status = "running"
          /\ slot \in [status: {"idle", "queued", "running"}, attempts: Nat, job: Nat,
                       ended: {None, "completed", "failed", "cancelled"}]
        BY DEF Alone, Base, WorkerFresh, AttemptFits, Typed, TypeOK
    <1>2. CASE UNCHANGED req /\ (UNCHANGED slot \/ slot.status # "idle")
        BY <1>1, <1>2
    <1>3. CASE AttemptStep
        BY <1>1, <1>2, <1>3, AttemptBusy, AttemptStepWrites DEF Base
    <1>4. CASE QueueStep \/ Environment
        <2>1. CASE RequestCut(c)
            BY <2>1, Answered DEF RequestCut, Writing
        <2>2. CASE ~RequestCut(c)
            BY <1>2, <1>4, <2>2 DEF QueueStep, Environment, Claim, Recover, FailExpired, WorkerDies,
                        StoreError, Reconcile, ActionChanges
        <2> QED
            BY <2>1, <2>2
    <1>5. CASE Open(c)
        <2>1. /\ OpenRetry(c) \/ \E op \in {"approve", "reject"} : OpenDecision(c, op)
              /\ UNCHANGED slot
            BY <1>5, Opened DEF Writing
        <2>2. slot.status = "idle"
            BY <2>1 DEF OpenRetry, OpenDecision, Opens
        <2> QED
            BY <2>1, <2>2
    <1>6. CASE Continue(c)
        <2>1. ContinuesAs(c)
            BY <1>6, Continued
        <2>2. CASE UNCHANGED slot
            <3>1. \/ req[c].pc \in Writing \/ SettleSlot("cancelled")
                  \/ slot.status \notin {"queued", "running"}
                BY <2>1 DEF ContinuesAs, Gone, Goes, Lists, In, Deciding, Writing
            <3>2. SettleSlot("cancelled") => slot'.status = "idle"
                BY <1>1 DEF SettleSlot
            <3> QED
                BY <1>1, <2>2, <3>1, <3>2
        <2>3. CASE slot' # slot
            <3>1. Enqueue(c) \/ WithdrawJob(c)
                BY <1>6, <2>3 DEF Continue, CheckNoJob, ResolvePending, WriteDecidedTask,
                   WriteDecidedWork, ListForRetry, ResetTask, WriteRetriedWork, ReadJobForCancel,
                   ListOpenDecisions, CloseDecision, ListForCancel, CancelTask,
                   WriteCancelledWork
            <3>2. ~Enqueue(c)
                BY Answered DEF Enqueue, Writing
            <3>3. SettleSlot("cancelled")
                BY <2>3, <3>1, <3>2 DEF WithdrawJob
            <3> QED
                BY <1>1, <3>3 DEF SettleSlot
        <2> QED
            BY <2>2, <2>3
    <1>7. CASE UNCHANGED vars
        BY <1>2, <1>7 DEF vars
    <1> QED
        BY <1>3, <1>4, <1>5, <1>6, <1>7 DEF Next

(* One request at a time, whose decisions and retries are made while no    *)
(* job is active, is what the theorems call alone: a cancellation needs    *)
(* no such patience, because it withdraws the job before it writes.        *)
THEOREM OneAtATime ==
    ASSUME Patient, NEW c, Requests = {c}
    PROVE  Spec => []Alone
    <1>1. Init => Alone
        BY DEF Init, Alone, NoRequest, Writing
    <1>2. Typed /\ Alone /\ Base /\ [Next]_vars => Alone' /\ Base'
        BY PatientAlone, NextBase
    <1> QED
        BY <1>1, <1>2, InitBase, TypeCorrect, PTL DEF Spec

-----------------------------------------------------------------------------
(* Who acts when: without an active job the requests and the clean-up do;  *)
(* while an attempt runs, it alone writes the mission.                     *)
LEMMA AtRest ==
    ASSUME Typed, Alone, Base, [Next]_vars, slot.status = "idle"
    PROVE  \/ \E c \in Requests : Continue(c)
           \/ \E c \in Requests : Open(c)
           \/ Reconcile
           \/ UNCHANGED <<rows, slot, worker, faults>> /\ UNCHANGED req
           \/ \E c \in Requests : RequestCut(c)
    <1>1. pc = "idle"
        BY DEF Base, WorkerFresh, AttemptFits
    <1>2. CASE AttemptStep
        BY <1>1, <1>2, AttemptBusy
    <1>3. CASE QueueStep
        BY <1>3 DEF QueueStep, Claim, Recover, FailExpired
    <1>4. CASE Environment
        BY <1>1, <1>4 DEF Environment, WorkerDies, StoreError, ActionChanges
    <1>5. CASE UNCHANGED vars
        BY <1>5 DEF vars, rows, worker, bounds
    <1> QED
        BY <1>2, <1>3, <1>4, <1>5 DEF Next

LEMMA Attempting ==
    ASSUME Typed, Alone, Base, [Next]_vars, pc # "idle"
    PROVE  \/ AttemptStep
           \/ /\ UNCHANGED rows
              /\ UNCHANGED worker \/ (pc' \in {"throw", "unrecorded", "idle"} /\ MaxFaults # 0)
    <1> USE DEF rows, worker
    <1>1. slot.status = "running"
        BY DEF Base, WorkerFresh, AttemptFits
    <1>2. faults.thrown < MaxFaults => MaxFaults # 0
        BY DEF Typed, TypeOK
    <1>3. CASE QueueStep \/ Environment
        <2>1. CASE QueueStep \/ Reconcile
            BY <1>1, <2>1 DEF QueueStep, Claim, Recover, FailExpired, Reconcile
        <2>2. CASE WorkerDies
            BY <1>2, <2>2 DEF WorkerDies, EndAttempt
        <2>3. CASE StoreError
            BY <1>2, <2>3 DEF StoreError, Goto
        <2>4. CASE (\E t \in Tasks : ActionChanges(t)) \/ \E c \in Requests : RequestCut(c)
            BY <2>4 DEF ActionChanges, RequestCut
        <2> QED
            BY <1>3, <2>1, <2>2, <2>3, <2>4 DEF Environment
    <1>4. ASSUME NEW c \in Requests, Open(c)
          PROVE  UNCHANGED <<rows, worker>>
        BY <1>4, Opened
    <1>5. ASSUME NEW c \in Requests, Continue(c)
          PROVE  UNCHANGED <<rows, worker>>
        <2>1. req[c].pc \notin Writing /\ ContinuesAs(c) /\ UNCHANGED worker
            BY <1>1, <1>5, Continued DEF Alone
        <2>2. CheckNoJob(c) \/ Enqueue(c) \/ ReadJobForCancel(c) \/ WithdrawJob(c)
            BY <2>1 DEF ContinuesAs, In, Deciding, Writing
        <2> QED
            BY <2>1, <2>2 DEF CheckNoJob, Enqueue, ReadJobForCancel, WithdrawJob
    <1>6. CASE UNCHANGED vars
        BY <1>6 DEF vars
    <1> QED
        BY <1>3, <1>4, <1>5, <1>6 DEF Next

(* Nothing is under way of a cancelled mission, and nothing is left open.  *)
Closing(c) ==
    /\ req[c].pc = "close" => OpenDecisions \subseteq req[c].left
    /\ req[c].pc = "cancel" =>
          /\ OpenDecisions = {}
          /\ \A t \in Tasks \ req[c].left : task[t].status \in Ended

Over ==
    work = "cancelled" =>
        /\ slot.status = "idle" /\ \A c \in Requests : req[c] = NoRequest
        /\ OpenDecisions = {}
        /\ \A t \in Tasks : task[t].status \in Ended

CancelGoes == Over /\ \A c \in Requests : Closing(c)

LEMMA InterruptedEnds ==
    ASSUME Typed, task' = Interrupted(task), NEW t \in Tasks
    PROVE  /\ task'[t] = task[t] \/ task'[t].status \in Ended
           /\ task[t].status \in Ended => task'[t] = task[t]
    <1>1. task[t] \in TaskRow
        BY DEF Typed, TypeOK
    <1>2. task'[t] = IF task[t].status \in {"ready", "running"}
                     THEN [task[t] EXCEPT !.status = "failed"] ELSE task[t]
        BY DEF Interrupted
    <1> QED
        BY <1>1, <1>2 DEF TaskRow, Ended

LEMMA NextClosing ==
    ASSUME Typed, Alone, Base, CancelGoes, [Next]_vars, NEW c \in Requests
    PROVE  Closing(c)'
    <1>1. CASE req'[c].pc \notin {"close", "cancel"}
        BY <1>1 DEF Closing
    <1>2. CASE req[c].pc \in {"approvals", "close", "cancel"}
        <2>1. slot.status = "idle" /\ req[c] # NoRequest /\ Closing(c)
            BY <1>2 DEF Alone, Writing, NoRequest, CancelGoes
        <2>2. CASE UNCHANGED <<task, approval>> /\ req'[c] = req[c]
            BY <2>1, <2>2 DEF Closing, OpenDecisions
        <2>3. CASE Reconcile
            <3>1. UNCHANGED <<approval, req>> /\ task' = Interrupted(task)
                BY <2>3 DEF Reconcile
            <3> QED
                BY <2>1, <3>1, InterruptedEnds DEF Closing, OpenDecisions
        <2>4. ASSUME NEW d \in Requests, RequestCut(d)
              PROVE  Closing(c)'
            <3>1. CASE d = c
                BY <2>4, <3>1, Answered DEF RequestCut, Closing
            <3>2. CASE d # c
                BY <2>2, <2>4, <3>2, Answered DEF RequestCut, rows
            <3> QED
                BY <3>1, <3>2
        <2>5. ASSUME NEW d \in Requests, Open(d)
              PROVE  Closing(c)'
            BY <2>1, <2>2, <2>5, Opened DEF rows
        <2>6. ASSUME NEW d \in Requests, Continue(d)
              PROVE  Closing(c)'
            <3>1. d = c /\ ContinuesAs(c)
                BY <2>1, <2>6, ContinuesAlone, Continued
            <3>2. CASE ListOpenDecisions(c) /\ Lists(c, "close", OpenDecisions)
                BY <3>2 DEF Lists, ListOpenDecisions, rows, Closing, OpenDecisions
            <3>3. ASSUME NEW a \in req[c].left, In(c, "cancel", "close"),
                         Lists(c, "close", req[c].left \ {a}),
                         approval' = IF StillPending(a)
                                     THEN [approval EXCEPT ![a].status = "cancelled"]
                                     ELSE approval
                  PROVE  Closing(c)'
                <4>1. OpenDecisions \subseteq req[c].left
                    BY <2>1, <3>3 DEF Closing, In
                <4>2. ASSUME NEW b \in Approvals, approval'[b].status = "pending"
                      PROVE  approval[b].status = "pending" /\ b # a
                    <5>1. approval[b] \in ApprovalRow /\ approval \in [Approvals -> ApprovalRow]
                        BY DEF Typed, TypeOK
                    <5>2. CASE StillPending(a)
                        BY <3>3, <4>2, <5>1, <5>2 DEF ApprovalRow
                    <5>3. CASE ~StillPending(a)
                        BY <3>3, <4>2, <5>3 DEF StillPending
                    <5> QED
                        BY <5>2, <5>3
                <4> QED
                    BY <3>3, <4>1, <4>2 DEF Closing, OpenDecisions, Lists
            <3>4. CASE /\ ListForCancel(c) /\ In(c, "cancel", "close") /\ req[c].left = {}
                       /\ Lists(c, "cancel", {t \in Tasks : task[t].status \notin Ended})
                <4>1. OpenDecisions = {} /\ UNCHANGED <<task, approval>>
                    BY <2>1, <3>4 DEF Closing, In, ListForCancel, rows
                <4> QED
                    BY <3>4, <4>1 DEF Closing, OpenDecisions, Lists
            <3>5. ASSUME NEW t \in req[c].left, In(c, "cancel", "cancel"), UNCHANGED approval,
                         Lists(c, "cancel", req[c].left \ {t}),
                         WriteTask(t, [req[c].rows[t] EXCEPT !.status = "cancelled"])
                  PROVE  Closing(c)'
                <4>1. /\ OpenDecisions = {}
                      /\ \A u \in Tasks \ req[c].left : task[u].status \in Ended
                    BY <2>1, <3>5 DEF Closing, In
                <4>2. Only(t)
                    BY <3>5, WroteOnly
                <4>3. t \in Tasks
                    BY <3>5 DEF Base, RequestsFresh, RequestFresh, In
                <4>4. task'[t].status \in Ended
                    <5>1. task'[t] = [req[c].rows[t] EXCEPT !.status = "cancelled"]
                        BY <3>5, <4>3 DEF WriteTask, Typed, TypeOK
                    <5>2. req[c].rows[t] \in TaskRow
                        BY <4>3 DEF Typed, TypeOK, RequestRow
                    <5> QED
                        BY <5>1, <5>2 DEF TaskRow, Ended
                <4> QED
                    BY <3>5, <4>1, <4>2, <4>4 DEF Closing, OpenDecisions, Lists, Only
            <3> QED
                BY <1>1, <1>2, <3>1, <3>2, <3>3, <3>4, <3>5
                   DEF ContinuesAs, In, Deciding, Gone, CloseDecision, CancelTask
        <2>7. \/ UNCHANGED <<task, approval>> /\ req'[c] = req[c]
              \/ Reconcile \/ (\E d \in Requests : RequestCut(d) \/ Open(d) \/ Continue(d))
            BY <2>1, AtRest DEF rows
        <2> QED
            BY <2>2, <2>3, <2>4, <2>5, <2>6, <2>7
    <1>3. CASE /\ req[c].pc \notin {"approvals", "close", "cancel"}
               /\ req'[c].pc \in {"close", "cancel"}
        <2>1. req'[c] # req[c]
            BY <1>3
        <2>2. CASE AttemptStep
            BY <2>1, <2>2, AttemptStepWrites DEF Base
        <2>3. CASE QueueStep \/ Environment
            <3>1. req'[c] \in {req[c], NoRequest}
                BY <2>3 DEF QueueStep, Environment, Claim, Recover, FailExpired, WorkerDies,
                            StoreError, Reconcile, ActionChanges, RequestCut, Answer, Typed, TypeOK
            <3> QED
                BY <1>3, <3>1 DEF NoRequest
        <2>4. ASSUME NEW d \in Requests, Open(d)
              PROVE  FALSE
            BY <1>3, <2>1, <2>4, Opened
        <2>5. ASSUME NEW d \in Requests, Continue(d)
              PROVE  FALSE
            <3>1. d = c /\ ContinuesAs(c)
                BY <2>1, <2>5, Continued
            <3> QED
                BY <1>3, <3>1 DEF ContinuesAs, In, Deciding, Gone, Goes, Lists
        <2>6. CASE UNCHANGED vars
            BY <2>1, <2>6 DEF vars
        <2> QED
            BY <2>2, <2>3, <2>4, <2>5, <2>6 DEF Next
    <1> QED
        BY <1>1, <1>2, <1>3

LEMMA NextOver ==
    ASSUME Typed, Alone, Base, CancelGoes, [Next]_vars
    PROVE  Over' /\ (work = "cancelled" => work' = "cancelled")
    <1>1. CASE work = "cancelled"
        <2>1. slot.status = "idle" /\ (\A c \in Requests : req[c] = NoRequest)
            BY <1>1 DEF CancelGoes, Over
        <2>2. ASSUME NEW c \in Requests, Open(c)
              PROVE  FALSE
            BY <1>1, <2>2, Opened DEF AskStart, OpenRetry, OpenCancel, OpenDecision, Startable,
                                      CancelGoes, Over, OpenDecisions
        <2>3. ASSUME NEW c \in Requests, Continue(c)
              PROVE  FALSE
            BY <2>1, <2>3, ContinuesAlone DEF NoRequest
        <2>4. ASSUME NEW c \in Requests, RequestCut(c)
              PROVE  UNCHANGED <<rows, slot>> /\ \A d \in Requests : req'[d] = NoRequest
            BY <2>1, <2>4, Answered DEF RequestCut
        <2>5. UNCHANGED <<rows, slot>> /\ \A d \in Requests : req'[d] = NoRequest
            BY <1>1, <2>1, <2>2, <2>3, <2>4, AtRest DEF Reconcile
        <2> QED
            BY <1>1, <2>5 DEF CancelGoes, Over, OpenDecisions, rows
    <1>2. CASE work # "cancelled" /\ work' = "cancelled"
        <2>1. PICK c \in Requests : WriteCancelledWork(c)
            <3>1. CASE AttemptStep
                BY <1>2, <3>1 DEF AttemptStep, ReadOrphans, ReclaimOrphan, ReadWork, StartWork,
                   Load, WaitForDecision, FinishWork, FailWork, NoTaskReady, WriteWork,
                   DenyTask, MarkReady, SkipAsked, RaiseApproval, HoldTask, Reload, ExecuteStep,
                   Begin, AgentUnfit, StopForNewApproval, ClaimTask, EngineEnds, StepRecorded,
                   RecordThrows, EngineResultLost, ReadRejected, FailRejected, BatchEnds,
                   CompleteJob, FailJob, RequeueJob, ReadForFailure, RecordFailure, rows
            <3>2. CASE QueueStep \/ Environment
                BY <1>2, <3>2 DEF QueueStep, Environment, Claim, Recover, FailExpired, WorkerDies,
                   StoreError, Reconcile, ActionChanges, RequestCut, rows
            <3>3. ASSUME NEW c \in Requests, Open(c)
                  PROVE  FALSE
                BY <1>2, <3>3, Opened DEF rows
            <3>4. ASSUME NEW c \in Requests, Continue(c)
                  PROVE  WriteCancelledWork(c)
                BY <1>2, <3>4 DEF Continue, CheckNoJob, Enqueue, ResolvePending, WriteDecidedTask,
                   WriteDecidedWork, ListForRetry, ResetTask, WriteRetriedWork, ReadJobForCancel,
                   WithdrawJob, ListOpenDecisions, CloseDecision, ListForCancel, CancelTask, rows
            <3> QED
                BY <1>2, <3>1, <3>2, <3>3, <3>4 DEF Next, vars, rows
        <2>2. /\ req[c].pc = "cancel" /\ req[c].left = {} /\ UNCHANGED <<task, approval, slot>>
              /\ Answer(c)
            BY <2>1 DEF WriteCancelledWork, In
        <2>3. Continue(c)
            BY <2>1 DEF Continue
        <2>4. slot.status = "idle" /\ \A d \in Requests \ {c} : req'[d] = NoRequest
            BY <2>2, <2>3, ContinuesAlone DEF Alone, Writing
        <2> QED
            BY <1>2, <2>2, <2>4, Answered DEF CancelGoes, Closing, Over, OpenDecisions
    <1>3. CASE work # "cancelled" /\ work' # "cancelled"
        BY <1>3 DEF Over
    <1> QED
        BY <1>1, <1>2, <1>3

(* What a cancellation has passed is closed and stays closed, and once it  *)
(* has written the mission nothing of it is open or under way.             *)
THEOREM CancellingCloses == Spec /\ []Alone => []CancelGoes
    <1>1. Init => CancelGoes
        BY DEF Init, CancelGoes, Over, Closing, NoRequest
    <1>2. Typed /\ Alone /\ Base /\ CancelGoes /\ [Next]_vars => CancelGoes'
        BY NextClosing, NextOver DEF CancelGoes
    <1> QED
        BY <1>1, <1>2, TypeCorrect, CopiesStayFresh, PTL DEF Spec

(* A cancelled mission stays cancelled, whatever is asked of it and        *)
(* whatever clean-up runs.                                                 *)
THEOREM CancellingIsTerminal == Spec /\ []Alone => CancelledForGood
    <1>1. Typed /\ Alone /\ Base /\ CancelGoes /\ [Next]_vars =>
            [work = "cancelled" => work' = "cancelled"]_work
        BY NextOver
    <1> QED
        BY <1>1, CancellingCloses, TypeCorrect, CopiesStayFresh, PTL DEF Spec, CancelledForGood

-----------------------------------------------------------------------------
(* What the runner decided about the rows it loaded is so when it acts.    *)
TurnFits ==
    /\ pc = "finish" => With(task, "completed") = Tasks
    /\ pc = "wait" => With(task, "waiting") # {}

LEMMA NextTurnFits ==
    ASSUME Typed, Alone, Base, TurnFits, [Next]_vars
    PROVE  TurnFits'
    <1>1. CASE pc' \notin {"finish", "wait"}
        BY <1>1 DEF TurnFits
    <1>2. CASE UNCHANGED <<pc, task>>
        BY <1>2 DEF TurnFits, With
    <1>3. CASE Load
        <2>1. pc' = TurnOf(task) /\ UNCHANGED task
            BY <1>3 DEF Load, rows
        <2> QED
            BY <2>1 DEF TurnOf, TurnFits, With
    <1>4. CASE Reload
        <2>1. pc' = AfterMarks(task) /\ UNCHANGED task
            BY <1>4 DEF Reload, rows
        <2> QED
            BY <2>1 DEF AfterMarks, TurnOf, TurnFits, With
    <1>5. CASE AttemptStep /\ ~Load /\ ~Reload
        <2>1. pc' \notin {"finish", "wait"}
            BY <1>5 DEF AttemptStep, ReadOrphans, ReclaimOrphan, ReadWork, StartWork,
               WaitForDecision, FinishWork, FailWork, NoTaskReady, WriteWork, DenyTask,
               MarkReady, SkipAsked, RaiseApproval, HoldTask, ExecuteStep, Begin, AgentUnfit,
               StopForNewApproval, ClaimTask, EngineEnds, StepRecorded, RecordThrows,
               EngineResultLost, ReadRejected, FailRejected, At, BatchEnds, CompleteJob,
               FailJob, RequeueJob, EndAttempt, Goto, EntersAt, ReadForFailure, RecordFailure
        <2> QED
            BY <1>1, <2>1
    <1>6. CASE pc # "idle" /\ ~AttemptStep
        BY <1>1, <1>2, <1>6, Attempting DEF rows, worker
    <1>7. CASE pc = "idle"
        <2>1. pc' \in {"idle", "orphans"}
            <3>1. ~AttemptStep
                BY <1>7, AttemptBusy
            <3>2. CASE QueueStep \/ Environment
                BY <1>7, <3>2 DEF QueueStep, Environment, Claim, Recover, FailExpired, WorkerDies,
                   StoreError, Reconcile, ActionChanges, RequestCut, Goto, worker
            <3>3. CASE \E c \in Requests : Open(c) \/ Continue(c)
                BY <1>7, <3>3, Opened, Continued DEF worker
            <3> QED
                BY <1>7, <3>1, <3>2, <3>3 DEF Next, vars, worker
        <2> QED
            BY <1>1, <2>1
    <1> QED
        BY <1>3, <1>4, <1>5, <1>6, <1>7

(* The whole of a completed mission is completed, unless a stranded        *)
(* approval puts one of its steps back.                                    *)
Whole == work = "completed" => \A t \in Tasks : task[t].status = "completed"

(* No attempt is at the steps of a completed mission.                      *)
AtSteps == {"start", "load", "mark", "raised", "execute"}

Unended == pc \in AtSteps => work # "completed"

LEMMA NextUnended ==
    ASSUME Typed, Alone, Base, Unended, [Next]_vars
    PROVE  Unended'
    <1>1. CASE pc' \notin AtSteps
        BY <1>1 DEF Unended
    <1>2. CASE pc \in AtSteps /\ UNCHANGED work
        BY <1>2 DEF Unended
    <1>3. CASE AttemptStep
        <2>1. \/ pc \in AtSteps /\ UNCHANGED work
              \/ ReadWork \/ StartWork \/ pc' \notin AtSteps
            BY <1>3 DEF AttemptStep, ReadOrphans, ReclaimOrphan, Load, AtSteps, WaitForDecision,
               FinishWork, FailWork, NoTaskReady, WriteWork, DenyTask, MarkReady, SkipAsked,
               RaiseApproval, HoldTask, Reload, ExecuteStep, Begin, AgentUnfit,
               StopForNewApproval, ClaimTask, EngineEnds, StepRecorded, RecordThrows,
               EngineResultLost, ReadRejected, FailRejected, At, BatchEnds, CompleteJob,
               FailJob, RequeueJob, EndAttempt, Goto, ReadForFailure, RecordFailure, rows
        <2>2. CASE ReadWork
            BY <2>2 DEF ReadWork, EntersAt, Goto, Unended, AtSteps, rows
        <2>3. CASE StartWork
            BY <2>3 DEF StartWork, Unended
        <2> QED
            BY <1>1, <1>2, <2>1, <2>2, <2>3
    <1>4. CASE pc # "idle" /\ ~AttemptStep
        BY <1>4, Attempting DEF rows, worker, Unended, AtSteps
    <1>5. CASE pc = "idle"
        <2>1. pc' \in {"idle", "orphans"}
            <3>1. ~AttemptStep
                BY <1>5, AttemptBusy
            <3>2. CASE QueueStep \/ Environment
                BY <1>5, <3>2 DEF QueueStep, Environment, Claim, Recover, FailExpired, WorkerDies,
                   StoreError, Reconcile, ActionChanges, RequestCut, Goto, worker
            <3>3. CASE \E c \in Requests : Open(c) \/ Continue(c)
                BY <1>5, <3>3, Opened, Continued DEF worker
            <3> QED
                BY <1>5, <3>1, <3>2, <3>3 DEF Next, vars, worker
        <2> QED
            BY <2>1 DEF Unended, AtSteps
    <1> QED
        BY <1>3, <1>4, <1>5

LEMMA CompletesAt ==
    ASSUME [Next]_vars, work # "completed", work' = "completed", Typed
    PROVE  FinishWork
    <1>1. CASE AttemptStep
        BY <1>1 DEF AttemptStep, ReadOrphans, ReclaimOrphan, ReadWork, StartWork, Load,
           WaitForDecision, FailWork, NoTaskReady, WriteWork, DenyTask, MarkReady, SkipAsked,
           RaiseApproval, HoldTask, Reload, ExecuteStep, Begin, AgentUnfit, StopForNewApproval,
           ClaimTask, EngineEnds, StepRecorded, RecordThrows, EngineResultLost, ReadRejected,
           FailRejected, BatchEnds, CompleteJob, FailJob, RequeueJob, ReadForFailure,
           RecordFailure, rows
    <1>2. CASE QueueStep \/ Environment
        BY <1>2 DEF QueueStep, Environment, Claim, Recover, FailExpired, WorkerDies,
           StoreError, Reconcile, ActionChanges, RequestCut, rows
    <1>3. CASE \E c \in Requests : Open(c) \/ Continue(c)
        BY <1>3, Opened DEF Continue, CheckNoJob, Enqueue, ResolvePending, WriteDecidedTask,
           WriteDecidedWork, ListForRetry, ResetTask, WriteRetriedWork, ReadJobForCancel,
           WithdrawJob, ListOpenDecisions, CloseDecision, ListForCancel, CancelTask,
           WriteCancelledWork, rows
    <1> QED
        BY <1>1, <1>2, <1>3 DEF Next, vars, rows

LEMMA NextWhole ==
    ASSUME Typed, Base, Exact, TurnFits, Unended, Whole, [Next]_vars
    PROVE  Whole'
    <1>1. CASE work' # "completed"
        BY <1>1 DEF Whole
    <1>2. CASE work = "completed"
        BY <1>2, CompletedStay DEF Whole, CompletedStays, Unended, AtSteps
    <1>3. CASE work # "completed" /\ work' = "completed"
        <2>1. pc = "finish" /\ UNCHANGED task
            BY <1>3, CompletesAt DEF FinishWork, WriteWork
        <2> QED
            BY <2>1 DEF TurnFits, With, Whole
    <1> QED
        BY <1>1, <1>2, <1>3

(* A completed mission has completed steps only, and a cancelled one       *)
(* nothing to run or to decide.                                            *)
THEOREM EndsWhole ==
    ASSUME MaxFaults = 0
    PROVE  Spec /\ []Alone => []EndedIsWhole
    <1>1. Init => Whole /\ TurnFits /\ Unended
        BY DEF Init, Whole, TurnFits, Unended, AtSteps
    <1>2. Typed /\ Alone /\ Base /\ TurnFits /\ [Next]_vars => TurnFits'
        BY NextTurnFits
    <1>3. Typed /\ Base /\ Exact /\ TurnFits /\ Unended /\ Whole /\ [Next]_vars => Whole'
        BY NextWhole
    <1>5. Typed /\ Alone /\ Base /\ Unended /\ [Next]_vars => Unended'
        BY NextUnended
    <1>4. Typed /\ Whole /\ CancelGoes => EndedIsWhole
        BY DEF Whole, CancelGoes, Over, OpenDecisions, EndedIsWhole
    <1> QED
        BY <1>1, <1>2, <1>3, <1>4, <1>5, DecisionsStayExact, CancellingCloses, TypeCorrect,
           CopiesStayFresh, PTL DEF Spec

-----------------------------------------------------------------------------
(* Where the mission stands while an attempt is at it.  As long as no      *)
(* result of a step is lost, the runner never finds a step running that is *)
(* nobody's.                                                               *)
NoneRunning == \A t \in Tasks : task[t].status # "running"

WorkAt ==
    /\ pc = "reclaim" => \A t \in Tasks : task[t].status = "running" => t \in todo
    /\ pc = "execute" => \A t \in Tasks : task[t].status = "running" => exec[t].pc = "engine"
    /\ pc \in {"start", "load", "mark", "raised"} => NoneRunning
    /\ pc = "complete" => work \in {"completed", "waiting_approval"}
    /\ pc \in {"failjob", "giveup"} => work # "executing"

LEMMA ExecuteKeepsWorkAt ==
    ASSUME Typed, Base, WorkAt, MaxLostWrites = 0, ExecuteStep
    PROVE  WorkAt'
    <1> USE DEF rows, bounds, At
    <1>1. PICK t \in Tasks :
            \/ Begin(t) \/ AgentUnfit(t) \/ StopForNewApproval(t) \/ ClaimTask(t)
            \/ EngineEnds(t) \/ StepRecorded(t) \/ RecordThrows(t)
            \/ EngineResultLost(t) \/ ReadRejected(t) \/ FailRejected(t)
        BY DEF ExecuteStep
    <1>2. pc = "execute" /\ pc' = "execute"
        BY <1>1 DEF Begin, AgentUnfit, StopForNewApproval, ClaimTask, EngineEnds, StepRecorded,
           RecordThrows, EngineResultLost, ReadRejected, FailRejected
    <1>3. /\ \E call : exec' = [exec EXCEPT ![t] = call]
          /\ UNCHANGED task \/ \E row : WriteTask(t, row)
        BY <1>1 DEF Begin, AgentUnfit, StopForNewApproval, ClaimTask, EngineEnds, StepRecorded,
           RecordThrows, EngineResultLost, ReadRejected, FailRejected, Call, EndCall
    <1>4. \A u \in Tasks \ {t} : exec'[u] = exec[u] /\ task'[u] = task[u]
        BY <1>3, WroteOnly DEF Only, Typed, TypeOK
    <1>5. ASSUME task'[t].status = "running"
          PROVE  exec'[t].pc = "engine"
        <2>1. /\ exec \in [Tasks -> CallRow] /\ exec[t] \in CallRow /\ task[t] \in TaskRow
              /\ CallFresh(t) /\ task \in [Tasks -> TaskRow]
              /\ task[t].status = "running" => exec[t].pc = "engine"
            BY <1>2 DEF Typed, TypeOK, Base, WorkerFresh, CallsFresh, WorkAt
        <2>2. ASSUME NEW row, NEW s \in {"pending", "completed", "failed"}, row.status = s,
                     WriteTask(t, row)
              PROVE  FALSE
            BY <1>5, <2>1, <2>2 DEF WriteTask
        <2>3. ASSUME NEW s \in {"completed", "failed"},
                     WriteTask(t, [exec[t].row EXCEPT !.status = s])
              PROVE  FALSE
            <3>1. [exec[t].row EXCEPT !.status = s].status = s
                BY <2>1 DEF CallRow, TaskRow
            <3> QED
                BY <2>2, <2>3, <3>1
        <2>4. CASE UNCHANGED task /\ (Begin(t) \/ AgentUnfit(t) \/ StepRecorded(t)
                                        \/ EngineResultLost(t) \/ ReadRejected(t))
            <3>1. exec[t].pc = "engine"
                BY <1>5, <2>1, <2>4
            <3>2. ~(faults.lost < MaxLostWrites)
                BY DEF Typed, TypeOK
            <3> QED
                BY <2>4, <3>1, <3>2 DEF Begin, AgentUnfit, StepRecorded, EngineResultLost,
                   ReadRejected
        <2>5. CASE StopForNewApproval(t)
            <3>1. [exec[t].row EXCEPT !.status = "pending", !.decision = "superseded",
                                      !.hash = None].status = "pending"
                BY <2>1 DEF CallRow, TaskRow
            <3> QED
                BY <2>2, <2>5, <3>1 DEF StopForNewApproval
        <2>6. CASE ClaimTask(t)
            <3>1. CASE Claimable(task[t])
                BY <2>1, <2>6, <3>1 DEF ClaimTask, CallRow
            <3>2. CASE ~Claimable(task[t])
                BY <1>5, <2>1, <2>6, <3>2 DEF ClaimTask
            <3> QED
                BY <3>1, <3>2
        <2>7. CASE EngineEnds(t) \/ RecordThrows(t) \/ FailRejected(t)
            BY <2>3, <2>7 DEF EngineEnds, RecordThrows, FailRejected
        <2> QED
            BY <1>1, <2>4, <2>5, <2>6, <2>7 DEF Begin, AgentUnfit, StepRecorded,
               EngineResultLost, ReadRejected
    <1> QED
        BY <1>2, <1>4, <1>5 DEF WorkAt

LEMMA AttemptKeepsWorkAt ==
    ASSUME Typed, Base, WorkAt, MaxLostWrites = 0, AttemptStep
    PROVE  WorkAt'
    <1> USE DEF rows, bounds
    <1>1. ASSUME NEW t \in Tasks, NEW row, WriteTask(t, row), row.status # "running"
          PROVE  /\ \A u \in Tasks \ {t} : task'[u] = task[u]
                 /\ task'[t].status # "running"
        BY <1>1 DEF WriteTask, Typed, TypeOK
    <1>2. ASSUME NEW t \in Tasks, NEW s \in TaskStatuses, s # "running",
                 WriteTask(t, [snap[t] EXCEPT !.status = s])
          PROVE  /\ \A u \in Tasks \ {t} : task'[u] = task[u]
                 /\ task'[t].status # "running"
        <2>1. [snap[t] EXCEPT !.status = s].status = s
            BY DEF Typed, TypeOK, TaskRow
        <2> QED
            BY <1>1, <1>2, <2>1
    <1>3. CASE ReadOrphans
        BY <1>3 DEF ReadOrphans, Orphans, With, WorkAt
    <1>4. CASE ReclaimOrphan
        <2>1. PICK t \in todo : /\ WriteTask(t, [snap[t] EXCEPT !.status = "pending"])
                                /\ todo' = todo \ {t}
            BY <1>4 DEF ReclaimOrphan, WriteTask
        <2>2. pc = "reclaim" /\ pc' = "reclaim" /\ t \in Tasks
            BY <1>4 DEF ReclaimOrphan, Typed, TypeOK
        <2>3. (\A u \in Tasks \ {t} : task'[u] = task[u]) /\ task'[t].status # "running"
            BY <1>2, <2>1, <2>2 DEF TaskStatuses
        <2> QED
            BY <2>1, <2>2, <2>3 DEF WorkAt
    <1>5. CASE ReadWork
        BY <1>5 DEF ReadWork, Goto, EntersAt, WorkAt, NoneRunning
    <1>6. CASE StartWork \/ Load
        BY <1>6 DEF StartWork, Load, Goto, WorkAt, NoneRunning, TurnOf
    <1>7. CASE WaitForDecision \/ FinishWork \/ FailWork \/ NoTaskReady \/ RecordFailure
        BY <1>7 DEF WaitForDecision, FinishWork, FailWork, NoTaskReady, RecordFailure, WriteWork,
                    Goto, WorkAt
    <1>8. CASE DenyTask \/ MarkReady
        <2>1. PICK t \in todo, s \in {"failed", "ready"} :
                WriteTask(t, [snap[t] EXCEPT !.status = s])
            BY <1>8 DEF DenyTask, MarkReady
        <2>2. t \in Tasks /\ pc = "mark" /\ UNCHANGED pc
            BY <1>8 DEF DenyTask, MarkReady, Typed, TypeOK
        <2>3. (\A u \in Tasks \ {t} : task'[u] = task[u]) /\ task'[t].status # "running"
            BY <1>2, <2>1, <2>2 DEF TaskStatuses, Ended
        <2> QED
            BY <2>2, <2>3 DEF WorkAt, NoneRunning
    <1>9. CASE SkipAsked \/ RaiseApproval
        BY <1>9 DEF SkipAsked, RaiseApproval, WorkAt, NoneRunning
    <1>10. CASE HoldTask
        <2>1. Holds
            BY <1>10, HoldTaskHolds DEF Base
        <2> QED
            BY <2>1 DEF Holds, Only, WorkAt, NoneRunning
    <1>11. CASE Reload
        <2>1. pc = "mark" /\ pc' = AfterMarks(task) /\ UNCHANGED <<task, work>>
            BY <1>11 DEF Reload
        <2>2. NoneRunning
            BY <2>1 DEF WorkAt
        <2>3. pc' \in {"fail", "wait", "finish", "mark", "execute", "stuck"}
            BY <2>1, <2>2 DEF AfterMarks, TurnOf, NoneRunning, With
        <2> QED
            BY <2>1, <2>2, <2>3 DEF WorkAt, NoneRunning
    <1>12. CASE ExecuteStep
        BY <1>12, ExecuteKeepsWorkAt
    <1>13. CASE BatchEnds
        <2>1. pc = "execute" /\ exec = NoCalls /\ pc' = "load" /\ UNCHANGED task
            BY <1>13 DEF BatchEnds, Goto
        <2> QED
            BY <2>1 DEF WorkAt, NoneRunning, NoCalls, NoCall
    <1>14. CASE CompleteJob \/ FailJob \/ RequeueJob
        BY <1>14 DEF CompleteJob, FailJob, RequeueJob, EndAttempt, WorkAt
    <1>15. CASE ReadForFailure
        BY <1>15 DEF ReadForFailure, RecordsFailureOn, Goto, WorkAt
    <1> QED
        BY <1>3, <1>4, <1>5, <1>6, <1>7, <1>8, <1>9, <1>10, <1>11, <1>12, <1>13, <1>14, <1>15
           DEF AttemptStep

LEMMA StillIdle ==
    ASSUME Typed, [Next]_vars, pc = "idle"
    PROVE  pc' \in {"idle", "orphans"}
    <1>1. ~AttemptStep
        BY AttemptBusy
    <1>2. CASE QueueStep \/ Environment
        BY <1>2 DEF QueueStep, Environment, Claim, Recover, FailExpired, WorkerDies,
           StoreError, Reconcile, ActionChanges, RequestCut, Goto, worker
    <1>3. CASE \E c \in Requests : Open(c) \/ Continue(c)
        BY <1>3, Opened, Continued DEF worker
    <1> QED
        BY <1>1, <1>2, <1>3 DEF Next, vars, worker

LEMMA NextWorkAt ==
    ASSUME Typed, Alone, Base, WorkAt, MaxLostWrites = 0, [Next]_vars
    PROVE  WorkAt'
    <1>1. CASE pc = "idle"
        BY <1>1, StillIdle DEF WorkAt
    <1>2. CASE AttemptStep
        BY <1>2, AttemptKeepsWorkAt
    <1>3. CASE pc # "idle" /\ UNCHANGED <<rows, worker>>
        BY <1>3 DEF rows, worker, WorkAt, NoneRunning
    <1>4. CASE pc' \in {"throw", "unrecorded", "idle"}
        BY <1>4 DEF WorkAt
    <1> QED
        BY <1>1, <1>2, <1>3, <1>4, Attempting

LEMMA SettlesAt ==
    ASSUME Typed, Base, [Next]_vars, slot.status = "running", slot'.status = "idle"
    PROVE  \/ pc = "complete" /\ UNCHANGED work /\ slot'.ended = "completed"
           \/ pc \in {"failjob", "giveup", "unrecorded"} /\ UNCHANGED work
              /\ slot'.ended = "failed"
           \/ work' # "executing" /\ slot'.ended = "failed"
    <1> USE DEF rows
    <1>1. slot \in [status: {"idle", "queued", "running"}, attempts: Nat, job: Nat,
                    ended: {None, "completed", "failed", "cancelled"}]
        BY DEF Typed, TypeOK
    <1>2. slot' # slot
        OBVIOUS
    <1>3. CASE AttemptStep
        <2>1. CompleteJob \/ FailJob \/ RequeueJob
            BY <1>2, <1>3 DEF AttemptStep, ReadOrphans, ReclaimOrphan, ReadWork, StartWork,
               Load, WaitForDecision, FinishWork, FailWork, NoTaskReady, WriteWork, DenyTask,
               MarkReady, SkipAsked, RaiseApproval, HoldTask, Reload, ExecuteStep, Begin,
               AgentUnfit, StopForNewApproval, ClaimTask, EngineEnds, StepRecorded,
               RecordThrows, EngineResultLost, ReadRejected, FailRejected, BatchEnds,
               ReadForFailure, RecordFailure
        <2> QED
            BY <1>1, <2>1 DEF CompleteJob, FailJob, RequeueJob, SettleSlot
    <1>4. CASE QueueStep \/ Environment
        <2>1. Recover \/ FailExpired
            BY <1>2, <1>4 DEF QueueStep, Environment, Claim, WorkerDies, StoreError, Reconcile,
                              ActionChanges, RequestCut
        <2>2. CASE Recover
            BY <1>1, <2>2 DEF Recover
        <2>3. CASE FailExpired
            BY <1>1, <2>3 DEF FailExpired, SettleSlot
        <2> QED
            BY <2>1, <2>2, <2>3
    <1>5. ASSUME NEW c \in Requests, Open(c) \/ Continue(c)
          PROVE  FALSE
        <2>1. Enqueue(c) \/ WithdrawJob(c)
            BY <1>2, <1>5, Opened DEF Continue, CheckNoJob, ResolvePending, WriteDecidedTask,
               WriteDecidedWork, ListForRetry, ResetTask, WriteRetriedWork, ReadJobForCancel,
               ListOpenDecisions, CloseDecision, ListForCancel, CancelTask, WriteCancelledWork
        <2> QED
            BY <1>2, <2>1 DEF Enqueue, WithdrawJob
    <1>6. CASE UNCHANGED vars
        BY <1>2, <1>6 DEF vars
    <1> QED
        BY <1>3, <1>4, <1>5, <1>6 DEF Next

(* As long as the database takes the last write of every step, a job       *)
(* settles the way its mission stands, whatever dies and throws.           *)
THEOREM JobsAgree ==
    ASSUME MaxLostWrites = 0
    PROVE  Spec /\ []Alone => JobAgreesWithMission
    <1>1. Init => WorkAt
        BY DEF Init, WorkAt
    <1>2. Typed /\ Alone /\ Base /\ WorkAt /\ [Next]_vars => WorkAt'
        BY NextWorkAt
    <1>3. Typed /\ Base /\ WorkAt /\ [Next]_vars =>
            [slot.status = "running" /\ slot'.status = "idle" =>
               /\ slot'.ended = "completed" => work' \in {"completed", "waiting_approval"}
               /\ slot'.ended = "failed" /\ pc # "unrecorded" => work' # "executing"]_slot
        BY SettlesAt DEF WorkAt
    <1> QED
        BY <1>1, <1>2, <1>3, TypeCorrect, CopiesStayFresh, PTL DEF Spec, JobAgreesWithMission

-----------------------------------------------------------------------------
(* A step on hold waits for a decision that is open or being written, and  *)
(* a waiting mission for one of its steps; unless a decision or a          *)
(* cancellation is cut short.                                              *)
Deciders == {"approve", "reject", "cancel"}

HoldSettled(c, t) ==
    /\ req[c].op \in Deciders
    /\ \/ req[c].pc = "task" /\ req[c].approval = task[t].request
       \/ req[c].pc = "close"
       \/ req[c].pc = "cancel" /\ t \in req[c].left

Awaits(t) ==
    /\ task[t].request \in Approvals /\ approval[task[t].request].task = t
    /\ \/ approval[task[t].request].status = "pending"
       \/ \E c \in Requests : HoldSettled(c, t)

HoldsAwait == \A t \in Tasks : task[t].status = "waiting" => Awaits(t)

MissionSettled(c) == req[c].op \in Deciders /\ req[c].pc \in {"work", "cancel"}

MissionAwaits ==
    work = "waiting_approval" =>
        With(task, "waiting") # {} \/ \E c \in Requests : MissionSettled(c)

RetriesFailed == \A c \in Requests : req[c].pc \in {"list", "reset"} => work = "failed"

Waits == HoldsAwait /\ MissionAwaits /\ RetriesFailed

(* What a step may do to a request that is under way.                      *)
LEMMA RequestsAt ==
    ASSUME Typed, Base, [Next]_vars, NEW c \in Requests
    PROVE  req'[c] = req[c] \/ RequestCut(c) \/ Open(c) \/ Continue(c)
    <1>1. CASE AttemptStep
        BY <1>1, AttemptStepWrites DEF Base
    <1>2. CASE QueueStep \/ Environment
        <2>1. ASSUME NEW d \in Requests, RequestCut(d), d # c
              PROVE  req'[c] = req[c]
            BY <2>1, Answered DEF RequestCut
        <2> QED
            BY <1>2, <2>1 DEF QueueStep, Environment, Claim, Recover, FailExpired, WorkerDies,
                        StoreError, Reconcile, ActionChanges
    <1>3. ASSUME NEW d \in Requests, Open(d) \/ Continue(d), d # c
          PROVE  req'[c] = req[c]
        BY <1>3, Opened, Continued
    <1>4. CASE UNCHANGED vars
        BY <1>4 DEF vars
    <1> QED
        BY <1>1, <1>2, <1>3, <1>4 DEF Next

LEMMA WaitingCame ==
    ASSUME Typed, Base, [Next]_vars, NEW t \in Tasks, task'[t].status = "waiting"
    PROVE  \/ task'[t] = task[t]
           \/ Holds /\ t = approval[raised].task /\ UNCHANGED approval
    <1>1. AttemptWrites \/ RequestWrites
        BY NextWrites
    <1> QED
        BY <1>1 DEF AttemptWrites, RequestWrites, Restates, Moves, Supersedes, Undoes, Decided,
                    Holds, Only

LEMMA WaitingGoes ==
    ASSUME Typed, Alone, Base, [Next]_vars, NEW t \in Tasks, task[t].status = "waiting",
           task'[t] # task[t]
    PROVE  \E c \in Requests : WriteDecidedTask(c) \/ CancelTask(c) \/ ResetTask(c)
    <1>1. CASE AttemptStep
        <2>1. AttemptWrites
            BY <1>1, AttemptStepWrites DEF Base
        <2> QED
            BY <2>1 DEF AttemptWrites, Restates, Moves, Open3, Supersedes, Undoes, Holds, Only
    <1>2. CASE QueueStep \/ Environment
        <2>1. UNCHANGED task \/ Restates(Open3)
            BY <1>2, OthersWrite DEF Base, WorkerFresh
        <2> QED
            BY <2>1 DEF Restates, Moves, Open3
    <1>3. ASSUME NEW c \in Requests, Open(c) \/ Continue(c)
          PROVE  WriteDecidedTask(c) \/ CancelTask(c) \/ ResetTask(c)
        BY <1>3, Opened DEF Continue, CheckNoJob, Enqueue, ResolvePending,
           WriteDecidedWork, ListForRetry, WriteRetriedWork, ReadJobForCancel, WithdrawJob,
           ListOpenDecisions, CloseDecision, ListForCancel, WriteCancelledWork, rows
    <1> QED
        BY <1>1, <1>2, <1>3 DEF Next, vars, rows

LEMMA SettledBy ==
    ASSUME Typed, Alone, Base, [Next]_vars, NEW a \in Approvals,
           approval[a].status = "pending", approval'[a].status # "pending"
    PROVE  \E c \in Requests :
              /\ req'[c].op \in Deciders
              /\ (req'[c].pc = "task" /\ req'[c].approval = a) \/ req'[c].pc = "close"
    <1>0. approval \in [Approvals -> ApprovalRow]
        BY DEF Typed, TypeOK
    <1>1. CASE AttemptStep
        <2>1. AttemptWrites
            BY <1>1, AttemptStepWrites DEF Base
        <2> QED
            BY <2>1 DEF AttemptWrites, Raises
    <1>2. CASE QueueStep \/ Environment
        BY <1>2, OthersWrite DEF Base, WorkerFresh
    <1>3. ASSUME NEW c \in Requests, Open(c) \/ Continue(c)
          PROVE  /\ req'[c].op \in Deciders
                 /\ (req'[c].pc = "task" /\ req'[c].approval = a) \/ req'[c].pc = "close"
        <2>1. ResolvePending(c) \/ CloseDecision(c)
            BY <1>3, Opened DEF Continue, CheckNoJob, Enqueue, WriteDecidedTask,
               WriteDecidedWork, ListForRetry, ResetTask, WriteRetriedWork, ReadJobForCancel,
               WithdrawJob, ListOpenDecisions, ListForCancel, CancelTask, WriteCancelledWork, rows
        <2>2. ContinuesAs(c)
            BY <2>1, Continued DEF Continue
        <2>3. CASE ResolvePending(c)
            <3>1. StillPending(req[c].approval) /\ Deciding(c, "resolve")
                BY <2>3 DEF ResolvePending
            <3>2. req[c].approval = a
                <4>1. \E s : approval' = [approval EXCEPT ![req[c].approval].status = s]
                    BY <2>3, <3>1 DEF ResolvePending
                <4> QED
                    BY <1>0, <4>1
            <3>3. Goes(c, "task")
                BY <2>2, <3>1 DEF ContinuesAs, In, Deciding
            <3> QED
                BY <3>1, <3>2, <3>3 DEF Goes, Deciding, Deciders
        <2>4. CASE CloseDecision(c)
            <3>1. In(c, "cancel", "close") /\ UNCHANGED <<task, work, slot>>
                BY <2>4 DEF CloseDecision
            <3>2. \/ \E left : Lists(c, "close", left)
                  \/ ListForCancel(c) /\ In(c, "cancel", "close")
                BY <2>2, <3>1 DEF ContinuesAs, In, Deciding
            <3>3. ~ListForCancel(c)
                BY DEF ListForCancel, rows
            <3> QED
                BY <3>1, <3>2, <3>3 DEF Lists, In, Deciders
        <2> QED
            BY <2>1, <2>3, <2>4
    <1> QED
        BY <1>1, <1>2, <1>3 DEF Next, vars, rows

LEMMA NextHoldsAwait ==
    ASSUME Typed, Alone, Base, Waits, Cuttable \cap Deciders = {}, [Next]_vars
    PROVE  HoldsAwait'
    <1> SUFFICES ASSUME NEW t \in Tasks, task'[t].status = "waiting"
                 PROVE  Awaits(t)'
        BY DEF HoldsAwait
    <1>1. ApprovalsMove
        BY NextWrites, EveryApprovalMoves
    <1>2. CASE Holds /\ t = approval[raised].task /\ UNCHANGED approval
        <2>1. raised \in Approvals /\ approval[raised].status = "pending"
            BY <1>2 DEF Holds, Base, WorkerFresh, CopiesFresh, Typed, Named
        <2> QED
            BY <1>2, <2>1 DEF Holds, Awaits
    <1>3. CASE task'[t] = task[t]
        <2> DEFINE a == task[t].request
        <2>1. Awaits(t) /\ a \in Approvals /\ a # None
            BY <1>3 DEF Waits, HoldsAwait, Awaits
        <2>2. approval'[a].task = t
            BY <1>1, <2>1 DEF Awaits, ApprovalsMove, Base, Known, NamesKnown
        <2>3. CASE approval[a].status = "pending"
            <3>1. CASE approval'[a].status = "pending"
                BY <1>3, <2>1, <2>2, <3>1 DEF Awaits
            <3>2. CASE approval'[a].status # "pending"
                BY <1>3, <2>1, <2>2, <2>3, <3>2, SettledBy DEF Awaits, HoldSettled
            <3> QED
                BY <3>1, <3>2
        <2>4. ASSUME NEW c \in Requests, HoldSettled(c, t)
              PROVE  HoldSettled(c, t)'
            <3>1. CASE req'[c] = req[c]
                BY <1>3, <2>4, <3>1 DEF HoldSettled
            <3>2. CASE RequestCut(c) \/ Open(c)
                BY <2>4, <3>2, Opened DEF RequestCut, HoldSettled, NoRequest
            <3>3. CASE Continue(c)
                <4>1. ContinuesAs(c)
                    BY <3>3, Continued
                <4>2. CASE req[c].pc = "task" /\ a = req[c].approval
                    <5>1. WriteDecidedTask(c)
                        BY <4>1, <4>2 DEF ContinuesAs, In, Deciding
                    <5>2. Decided(c) /\ approval[req[c].approval].task = t
                        BY <2>1, <4>2, <5>1, DecisionWritten DEF Awaits
                    <5> QED
                        BY <1>3, <5>2 DEF Decided
                <4>3. CASE req[c].pc = "close"
                    <5>1. \/ \E left : Lists(c, "close", left)
                          \/ Lists(c, "cancel", {u \in Tasks : task[u].status \notin Ended})
                        BY <4>1, <4>3 DEF ContinuesAs, In, Deciding
                    <5> QED
                        BY <1>3, <2>4, <5>1 DEF HoldSettled, Lists, Ended
                <4>4. CASE req[c].pc = "cancel" /\ t \in req[c].left
                    <5>1. PICK u \in req[c].left :
                            /\ Lists(c, "cancel", req[c].left \ {u})
                            /\ WriteTask(u, [req[c].rows[u] EXCEPT !.status = "cancelled"])
                        BY <4>1, <4>4 DEF ContinuesAs, In, Deciding
                    <5>2. u # t
                        <6>1. ASSUME u = t
                              PROVE  task'[t].status = "cancelled"
                            <7>1. task'[t] = [req[c].rows[t] EXCEPT !.status = "cancelled"]
                                BY <5>1, <6>1 DEF WriteTask, Typed, TypeOK
                            <7>2. req[c].rows[t] \in TaskRow
                                BY DEF Typed, TypeOK, RequestRow
                            <7> QED
                                BY <7>1, <7>2 DEF TaskRow
                        <6> QED
                            BY <6>1
                    <5> QED
                        BY <2>4, <4>4, <5>1, <5>2 DEF HoldSettled, Lists
                <4> QED
                    BY <2>4, <4>2, <4>3, <4>4 DEF HoldSettled
            <3> QED
                BY <3>1, <3>2, <3>3, RequestsAt
        <2> QED
            BY <1>3, <2>1, <2>2, <2>3, <2>4 DEF Awaits
    <1> QED
        BY <1>2, <1>3, WaitingCame

LEMMA WaitsAt ==
    ASSUME Typed, [Next]_vars, work # "waiting_approval", work' = "waiting_approval"
    PROVE  WaitForDecision
    <1>1. CASE AttemptStep
        BY <1>1 DEF AttemptStep, ReadOrphans, ReclaimOrphan, ReadWork, StartWork, Load,
           FinishWork, FailWork, NoTaskReady, WriteWork, DenyTask, MarkReady, SkipAsked,
           RaiseApproval, HoldTask, Reload, ExecuteStep, Begin, AgentUnfit, StopForNewApproval,
           ClaimTask, EngineEnds, StepRecorded, RecordThrows, EngineResultLost, ReadRejected,
           FailRejected, BatchEnds, CompleteJob, FailJob, RequeueJob, ReadForFailure,
           RecordFailure, rows
    <1>2. CASE QueueStep \/ Environment
        BY <1>2 DEF QueueStep, Environment, Claim, Recover, FailExpired, WorkerDies,
           StoreError, Reconcile, ActionChanges, RequestCut, rows
    <1>3. CASE \E c \in Requests : Open(c) \/ Continue(c)
        BY <1>3, Opened DEF Continue, CheckNoJob, Enqueue, ResolvePending, WriteDecidedTask,
           WriteDecidedWork, ListForRetry, ResetTask, WriteRetriedWork, ReadJobForCancel,
           WithdrawJob, ListOpenDecisions, CloseDecision, ListForCancel, CancelTask,
           WriteCancelledWork, rows
    <1> QED
        BY <1>1, <1>2, <1>3 DEF Next, vars, rows

LEMMA NextMissionAwaits ==
    ASSUME Typed, Alone, Base, Waits, TurnFits, Cuttable \cap Deciders = {}, [Next]_vars
    PROVE  MissionAwaits'
    <1> SUFFICES ASSUME work' = "waiting_approval"
                 PROVE  \/ With(task', "waiting") # {}
                        \/ \E c \in Requests : MissionSettled(c)'
        BY DEF MissionAwaits, With
    <1>1. CASE work # "waiting_approval"
        <2>1. pc = "wait" /\ UNCHANGED task
            BY <1>1, WaitsAt DEF WaitForDecision, WriteWork
        <2> QED
            BY <2>1 DEF TurnFits, With
    <1>2. ASSUME work = "waiting_approval", NEW c \in Requests, MissionSettled(c)
          PROVE  MissionSettled(c)'
        <2>1. CASE req'[c] = req[c]
            BY <1>2, <2>1 DEF MissionSettled
        <2>2. CASE RequestCut(c) \/ Open(c)
            BY <1>2, <2>2, Opened DEF RequestCut, MissionSettled, NoRequest
        <2>3. CASE Continue(c)
            <3>1. ContinuesAs(c)
                BY <2>3, Continued
            <3>2. \/ WriteDecidedWork(c) \/ WriteCancelledWork(c)
                  \/ \E left : Lists(c, "cancel", left)
                BY <1>2, <3>1 DEF MissionSettled, ContinuesAs, In, Deciding
            <3> QED
                BY <1>2, <3>2 DEF WriteDecidedWork, WriteCancelledWork, Lists, MissionSettled
        <2> QED
            BY <2>1, <2>2, <2>3, RequestsAt
    <1>3. ASSUME work = "waiting_approval", NEW t \in Tasks, task[t].status = "waiting"
          PROVE  \/ With(task', "waiting") # {}
                 \/ \E c \in Requests : MissionSettled(c)'
        <2>1. CASE task'[t] = task[t]
            BY <1>3, <2>1 DEF With
        <2>2. CASE task'[t] # task[t]
            <3>1. PICK c \in Requests : WriteDecidedTask(c) \/ CancelTask(c) \/ ResetTask(c)
                BY <1>3, <2>2, WaitingGoes
            <3>2. ContinuesAs(c) /\ UNCHANGED work
                BY <3>1, Continued DEF Continue, WriteDecidedTask, CancelTask, ResetTask
            <3>3. CASE WriteDecidedTask(c)
                <4>1. Deciding(c, "task")
                    BY <3>3 DEF WriteDecidedTask
                <4>2. Goes(c, "work")
                    BY <3>2, <4>1 DEF ContinuesAs, In, Deciding
                <4> QED
                    BY <4>1, <4>2 DEF Goes, Deciding, MissionSettled, Deciders
            <3>4. CASE CancelTask(c)
                <4>1. In(c, "cancel", "cancel")
                    BY <3>4 DEF CancelTask
                <4>2. (\E left : Lists(c, "cancel", left)) \/ WriteCancelledWork(c)
                    BY <3>2, <4>1 DEF ContinuesAs, In, Deciding
                <4>3. ~WriteCancelledWork(c)
                    BY <1>3, <3>2 DEF WriteCancelledWork
                <4> QED
                    BY <4>1, <4>2, <4>3 DEF Lists, In, MissionSettled, Deciders
            <3>5. CASE ResetTask(c)
                BY <1>3, <3>5 DEF ResetTask, In, Waits, RetriesFailed
            <3> QED
                BY <3>1, <3>3, <3>4, <3>5
        <2> QED
            BY <2>1, <2>2
    <1>4. CASE work = "waiting_approval"
        <2>1. \/ \E t \in Tasks : task[t].status = "waiting"
              \/ \E c \in Requests : MissionSettled(c)
            BY <1>4 DEF Waits, MissionAwaits, With
        <2> QED
            BY <1>2, <1>3, <1>4, <2>1
    <1> QED
        BY <1>1, <1>4

LEMMA NextRetriesFailed ==
    ASSUME Typed, Alone, Base, RetriesFailed, [Next]_vars
    PROVE  RetriesFailed'
    <1> SUFFICES ASSUME NEW c \in Requests, req'[c].pc \in {"list", "reset"}
                 PROVE  work' = "failed"
        BY DEF RetriesFailed
    <1>1. CASE Open(c)
        <2>1. OpenRetry(c) /\ UNCHANGED work
            BY <1>1, Opened DEF rows
        <2> QED
            BY <2>1 DEF OpenRetry
    <1>2. CASE RequestCut(c)
        BY <1>2, Answered DEF RequestCut
    <1>3. CASE Continue(c)
        <2>1. ListForRetry(c) \/ ResetTask(c)
            BY <1>3, Continued DEF ContinuesAs, Gone, Goes, Lists
        <2> QED
            BY <2>1 DEF ListForRetry, ResetTask, In, rows, RetriesFailed
    <1>4. CASE req'[c] = req[c] /\ ~Open(c) /\ ~Continue(c)
        <2>1. work = "failed" /\ slot.status = "idle" /\ req[c] # NoRequest
            BY <1>4 DEF RetriesFailed, Alone, Writing, NoRequest
        <2>2. ~\E d \in Requests : Continue(d)
            BY <1>4, <2>1, ContinuesAlone
        <2>3. UNCHANGED work
            BY <2>1, <2>2, AtRest, Opened DEF rows, RequestCut, Reconcile
        <2> QED
            BY <2>1, <2>3
    <1> QED
        BY <1>1, <1>2, <1>3, <1>4, RequestsAt

(* As long as no decision and no cancellation is cut short, a mission      *)
(* that waits and has nothing under way is waiting for a decision a        *)
(* person can still make, on a step held for it.                           *)
THEOREM SomeoneIsAsked ==
    ASSUME Cuttable \cap Deciders = {}
    PROVE  Spec /\ []Alone => []SomeoneToAsk
    <1>1. Init => Waits /\ TurnFits
        BY DEF Init, Waits, HoldsAwait, MissionAwaits, RetriesFailed, TurnFits, Planned,
               PlannedRow, NoRequest
    <1>2. Typed /\ Alone /\ Base /\ TurnFits /\ Waits /\ [Next]_vars => Waits' /\ TurnFits'
        BY NextHoldsAwait, NextMissionAwaits, NextRetriesFailed, NextTurnFits DEF Waits
    <1>3. Waits => SomeoneToAsk
        <2> SUFFICES ASSUME Waits, Quiet, work = "waiting_approval"
                     PROVE  \E a \in Approvals : /\ approval[a].status = "pending"
                                                 /\ task[approval[a].task].status = "waiting"
                                                 /\ task[approval[a].task].request = a
            BY DEF SomeoneToAsk
        <2>1. \A c \in Requests : req[c].pc = "idle"
            BY DEF Quiet, NoRequest
        <2>2. PICK t \in Tasks : task[t].status = "waiting"
            BY <2>1 DEF Waits, MissionAwaits, MissionSettled, With
        <2>3. Awaits(t) /\ ~\E c \in Requests : HoldSettled(c, t)
            BY <2>1, <2>2 DEF Waits, HoldsAwait, HoldSettled
        <2> QED
            BY <2>2, <2>3 DEF Awaits
    <1> QED
        BY <1>1, <1>2, <1>3, TypeCorrect, CopiesStayFresh, PTL DEF Spec

-----------------------------------------------------------------------------
(* Who will take a mission that reads as queued up: its job, the attempt   *)
(* that has just claimed it, the request that is about to put it on the    *)
(* queue, or the one that is about to cancel it.                           *)
Enqueues(c) == req[c].pc = "enqueue" /\ req[c].op # "start"
Cancels(c)  == req[c].op = "cancel" /\ req[c].pc \in {"approvals", "close", "cancel"}

Starting == slot.status = "running" /\ pc \in {"orphans", "reclaim", "start"}

TakenUp ==
    \/ slot.job = 0 \/ slot.status = "queued" \/ Starting \/ faults.cut > 0
    \/ \E c \in Requests : Enqueues(c) \/ Cancels(c)

QueuedGoes ==
    /\ work = "queued" => TakenUp
    /\ \A c \in Requests : Enqueues(c) => slot.status = "idle"
    /\ slot.status = "running" => pc # "idle"
    /\ pc = "start" => work = "queued"

LEMMA EnqueuesAtRest ==
    ASSUME Typed, Alone, Base, QueuedGoes, [Next]_vars, NEW c \in Requests, Enqueues(c)'
    PROVE  slot'.status = "idle"
    <1>1. CASE req'[c] = req[c] /\ ~\E d \in Requests : Continue(d)
        <2>1. slot.status = "idle"
            BY <1>1 DEF QueuedGoes, Enqueues
        <2>2. UNCHANGED slot
            BY <1>1, <2>1, AtRest, Opened DEF Reconcile, RequestCut
        <2> QED
            BY <2>1, <2>2
    <1>2. CASE req'[c] = req[c] /\ \E d \in Requests : Continue(d)
        <2>1. PICK d \in Requests : Continue(d)
            BY <1>2
        <2>2. req[c] # NoRequest
            BY <1>2 DEF Enqueues, NoRequest
        <2>3. d = c
            BY <2>1, <2>2, ContinuesAlone
        <2>4. Enqueue(c) /\ Gone(c)
            BY <1>2, <2>1, <2>3, Continued DEF Enqueues, ContinuesAs, In, Deciding, Goes, Lists
        <2> QED
            BY <2>4 DEF Enqueues, Gone
    <1>3. CASE RequestCut(c) \/ Open(c)
        BY <1>3, Answered, Opened DEF RequestCut, Enqueues
    <1>4. CASE Continue(c)
        <2>1. ContinuesAs(c)
            BY <1>4, Continued
        <2>2. WriteDecidedWork(c) \/ WriteRetriedWork(c)
            BY <2>1 DEF ContinuesAs, In, Deciding, Goes, Lists, Gone, Enqueues
        <2>3. req[c].pc \in Writing /\ UNCHANGED slot
            BY <2>2 DEF WriteDecidedWork, WriteRetriedWork, In, Deciding, Writing
        <2> QED
            BY <2>3 DEF Alone
    <1> QED
        BY <1>1, <1>2, <1>3, <1>4, RequestsAt

LEMMA RunsOn ==
    ASSUME Typed, Alone, Base, QueuedGoes, MaxFaults = 0, [Next]_vars
    PROVE  /\ slot'.status = "running" => pc' # "idle"
           /\ pc' = "start" => work' = "queued"
    <1> USE DEF rows
    <1>1. /\ slot \in [status: {"idle", "queued", "running"}, attempts: Nat, job: Nat,
                       ended: {None, "completed", "failed", "cancelled"}]
          /\ pc # "idle" => slot.status = "running"
          /\ slot.status = "running" => pc # "idle"
        BY DEF Typed, TypeOK, Base, WorkerFresh, AttemptFits, QueuedGoes
    <1>2. CASE AttemptStep
        <2>1. CASE CompleteJob \/ FailJob \/ RequeueJob
            BY <1>1, <2>1 DEF CompleteJob, FailJob, RequeueJob, SettleSlot, EndAttempt
        <2>2. CASE ~(CompleteJob \/ FailJob \/ RequeueJob)
            <3>1. pc' # "idle"
                BY <1>2, <2>2 DEF AttemptStep, ReadOrphans, ReclaimOrphan, ReadWork, StartWork,
                   Load, WaitForDecision, FinishWork, FailWork, NoTaskReady, WriteWork,
                   DenyTask, MarkReady, SkipAsked, RaiseApproval, HoldTask, Reload, ExecuteStep,
                   Begin, AgentUnfit, StopForNewApproval, ClaimTask, EngineEnds, StepRecorded,
                   RecordThrows, EngineResultLost, ReadRejected, FailRejected, At, BatchEnds,
                   Goto, EntersAt, TurnOf, AfterMarks, ReadForFailure, RecordFailure
            <3>2. pc' = "start" => ReadWork /\ work = "queued"
                BY <1>2, <2>2 DEF AttemptStep, ReadOrphans, ReclaimOrphan, ReadWork, StartWork,
                   Load, WaitForDecision, FinishWork, FailWork, NoTaskReady, WriteWork,
                   DenyTask, MarkReady, SkipAsked, RaiseApproval, HoldTask, Reload, ExecuteStep,
                   Begin, AgentUnfit, StopForNewApproval, ClaimTask, EngineEnds, StepRecorded,
                   RecordThrows, EngineResultLost, ReadRejected, FailRejected, At, BatchEnds,
                   Goto, EntersAt, TurnOf, AfterMarks, ReadForFailure, RecordFailure
            <3> QED
                BY <3>1, <3>2 DEF ReadWork
        <2> QED
            BY <2>1, <2>2
    <1>3. CASE pc # "idle" /\ UNCHANGED <<rows, worker>>
        BY <1>3 DEF worker, QueuedGoes
    <1>4. CASE pc = "idle"
        <2>1. pc' \in {"idle", "orphans"}
            BY <1>4, StillIdle
        <2>2. slot'.status = "running" => pc' # "idle"
            <3>1. slot.status # "running" /\ ~AttemptStep
                BY <1>1, <1>4, AttemptBusy
            <3>2. CASE QueueStep \/ Environment
                BY <1>1, <1>4, <3>1, <3>2 DEF QueueStep, Environment, Claim, Recover, FailExpired,
                   WorkerDies, StoreError, Reconcile, ActionChanges, RequestCut, Goto, worker
            <3>3. ASSUME NEW c \in Requests, Open(c) \/ Continue(c)
                  PROVE  slot'.status # "running"
                BY <1>1, <3>1, <3>3, Opened DEF Continue, CheckNoJob, Enqueue, ResolvePending,
                   WriteDecidedTask, WriteDecidedWork, ListForRetry, ResetTask, WriteRetriedWork,
                   ReadJobForCancel, WithdrawJob, ListOpenDecisions, CloseDecision, ListForCancel,
                   CancelTask, WriteCancelledWork, SettleSlot
            <3> QED
                BY <3>1, <3>2, <3>3 DEF Next, vars
        <2> QED
            BY <2>1, <2>2
    <1> QED
        BY <1>2, <1>3, <1>4, Attempting

LEMMA QueuesAt ==
    ASSUME Typed, [Next]_vars, work # "queued", work' = "queued"
    PROVE  \E c \in Requests : WriteDecidedWork(c) \/ WriteRetriedWork(c)
    <1>1. CASE AttemptStep
        BY <1>1 DEF AttemptStep, ReadOrphans, ReclaimOrphan, ReadWork, StartWork, Load,
           WaitForDecision, FinishWork, FailWork, NoTaskReady, WriteWork, DenyTask, MarkReady,
           SkipAsked, RaiseApproval, HoldTask, Reload, ExecuteStep, Begin, AgentUnfit,
           StopForNewApproval, ClaimTask, EngineEnds, StepRecorded, RecordThrows,
           EngineResultLost, ReadRejected, FailRejected, BatchEnds, CompleteJob, FailJob,
           RequeueJob, ReadForFailure, RecordFailure, rows
    <1>2. CASE QueueStep \/ Environment
        BY <1>2 DEF QueueStep, Environment, Claim, Recover, FailExpired, WorkerDies,
           StoreError, Reconcile, ActionChanges, RequestCut, rows
    <1>3. ASSUME NEW c \in Requests, Open(c) \/ Continue(c)
          PROVE  WriteDecidedWork(c) \/ WriteRetriedWork(c)
        BY <1>3, Opened DEF Continue, CheckNoJob, Enqueue, ResolvePending, WriteDecidedTask,
           ListForRetry, ResetTask, ReadJobForCancel,
           WithdrawJob, ListOpenDecisions, CloseDecision, ListForCancel, CancelTask,
           WriteCancelledWork, rows
    <1> QED
        BY <1>1, <1>2, <1>3 DEF Next, vars, rows

LEMMA CutsCount ==
    ASSUME Typed, [Next]_vars, faults.cut > 0
    PROVE  faults'.cut > 0
    <1>1. faults \in [thrown: Nat, lost: Nat, events: Nat, cut: Nat]
        BY DEF Typed, TypeOK
    <1>2. CASE AttemptStep
        BY <1>1, <1>2 DEF AttemptStep, ReadOrphans, ReclaimOrphan, ReadWork, StartWork, Load,
           WaitForDecision, FinishWork, FailWork, NoTaskReady, WriteWork, DenyTask, MarkReady,
           SkipAsked, RaiseApproval, HoldTask, Reload, ExecuteStep, Begin, AgentUnfit,
           StopForNewApproval, ClaimTask, EngineEnds, StepRecorded, RecordThrows,
           EngineResultLost, ReadRejected, FailRejected, BatchEnds, CompleteJob, FailJob,
           RequeueJob, ReadForFailure, RecordFailure, bounds
    <1>3. CASE QueueStep \/ Environment
        BY <1>1, <1>3 DEF QueueStep, Environment, Claim, Recover, FailExpired, WorkerDies,
           StoreError, Reconcile, ActionChanges, RequestCut, bounds
    <1>4. CASE \E c \in Requests : Open(c) \/ Continue(c)
        BY <1>4, Opened, Continued DEF bounds
    <1> QED
        BY <1>2, <1>3, <1>4 DEF Next, vars, bounds

LEMMA StartingGoesOn ==
    ASSUME Typed, Alone, Base, QueuedGoes, work = "queued", work' = "queued", AttemptStep
    PROVE  TakenUp'
    <1> USE DEF rows
    <1>1. slot \in [status: {"idle", "queued", "running"}, attempts: Nat, job: Nat,
                    ended: {None, "completed", "failed", "cancelled"}]
        BY DEF Typed, TypeOK
    <1>2. slot.status = "running"
        BY AttemptBusy DEF Base, WorkerFresh, AttemptFits
    <1>3. slot'.job = slot.job
        BY <1>1 DEF AttemptStep, ReadOrphans, ReclaimOrphan, ReadWork, StartWork, Load,
           WaitForDecision, FinishWork, FailWork, NoTaskReady, WriteWork, DenyTask, MarkReady,
           SkipAsked, RaiseApproval, HoldTask, Reload, ExecuteStep, Begin, AgentUnfit,
           StopForNewApproval, ClaimTask, EngineEnds, StepRecorded, RecordThrows,
           EngineResultLost, ReadRejected, FailRejected, BatchEnds, CompleteJob, FailJob,
           RequeueJob, ReadForFailure, RecordFailure, SettleSlot
    <1>4. ~\E c \in Requests : Enqueues(c) \/ Cancels(c)
        BY <1>2 DEF QueuedGoes, Cancels, Alone, Writing
    <1>5. slot.job = 0 \/ Starting \/ faults.cut > 0
        BY <1>2, <1>4 DEF QueuedGoes, TakenUp
    <1>6. CASE Starting
        <2>1. ReadOrphans \/ ReclaimOrphan \/ ReadWork \/ StartWork
            BY <1>6 DEF Starting, AttemptStep, Load, WaitForDecision, FinishWork, FailWork,
               NoTaskReady, WriteWork, DenyTask, MarkReady, SkipAsked, RaiseApproval, HoldTask,
               Reload, ExecuteStep, Begin, AgentUnfit, StopForNewApproval, ClaimTask,
               EngineEnds, StepRecorded, RecordThrows, EngineResultLost, ReadRejected,
               FailRejected, At, BatchEnds, CompleteJob, FailJob, RequeueJob, ReadForFailure,
               RecordFailure
        <2>2. ~StartWork
            BY DEF StartWork
        <2>3. UNCHANGED slot /\ pc' \in {"reclaim", "start"}
            BY <1>6, <2>1, <2>2 DEF ReadOrphans, ReclaimOrphan, ReadWork, Goto, EntersAt
        <2>4. Starting'
            BY <1>6, <2>3 DEF Starting
        <2> QED
            BY <2>4 DEF TakenUp
    <1>7. CASE slot.job = 0
        BY <1>3, <1>7 DEF TakenUp
    <1>8. CASE faults.cut > 0
        <2>1. [Next]_vars
            BY DEF Next
        <2> QED
            BY <1>8, <2>1, CutsCount DEF TakenUp
    <1> QED
        BY <1>5, <1>6, <1>7, <1>8

LEMMA RequestTakesUp ==
    ASSUME Typed, Alone, Base, QueuedGoes, work = "queued", work' = "queued",
           NEW c \in Requests, Continue(c)
    PROVE  TakenUp'
    <1> USE DEF rows
    <1>1. /\ ContinuesAs(c) /\ UNCHANGED <<worker, bounds>>
          /\ \A d \in Requests \ {c} : req[d] = NoRequest
        BY Continued, ContinuesAlone
    <1>2. slot \in [status: {"idle", "queued", "running"}, attempts: Nat, job: Nat,
                    ended: {None, "completed", "failed", "cancelled"}]
        BY DEF Typed, TypeOK
    <1>3. TakenUp
        BY DEF QueuedGoes
    <1>4. CASE Enqueue(c)
        <2>1. CASE slot.status = "idle"
            <3>1. slot'.status = "queued"
                BY <1>2, <1>4, <2>1 DEF Enqueue
            <3> QED
                BY <3>1 DEF TakenUp
        <2>2. CASE slot.status # "idle"
            <3>1. UNCHANGED slot /\ ~Cancels(c) /\ ~Enqueues(c)
                BY <1>4, <2>2 DEF Enqueue, Cancels, QueuedGoes
            <3>2. ~\E d \in Requests : Enqueues(d) \/ Cancels(d)
                BY <1>1, <3>1 DEF Enqueues, Cancels, NoRequest
            <3> QED
                BY <1>1, <1>3, <3>1, <3>2 DEF TakenUp, Starting, worker, bounds
        <2> QED
            BY <2>1, <2>2
    <1>5. CASE WithdrawJob(c) /\ In(c, "cancel", "withdraw") /\ SettleSlot("cancelled")
               /\ Goes(c, "approvals")
        <2>1. Cancels(c)'
            BY <1>5 DEF Goes, In, Cancels
        <2> QED
            BY <2>1 DEF TakenUp
    <1>6. CASE Cancels(c)
        <2>1. ~WriteCancelledWork(c)
            BY DEF WriteCancelledWork
        <2>2. Cancels(c)'
            BY <1>1, <1>6, <2>1 DEF ContinuesAs, In, Deciding, Cancels, Lists
        <2> QED
            BY <2>2 DEF TakenUp
    <1>7. CASE UNCHANGED slot /\ ~Enqueue(c) /\ ~Cancels(c)
        <2>1. ~Enqueues(c)
            BY <1>1, <1>7 DEF ContinuesAs, In, Deciding, Enqueues
        <2>2. ~\E d \in Requests : Enqueues(d) \/ Cancels(d)
            BY <1>1, <1>7, <2>1 DEF Enqueues, Cancels, NoRequest
        <2> QED
            BY <1>1, <1>3, <1>7, <2>2 DEF TakenUp, Starting, worker, bounds
    <1>8. \/ Enqueue(c) \/ UNCHANGED slot
          \/ WithdrawJob(c) /\ In(c, "cancel", "withdraw") /\ SettleSlot("cancelled")
               /\ Goes(c, "approvals")
        BY <1>1 DEF ContinuesAs, CheckNoJob, ResolvePending, WriteDecidedTask, WriteDecidedWork,
           ListForRetry, ResetTask, WriteRetriedWork, ReadJobForCancel, ListOpenDecisions,
           CloseDecision, ListForCancel, CancelTask, WriteCancelledWork
    <1> QED
        BY <1>4, <1>5, <1>6, <1>7, <1>8

LEMMA NextTakenUp ==
    ASSUME Typed, Alone, Base, QueuedGoes, MaxFaults = 0, [Next]_vars, work' = "queued"
    PROVE  TakenUp'
    <1> USE DEF rows
    <1>1. CASE work # "queued"
        <2>1. PICK c \in Requests : WriteDecidedWork(c) \/ WriteRetriedWork(c)
            BY <1>1, QueuesAt
        <2>2. ContinuesAs(c)
            BY <2>1, Continued DEF Continue
        <2>3. CASE WriteDecidedWork(c)
            <3>1. Deciding(c, "work") /\ req[c].op = "approve"
                BY <2>3 DEF WriteDecidedWork
            <3>2. Goes(c, "enqueue")
                BY <2>2, <3>1 DEF ContinuesAs, In, Deciding
            <3>3. Enqueues(c)'
                BY <3>1, <3>2 DEF Goes, Enqueues
            <3> QED
                BY <3>3 DEF TakenUp
        <2>4. CASE WriteRetriedWork(c)
            <3>1. In(c, "retry", "reset") /\ UNCHANGED task
                BY <2>4 DEF WriteRetriedWork
            <3>2. Goes(c, "enqueue")
                <4>1. Goes(c, "enqueue") \/ ResetTask(c)
                    BY <2>2, <3>1 DEF ContinuesAs, In, Deciding
                <4>2. ~ResetTask(c)
                    BY <1>1 DEF ResetTask
                <4> QED
                    BY <4>1, <4>2
            <3>3. Enqueues(c)'
                BY <3>1, <3>2 DEF Goes, Enqueues, In
            <3> QED
                BY <3>3 DEF TakenUp
        <2> QED
            BY <2>1, <2>3, <2>4
    <1>2. CASE work = "queued"
        <2>1. TakenUp /\ slot \in [status: {"idle", "queued", "running"}, attempts: Nat,
                                   job: Nat,
                                   ended: {None, "completed", "failed", "cancelled"}]
            BY <1>2 DEF QueuedGoes, Typed, TypeOK
        <2>2. CASE AttemptStep
            BY <1>2, <2>2, StartingGoesOn
        <2>3. CASE QueueStep
            <3>1. Claim
                BY <2>3 DEF QueueStep, Recover, FailExpired, QueuedGoes
            <3>2. Starting'
                BY <2>1, <3>1 DEF Claim, Goto, Starting
            <3> QED
                BY <3>2 DEF TakenUp
        <2>4. ASSUME NEW c \in Requests, RequestCut(c)
              PROVE  TakenUp'
            <3>1. faults'.cut > 0
                BY <2>4 DEF RequestCut, Typed, TypeOK
            <3> QED
                BY <3>1 DEF TakenUp
        <2>5. CASE WorkerDies \/ StoreError \/ Reconcile
            BY <1>2, <2>5 DEF WorkerDies, StoreError, Reconcile, Typed, TypeOK
        <2>6. CASE UNCHANGED <<slot, pc, faults, req>>
            BY <2>1, <2>6 DEF TakenUp, Starting, Enqueues, Cancels
        <2>7. CASE \E t \in Tasks : ActionChanges(t)
            BY <2>6, <2>7 DEF ActionChanges, worker
        <2>8. ASSUME NEW c \in Requests, Open(c)
              PROVE  TakenUp'
            <3>1. /\ UNCHANGED <<slot, pc, faults>> /\ req[c] = NoRequest
                  /\ \A d \in Requests \ {c} : req'[d] = req[d]
                BY <2>8, Opened DEF worker
            <3>2. ~Enqueues(c) /\ ~Cancels(c)
                BY <3>1 DEF Enqueues, Cancels, NoRequest
            <3> QED
                BY <2>1, <3>1, <3>2 DEF TakenUp, Starting, Enqueues, Cancels
        <2>9. ASSUME NEW c \in Requests, Continue(c)
              PROVE  TakenUp'
            BY <1>2, <2>9, RequestTakesUp
        <2>10. UNCHANGED vars => UNCHANGED <<slot, pc, faults, req>>
            BY DEF vars, worker, bounds
        <2> QED
            BY <2>2, <2>3, <2>4, <2>5, <2>6, <2>7, <2>8, <2>9, <2>10 DEF Next, Environment
    <1> QED
        BY <1>1, <1>2

LEMMA QueuedStaysTaken ==
    ASSUME MaxFaults = 0
    PROVE  Spec /\ []Alone => []QueuedGoes
    <1>1. Init => QueuedGoes
        BY DEF Init, QueuedGoes, TakenUp, Enqueues, NoRequest
    <1>2. Typed /\ Alone /\ Base /\ QueuedGoes /\ [Next]_vars => QueuedGoes'
        <2> SUFFICES ASSUME Typed, Alone, Base, QueuedGoes, [Next]_vars
                     PROVE  QueuedGoes'
            OBVIOUS
        <2>1. work' = "queued" => TakenUp'
            BY NextTakenUp
        <2>2. \A c \in Requests : Enqueues(c)' => slot'.status = "idle"
            BY EnqueuesAtRest
        <2> QED
            BY <2>1, <2>2, RunsOn DEF QueuedGoes
    <1> QED
        BY <1>1, <1>2, TypeCorrect, CopiesStayFresh, PTL DEF Spec

(* Without deaths and errors of the worker, a mission put back to queued   *)
(* by a decision or a retry has a job, unless a request was cut short.     *)
THEOREM QueuedHaveJobs ==
    ASSUME MaxFaults = 0
    PROVE  Spec /\ []Alone => []QueuedMissionsHaveJobs
    <1>1. QueuedGoes => QueuedMissionsHaveJobs
        BY DEF QueuedGoes, TakenUp, QueuedMissionsHaveJobs, Quiet, Enqueues, Cancels, Starting,
               NoRequest
    <1> QED
        BY <1>1, QueuedStaysTaken, PTL

-----------------------------------------------------------------------------
(* Where every step that asks comes before or after every other step, a    *)
(* decision that is still open when its mission has failed cannot be, and  *)
(* no step is passed over for one.                                         *)

(* Before(t) is what t depends on, directly or through other steps.        *)
Before(t) ==
    {u \in Tasks : \A S \in SUBSET Tasks :
        Deps[t] \subseteq S /\ (\A v \in S : Deps[v] \subseteq S) => u \in S}

InLine == \A t \in Asks : \A u \in Tasks \ {t} : u \in Before(t) \/ t \in Before(u)

NoneAsked == \A t \in Tasks : ~AlreadyAsked(task[t])

(* A row names its own approval, an open decision holds its step, and a    *)
(* step that got anywhere has what it depends on completed.                *)
NamesOwn == \A t \in Tasks : task[t].request # None => approval[task[t].request].task = t

AskedWait == \A t \in Tasks : AlreadyAsked(task[t]) => task[t].status = "waiting"

Reached == {"ready", "running", "waiting", "completed", "failed"}
Passed  == \A t \in Tasks : task[t].status \in Reached => DepsDone(t)

(* Nothing that waits for a step whose call is under way got anywhere.     *)
Unreached ==
    \A t \in Tasks : exec[t].pc \in {"engine", "record"} =>
        \A u \in Tasks : t \in Deps[u] => task[u].status \notin Reached

(* A decision is written over a step on hold, and once it is, no other is  *)
(* open.                                                                   *)
DecidesWaiting ==
    \A c \in Requests :
        /\ req[c].pc = "task" => task[approval[req[c].approval].task].status = "waiting"
        /\ req[c].pc = "work" => NoneAsked

(* Open decisions are left neither by a mission that failed nor by one     *)
(* that is executing while no attempt is at its turns.                     *)
Working == {"load", "mark", "raised", "execute", "wait", "finish", "fail", "stuck"}

NoneLeftAsked ==
    work = "failed" \/ (work = "executing" /\ pc \notin Working) => NoneAsked

(* What the attempt knows where it is: when it marks, everything eligible  *)
(* is on its list.                                                         *)
AttemptAt ==
    /\ pc \in Working => work = "executing"
    /\ pc = "throw" => work = "failed"
    /\ pc \notin {"record", "unrecorded"}
    /\ pc = "fail" => With(task, "failed") # {}
    /\ pc = "stuck" => With(task, "waiting") = {} /\ Eligible(task) = {}
    /\ pc \in Marking => Eligible(task) \subseteq todo

Asking ==
    /\ NamesOwn /\ AskedWait /\ Passed /\ Unreached /\ DecidesWaiting /\ NoneLeftAsked
    /\ AttemptAt /\ RetriesFailed

LEMMA AskedByHolding ==
    ASSUME Typed, Base, Exact, [Next]_vars, NEW t \in Tasks, AlreadyAsked(task[t])'
    PROVE  AlreadyAsked(task[t]) \/ (Holds /\ t = approval[raised].task)
    <1> DEFINE r == task'[t].request
    <1>1. r # None /\ approval'[r].status = "pending"
        BY DEF AlreadyAsked
    <1>2. AttemptWrites \/ RequestWrites
        BY NextWrites
    <1>3. ApprovalsMove
        BY <1>2, EveryApprovalMoves
    <1>4. ASSUME task[t].request = r
          PROVE  AlreadyAsked(task[t])
        <2>1. r \in Approvals /\ approval[r].status # "absent"
            BY <1>1, <1>4 DEF Typed, TypeOK, TaskRow, Base, Known, NamesKnown
        <2>2. approval[r].status = "pending"
            BY <1>1, <1>3, <2>1 DEF ApprovalsMove
        <2> QED
            BY <1>1, <1>4, <2>2 DEF AlreadyAsked
    <1>5. ASSUME NEW c \in Requests, Decided(c), UNCHANGED approval
          PROVE  task[t].request = r
        <2>1. CASE approval[req[c].approval].task = t
            <3>1. r = req[c].approval /\ approval[r].status = "pending"
                BY <1>1, <1>5, <2>1 DEF Decided
            <3>2. r \in Approvals /\ Decides(c)
                BY <1>5, <3>1 DEF Decided, Typed, Named, Exact, DecidesNow
            <3> QED
                BY <2>1, <3>1, <3>2 DEF Decides
        <2>2. CASE approval[req[c].approval].task # t
            BY <1>5, <2>2 DEF Decided, Only
        <2> QED
            BY <2>1, <2>2
    <1>6. CASE UNCHANGED task
        BY <1>4, <1>6
    <1>7. CASE Restates(Open3) \/ Restates(Unfinished)
        BY <1>4, <1>7 DEF Restates, Moves, Agrees
    <1>8. CASE Holds
        BY <1>4, <1>8 DEF Holds, Only
    <1>9. CASE Supersedes \/ Undoes
        BY <1>4, <1>9 DEF Supersedes, Undoes, Agrees, Only
    <1> QED
        BY <1>2, <1>4, <1>5, <1>6, <1>7, <1>8, <1>9 DEF AttemptWrites, RequestWrites

LEMMA NextNamesOwn ==
    ASSUME Typed, Base, NamesOwn, [Next]_vars
    PROVE  NamesOwn'
    <1> SUFFICES ASSUME NEW t \in Tasks, task'[t].request # None
                 PROVE  approval'[task'[t].request].task = t
        BY DEF NamesOwn
    <1>1. AttemptWrites \/ RequestWrites
        BY NextWrites
    <1>2. ApprovalsMove
        BY <1>1, EveryApprovalMoves
    <1>3. ASSUME task'[t].request = task[t].request
          PROVE  approval'[task'[t].request].task = t
        <2>1. /\ task[t].request \in Approvals /\ approval[task[t].request].status # "absent"
              /\ approval[task[t].request].task = t
            BY <1>3 DEF Typed, TypeOK, TaskRow, Base, Known, NamesKnown, NamesOwn
        <2> QED
            BY <1>2, <1>3, <2>1 DEF ApprovalsMove
    <1>4. CASE Holds /\ UNCHANGED approval
        BY <1>3, <1>4 DEF Holds, Only, NamesOwn
    <1>5. ASSUME NEW c \in Requests, Decided(c), UNCHANGED approval
          PROVE  approval'[task'[t].request].task = t
        BY <1>3, <1>5 DEF Decided, Only, NamesOwn
    <1>6. ASSUME \/ UNCHANGED task \/ Restates(Open3) \/ Restates(Unfinished)
                 \/ Supersedes \/ Undoes
          PROVE  task'[t].request = task[t].request
        BY <1>6 DEF Restates, Moves, Agrees, Supersedes, Undoes, Only
    <1>7. CASE Holds
        <2>1. raised \in Approvals /\ approval[raised].status = "pending"
            BY <1>7 DEF Holds, Base, WorkerFresh, CopiesFresh, Typed, Named
        <2>2. approval'[raised].task = approval[raised].task
            BY <1>2, <2>1 DEF ApprovalsMove
        <2> QED
            BY <1>3, <1>7, <2>2 DEF Holds, Only, NamesOwn
    <1> QED
        BY <1>1, <1>3, <1>5, <1>6, <1>7 DEF AttemptWrites, RequestWrites

(* Of two steps in line one is completed before the other comes to its     *)
(* turn.                                                                   *)
LEMMA InLineApart ==
    ASSUME Typed, InLine, Passed, NEW t \in Asks, NEW u \in Tasks \ {t},
           task[t].status \in {"waiting", "failed"}, task[u].status \in {"waiting", "failed"}
    PROVE  FALSE
    <1> DEFINE C == With(task, "completed")
    <1>1. t \in Tasks /\ C \in SUBSET Tasks /\ t \notin C /\ u \notin C
        BY DEF LifecycleAssumption, With
    <1>2. \A v \in C \cup {t, u} : Deps[v] \subseteq C
        <2> SUFFICES ASSUME NEW v \in C \cup {t, u}
                     PROVE  Deps[v] \subseteq C
            OBVIOUS
        <2>1. v \in Tasks /\ task[v].status \in Reached
            BY <1>1 DEF With, Reached
        <2>2. DepsDone(v) /\ Deps[v] \subseteq Tasks
            BY <2>1 DEF Passed, LifecycleAssumption
        <2> QED
            BY <2>2 DEF DepsDone, With
    <1> HIDE DEF C
    <1>3. u \notin Before(t) /\ t \notin Before(u)
        BY <1>1, <1>2 DEF Before
    <1> QED
        BY <1>3 DEF InLine

LEMMA AskedAsks ==
    ASSUME Typed, Base, NamesOwn, NEW t \in Tasks, AlreadyAsked(task[t])
    PROVE  t \in Asks
    <1>1. task[t].request \in Approvals /\ approval[task[t].request].task = t
        BY DEF AlreadyAsked, Typed, TypeOK, TaskRow, NamesOwn
    <1> QED
        BY <1>1 DEF Base, Known, NamesKnown, AskedFor, AlreadyAsked

LEMMA NextAskedWait ==
    ASSUME Typed, Alone, Base, Exact, CancelGoes, Asking, [Next]_vars
    PROVE  AskedWait'
    <1> SUFFICES ASSUME NEW t \in Tasks, AlreadyAsked(task[t])'
                 PROVE  task'[t].status = "waiting"
        BY DEF AskedWait
    <1>1. CASE Holds /\ t = approval[raised].task
        BY <1>1 DEF Holds
    <1>2. CASE AlreadyAsked(task[t])
        <2>1. task[t].status = "waiting" /\ task[t].request \in Approvals
            BY <1>2 DEF Asking, AskedWait, AlreadyAsked, Typed, TypeOK, TaskRow
        <2>2. ASSUME task'[t] # task[t]
              PROVE  FALSE
            <3>1. PICK c \in Requests : WriteDecidedTask(c) \/ CancelTask(c) \/ ResetTask(c)
                BY <2>1, <2>2, WaitingGoes
            <3>2. CASE WriteDecidedTask(c)
                <4>1. Decided(c)
                    BY <3>2, DecisionWritten
                <4>2. approval[req[c].approval].task = t
                    BY <2>2, <4>1 DEF Decided, Only
                <4>3. Decides(c)
                    BY <4>1 DEF Decided, Exact, DecidesNow
                <4> QED
                    BY <1>2, <2>1, <4>2, <4>3 DEF Decides, AlreadyAsked
            <3>3. CASE CancelTask(c)
                <4>1. OpenDecisions = {}
                    BY <3>3 DEF CancelTask, In, CancelGoes, Closing
                <4> QED
                    BY <1>2, <2>1, <4>1 DEF OpenDecisions, AlreadyAsked
            <3>4. CASE ResetTask(c)
                BY <1>2, <3>4 DEF ResetTask, In, Asking, RetriesFailed, NoneLeftAsked, NoneAsked
            <3> QED
                BY <3>1, <3>2, <3>3, <3>4
        <2> QED
            BY <2>1, <2>2
    <1> QED
        BY <1>1, <1>2, AskedByHolding

(* Only marking gets a step anywhere.                                      *)
LEMMA GetsAnywhere ==
    ASSUME Typed, Base, DecidesWaiting, [Next]_vars, NEW t \in Tasks,
           task'[t].status \in Reached
    PROVE  task[t].status \in Reached \/ (pc \in Marking /\ DepsDone(t))
    <1>1. AttemptWrites \/ RequestWrites
        BY NextWrites
    <1>2. CASE task'[t] = task[t]
        BY <1>2
    <1>3. CASE Moves(t, Open3) \/ Moves(t, Unfinished)
        BY <1>3 DEF Moves, Due, Reached, Marking
    <1>4. CASE Holds
        BY <1>2, <1>4 DEF Holds, Only, Base, WorkerFresh, CopiesFresh, Marking
    <1>5. CASE Supersedes \/ Undoes
        BY <1>2, <1>5 DEF Supersedes, Undoes, Only, Reached
    <1>6. ASSUME NEW c \in Requests, Decided(c)
          PROVE  task'[t] = task[t] \/ task[t].status \in Reached
        BY <1>6 DEF Decided, Only, DecidesWaiting, Reached
    <1> QED
        BY <1>1, <1>2, <1>3, <1>4, <1>5, <1>6 DEF AttemptWrites, RequestWrites, Restates

LEMMA NextPassed ==
    ASSUME Typed, Base, Exact, Asking, [Next]_vars
    PROVE  Passed'
    <1> SUFFICES ASSUME NEW t \in Tasks, task'[t].status \in Reached, NEW d \in Deps[t]
                 PROVE  task'[d].status = "completed"
        BY DEF Passed, DepsDone
    <1>1. d \in Tasks
        BY DEF LifecycleAssumption
    <1>2. task[t].status \in Reached \/ (pc \in Marking /\ DepsDone(t))
        BY GetsAnywhere DEF Asking
    <1>3. task[d].status = "completed"
        BY <1>2 DEF Asking, Passed, DepsDone
    <1>4. ~(pc = "execute" /\ exec[d].pc = "record")
        BY <1>1, <1>2 DEF Asking, Unreached, Marking
    <1> QED
        BY <1>1, <1>3, <1>4, CompletedStay DEF CompletedStays

LEMMA NextUnreached ==
    ASSUME Typed, Base, Asking, [Next]_vars
    PROVE  Unreached'
    <1> SUFFICES ASSUME NEW t \in Tasks, exec'[t].pc \in {"engine", "record"},
                        NEW u \in Tasks, t \in Deps[u], task'[u].status \in Reached
                 PROVE  FALSE
        BY DEF Unreached
    <1>1. task[u].status \in Reached \/ (pc \in Marking /\ DepsDone(u))
        BY GetsAnywhere DEF Asking
    <1>2. CASE exec[t].pc \in {"engine", "record"}
        <2>1. pc = "execute" /\ task[u].status \notin Reached
            BY <1>2 DEF Asking, Unreached, Base, WorkerFresh, AttemptFits
        <2> QED
            BY <1>1, <2>1 DEF Marking
    <1>3. CASE exec[t].pc \notin {"engine", "record"}
        <2>1. pc = "execute" /\ task[t].status = "ready"
            BY <1>3, ClaimsReady
        <2>2. task[u].status \in Reached
            BY <1>1, <2>1 DEF Marking
        <2> QED
            BY <2>1, <2>2 DEF Asking, Passed, DepsDone
    <1> QED
        BY <1>2, <1>3

LEMMA NextDecidesWaiting ==
    ASSUME Typed, Alone, Base, Exact, Asking, InLine, [Next]_vars
    PROVE  DecidesWaiting'
    <1>1. ASSUME NEW c \in Requests, req'[c].pc = "task"
          PROVE  task'[approval'[req'[c].approval].task].status = "waiting"
        <2> DEFINE a == req[c].approval  t == approval[a].task
        <2>1. CASE req[c].pc = "task"
            <3>1. UNCHANGED approval /\ req'[c].approval = a
                BY <1>1, <2>1, DecidingRests
            <3>2. t \in Tasks /\ task[t].status = "waiting" /\ req[c] # NoRequest
                BY <2>1 DEF Typed, Named, Asking, DecidesWaiting, NoRequest
            <3>3. ASSUME task'[t] # task[t]
                  PROVE  FALSE
                <4>1. PICK d \in Requests : WriteDecidedTask(d) \/ CancelTask(d) \/ ResetTask(d)
                    BY <3>2, <3>3, WaitingGoes
                <4>2. d = c /\ ContinuesAs(c)
                    BY <3>2, <4>1, ContinuesAlone, Continued DEF Continue
                <4> QED
                    BY <1>1, <2>1, <4>2 DEF ContinuesAs, In, Deciding, Goes
            <3> QED
                BY <3>1, <3>2, <3>3
        <2>2. CASE req[c].pc # "task"
            <3>1. /\ ResolvePending(c) /\ approval[a].status = "pending"
                  /\ req[c].pc = "resolve" /\ req'[c].approval = a
                BY <1>1, <2>2, ReachesTask DEF StillPending, Goes, Deciding
            <3>2. a \in Approvals /\ t \in Tasks /\ pc = "idle"
                BY <3>1 DEF Typed, Named, Alone, Writing, Base, WorkerFresh, AttemptFits
            <3>3. AlreadyAsked(task[t])
                BY <3>1, <3>2 DEF Exact, PendingNamed, AlreadyAsked, LifecycleAssumption
            <3>4. UNCHANGED task /\ \E s \in {"approved", "rejected"} :
                                       approval' = [approval EXCEPT ![a].status = s]
                BY <3>1 DEF ResolvePending, StillPending
            <3>5. approval'[a].task = t
                BY <3>2, <3>4 DEF Typed, TypeOK, ApprovalRow
            <3> QED
                BY <3>1, <3>2, <3>3, <3>4, <3>5 DEF Asking, AskedWait
        <2> QED
            BY <2>1, <2>2
    <1>2. ASSUME NEW c \in Requests, req'[c].pc = "work", NEW u \in Tasks,
                 AlreadyAsked(task[u])'
          PROVE  FALSE
        <2>1. ASSUME req[c].pc \in Writing
              PROVE  AlreadyAsked(task[u])
            <3>1. pc = "idle"
                BY <2>1 DEF Alone, Base, WorkerFresh, AttemptFits
            <3> QED
                BY <1>2, <3>1, AskedByHolding DEF Holds
        <2>2. CASE req[c].pc = "work"
            BY <2>1, <2>2 DEF Writing, Asking, DecidesWaiting, NoneAsked
        <2>3. CASE req[c].pc # "work"
            <3> DEFINE a == req[c].approval  t == approval[a].task
            <3>1. Continue(c)
                BY <1>2, <2>3, RequestsAt, Answered, Opened DEF RequestCut
            <3>2. req[c].pc = "task"
                BY <1>2, <2>3, <3>1, Continued DEF ContinuesAs, Deciding, Goes, Lists, Gone
            <3>3. /\ a \in Approvals /\ t \in Tasks /\ task[t].status = "waiting"
                  /\ task[t].request = a
                  /\ \A b \in Approvals : approval[b].status = "pending" => approval[b].task # t
                BY <3>2 DEF Typed, Named, Exact, DecidesNow, Decides, Asking, DecidesWaiting
            <3>4. t \in Asks
                BY <3>3 DEF Base, Known, NamesKnown, AskedFor, LifecycleAssumption
            <3>5. AlreadyAsked(task[u]) /\ task[u].status = "waiting"
                BY <2>1, <3>2 DEF Writing, Asking, AskedWait
            <3>6. task[u].request \in Approvals /\ approval[task[u].request].task = u
                BY <3>5 DEF AlreadyAsked, Typed, TypeOK, TaskRow, Asking, NamesOwn
            <3>7. u # t
                BY <3>3, <3>5, <3>6 DEF AlreadyAsked
            <3> HIDE DEF t
            <3> QED
                BY <3>3, <3>4, <3>5, <3>7, InLineApart DEF Asking
        <2> QED
            BY <2>2, <2>3
    <1> QED
        BY <1>1, <1>2 DEF DecidesWaiting, NoneAsked

(* What ends a mission as failed, and what sets it going.                  *)
LEMMA FailsAt ==
    ASSUME Typed, [Next]_vars, work # "failed", work' = "failed"
    PROVE  \/ FailWork \/ NoTaskReady \/ RecordFailure \/ FailExpired \/ Reconcile
           \/ \E c \in Requests : WriteDecidedWork(c)
    <1>1. CASE AttemptStep
        BY <1>1 DEF AttemptStep, ReadOrphans, ReclaimOrphan, ReadWork, StartWork, Load,
           WaitForDecision, FinishWork, WriteWork, DenyTask, MarkReady, SkipAsked,
           RaiseApproval, HoldTask, Reload, ExecuteStep, Begin, AgentUnfit, StopForNewApproval,
           ClaimTask, EngineEnds, StepRecorded, RecordThrows, EngineResultLost, ReadRejected,
           FailRejected, BatchEnds, CompleteJob, FailJob, RequeueJob, ReadForFailure, rows
    <1>2. CASE QueueStep \/ Environment
        BY <1>2 DEF QueueStep, Environment, Claim, Recover, WorkerDies,
           StoreError, ActionChanges, RequestCut, rows
    <1>3. ASSUME NEW c \in Requests, Open(c) \/ Continue(c)
          PROVE  WriteDecidedWork(c)
        BY <1>3, Opened DEF Continue, CheckNoJob, Enqueue, ResolvePending, WriteDecidedTask,
           ListForRetry, ResetTask, WriteRetriedWork, ReadJobForCancel,
           WithdrawJob, ListOpenDecisions, CloseDecision, ListForCancel, CancelTask,
           WriteCancelledWork, rows
    <1> QED
        BY <1>1, <1>2, <1>3 DEF Next, vars, rows

LEMMA ExecutesAt ==
    ASSUME Typed, [Next]_vars, work # "executing", work' = "executing"
    PROVE  StartWork
    <1>1. CASE AttemptStep
        BY <1>1 DEF AttemptStep, ReadOrphans, ReclaimOrphan, ReadWork, Load, WaitForDecision,
           FinishWork, FailWork, NoTaskReady, WriteWork, DenyTask, MarkReady, SkipAsked,
           RaiseApproval, HoldTask, Reload, ExecuteStep, Begin, AgentUnfit, StopForNewApproval,
           ClaimTask, EngineEnds, StepRecorded, RecordThrows, EngineResultLost, ReadRejected,
           FailRejected, BatchEnds, CompleteJob, FailJob, RequeueJob, ReadForFailure,
           RecordFailure, rows
    <1>2. CASE QueueStep \/ Environment
        BY <1>2 DEF QueueStep, Environment, Claim, Recover, FailExpired, WorkerDies,
           StoreError, Reconcile, ActionChanges, RequestCut, rows
    <1>3. CASE \E c \in Requests : Open(c) \/ Continue(c)
        BY <1>3, Opened DEF Continue, CheckNoJob, Enqueue, ResolvePending, WriteDecidedTask,
           WriteDecidedWork, ListForRetry, ResetTask, WriteRetriedWork, ReadJobForCancel,
           WithdrawJob, ListOpenDecisions, CloseDecision, ListForCancel, CancelTask,
           WriteCancelledWork, rows
    <1> QED
        BY <1>1, <1>2, <1>3 DEF Next, vars, rows

LEMMA NextNoneLeftAsked ==
    ASSUME Typed, Alone, Base, Exact, QueuedGoes, Asking, InLine, MaxFaults = 0, [Next]_vars
    PROVE  NoneLeftAsked'
    <1> SUFFICES ASSUME work' = "failed" \/ (work' = "executing" /\ pc' \notin Working),
                        NEW u \in Tasks, AlreadyAsked(task[u])'
                 PROVE  FALSE
        BY DEF NoneLeftAsked, NoneAsked
    <1>1. /\ AttemptAt /\ NoneLeftAsked /\ DecidesWaiting
          /\ pc # "idle" => slot.status = "running"
        BY DEF Asking, Base, WorkerFresh, AttemptFits
    <1>2. CASE Holds
        <2>1. pc = "raised" /\ pc' = "mark" /\ work = "executing"
            BY <1>1, <1>2 DEF Holds, AttemptAt, Working
        <2>2. work' = "failed"
            BY <2>1 DEF Working
        <2>3. \E c \in Requests : WriteDecidedWork(c)
            BY <1>1, <2>1, <2>2, FailsAt DEF FailWork, NoTaskReady, RecordFailure, WriteWork,
               FailExpired, Reconcile
        <2> QED
            BY <1>1, <2>1, <2>3 DEF WriteDecidedWork, Deciding, Alone, Writing
    <1>3. CASE ~Holds
        <2>1. AlreadyAsked(task[u])
            BY <1>3, AskedByHolding
        <2>2. u \in Asks /\ task[u].status = "waiting"
            BY <2>1, AskedAsks DEF Asking, AskedWait
        <2>3. work # "failed" /\ (work = "executing" => pc \in Working)
            BY <1>1, <2>1 DEF NoneLeftAsked, NoneAsked
        <2>4. CASE work' = "failed"
            <3>1. CASE FailWork
                <4>1. PICK v \in Tasks : task[v].status = "failed"
                    BY <1>1, <3>1 DEF FailWork, WriteWork, AttemptAt, With
                <4> QED
                    BY <2>2, <4>1, InLineApart DEF Asking
            <3>2. CASE NoTaskReady \/ RecordFailure
                BY <1>1, <2>2, <3>2 DEF NoTaskReady, RecordFailure, WriteWork, AttemptAt, With
            <3>3. CASE FailExpired
                BY <3>3 DEF FailExpired, QueuedGoes
            <3>4. CASE Reconcile
                BY <1>1, <2>3, <3>4 DEF Reconcile, Working
            <3>5. ASSUME NEW c \in Requests, WriteDecidedWork(c)
                  PROVE  FALSE
                BY <1>1, <2>1, <3>5 DEF WriteDecidedWork, Deciding, DecidesWaiting, NoneAsked
            <3> QED
                BY <2>3, <2>4, <3>1, <3>2, <3>3, <3>4, <3>5, FailsAt
        <2>5. CASE work' = "executing" /\ pc' \notin Working
            <3>1. work = "executing" /\ pc \in Working
                BY <2>3, <2>5, ExecutesAt DEF StartWork, Goto, Working
            <3>2. AttemptStep
                BY <2>5, <3>1, Attempting DEF Working, worker
            <3>3. Reload
                BY <2>5, <3>1, <3>2 DEF Working, AttemptStep, ReadOrphans, ReclaimOrphan,
                   ReadWork, StartWork, Load, WaitForDecision, FinishWork, FailWork,
                   NoTaskReady, WriteWork, DenyTask, MarkReady, SkipAsked, RaiseApproval,
                   HoldTask, ExecuteStep, Begin, AgentUnfit, StopForNewApproval, ClaimTask,
                   EngineEnds, StepRecorded, RecordThrows, EngineResultLost, ReadRejected,
                   FailRejected, At, BatchEnds, CompleteJob, FailJob, RequeueJob, Goto, TurnOf,
                   ReadForFailure, RecordFailure
            <3>4. pc' = TurnOf(task)
                BY <2>2, <3>3 DEF Reload, AfterMarks, With
            <3> QED
                BY <2>5, <3>4 DEF TurnOf, Working
        <2> QED
            BY <2>4, <2>5
    <1> QED
        BY <1>2, <1>3

LEMMA FewerEligible ==
    ASSUME NEW t \in Tasks, Only(t), task'[t].status \notin {"pending", "completed"}
    PROVE  Eligible(task') \subseteq Eligible(task) \ {t}
    <1> SUFFICES ASSUME NEW u \in Eligible(task')
                 PROVE  u \in Eligible(task) \ {t}
        OBVIOUS
    <1>1. u \in Tasks /\ task'[u].status = "pending"
          /\ \A d \in Deps[u] : task'[d].status = "completed"
        BY DEF Eligible, With
    <1>2. \A v \in Tasks : v # t => task'[v] = task[v]
        BY DEF Only
    <1>3. Deps[u] \subseteq Tasks
        BY <1>1 DEF LifecycleAssumption
    <1> QED
        BY <1>1, <1>2, <1>3 DEF Eligible, With

LEMMA NextAttemptAt ==
    ASSUME Typed, Alone, Base, CancelGoes, Asking, MaxFaults = 0, [Next]_vars
    PROVE  AttemptAt'
    <1> USE DEF rows
    <1>1. AttemptAt /\ CopiesFresh /\ (pc # "idle" => slot.status = "running")
        BY DEF Asking, Base, WorkerFresh, AttemptFits
    <1>2. CASE pc' \notin Working \cup {"throw", "record", "unrecorded"}
        BY <1>2 DEF AttemptAt, Working, Marking
    <1>3. CASE pc = "idle"
        BY <1>2, <1>3, StillIdle DEF Working
    <1>4. CASE pc # "idle" /\ ~AttemptStep
        <2>1. UNCHANGED <<rows, worker>>
            BY <1>2, <1>4, Attempting DEF Working
        <2> QED
            BY <1>1, <2>1 DEF AttemptAt, With, Eligible, worker
    <1>5. CASE ReadOrphans \/ ReclaimOrphan \/ CompleteJob \/ FailJob \/ RequeueJob
        <2>1. pc' \in {"reclaim", "idle"}
            BY <1>5 DEF ReadOrphans, ReclaimOrphan, CompleteJob, FailJob, RequeueJob, EndAttempt
        <2> QED
            BY <1>2, <2>1 DEF Working
    <1>6. CASE WaitForDecision \/ FinishWork \/ FailWork \/ NoTaskReady \/ RecordFailure
        <2>1. pc' \in {"complete", "failjob", "giveup"}
            BY <1>6 DEF WaitForDecision, FinishWork, FailWork, NoTaskReady, RecordFailure,
                        WriteWork, Goto
        <2> QED
            BY <1>2, <2>1 DEF Working
    <1>7. CASE ReadWork
        <2>1. pc' = EntersAt(work) /\ UNCHANGED work /\ pc = "reclaim"
            BY <1>7 DEF ReadWork, Goto
        <2>2. work \in {"queued", "executing", "waiting_approval"} \cup Ended
              /\ work # "cancelled"
            BY <1>1, <2>1 DEF Typed, TypeOK, CancelGoes, Over
        <2>3. \/ pc' = "load" /\ work' = "executing"
              \/ pc' = "throw" /\ work' = "failed"
              \/ pc' \in {"start", "complete"}
            <3>1. CASE work = "executing"
                BY <2>1, <3>1 DEF EntersAt
            <3>2. CASE work = "failed"
                BY <2>1, <3>2 DEF EntersAt
            <3>3. CASE work = "queued"
                BY <2>1, <3>3 DEF EntersAt
            <3>4. CASE work \in {"completed", "waiting_approval"}
                BY <2>1, <3>4 DEF EntersAt
            <3> QED
                BY <2>2, <3>1, <3>2, <3>3, <3>4 DEF Ended
        <2> QED
            BY <2>3 DEF AttemptAt, Working, Marking
    <1>8. CASE StartWork \/ BatchEnds
        <2>1. pc' = "load" /\ work' = "executing"
            BY <1>1, <1>8 DEF StartWork, BatchEnds, Goto, AttemptAt, Working
        <2> QED
            BY <2>1 DEF AttemptAt, Marking
    <1>9. CASE Load
        <2>1. /\ pc' = TurnOf(task) /\ UNCHANGED task /\ work' = "executing"
              /\ todo' = IF TurnOf(task) = "mark" THEN Eligible(task) ELSE {}
            BY <1>1, <1>9 DEF Load, AttemptAt, Working
        <2>2. pc' \in {"fail", "wait", "finish", "mark"}
            BY <2>1 DEF TurnOf
        <2>3. pc' = "fail" => With(task, "failed") # {}
            BY <2>1 DEF TurnOf
        <2>4. pc' \in Marking => Eligible(task) \subseteq todo'
            BY <2>1, <2>2 DEF Marking
        <2> QED
            BY <2>1, <2>2, <2>3, <2>4 DEF AttemptAt, Eligible, With
    <1>10. CASE DenyTask \/ MarkReady
        <2>1. PICK t \in todo, s \in {"failed", "ready"} :
                WriteTask(t, [snap[t] EXCEPT !.status = s]) /\ todo' = todo \ {t}
            BY <1>10 DEF DenyTask, MarkReady
        <2>2. t \in Tasks /\ pc = "mark" /\ UNCHANGED <<pc, work>>
            BY <1>10 DEF DenyTask, MarkReady, Typed, TypeOK
        <2>3. task \in [Tasks -> TaskRow] /\ snap[t] \in TaskRow
            BY <2>2 DEF Typed, TypeOK
        <2>4. Only(t) /\ task'[t].status = s
            BY <2>1, <2>2, <2>3 DEF WriteTask, Only, TaskRow
        <2>5. Eligible(task') \subseteq Eligible(task) \ {t}
            BY <2>2, <2>4, FewerEligible
        <2>6. Eligible(task) \subseteq todo /\ work = "executing"
            BY <1>1, <2>2 DEF AttemptAt, Marking, Working
        <2> QED
            BY <2>1, <2>2, <2>5, <2>6 DEF AttemptAt
    <1>11. CASE SkipAsked
        <2>1. PICK t \in todo : AlreadyAsked(snap[t])
            BY <1>11 DEF SkipAsked
        <2>2. t \in Tasks /\ snap[t] = task[t] /\ task[t].status = "pending"
            BY <1>1, <1>11, <2>1 DEF SkipAsked, CopiesFresh, Marking, Typed, TypeOK
        <2> QED
            BY <2>1, <2>2 DEF Asking, AskedWait
    <1>12. CASE RaiseApproval
        <2>1. pc = "mark" /\ pc' = "raised" /\ UNCHANGED <<work, task, todo>>
            BY <1>12 DEF RaiseApproval
        <2> QED
            BY <1>1, <2>1 DEF AttemptAt, Marking, Working, Eligible, With
    <1>13. CASE HoldTask
        <2> DEFINE t == approval[raised].task
        <2>1. Holds /\ pc = "raised" /\ UNCHANGED work /\ todo' = todo \ {t}
            BY <1>13, HoldTaskHolds DEF HoldTask, Base
        <2>2. t \in Tasks /\ Only(t) /\ task'[t].status = "waiting" /\ pc' = "mark"
            BY <1>1, <2>1 DEF Holds, CopiesFresh, Typed, TypeOK
        <2>3. Eligible(task') \subseteq Eligible(task) \ {t}
            BY <2>2, FewerEligible
        <2>4. Eligible(task) \subseteq todo /\ work = "executing"
            BY <1>1, <2>1 DEF AttemptAt, Marking, Working
        <2> QED
            BY <2>1, <2>2, <2>3, <2>4 DEF AttemptAt
    <1>14. CASE Reload
        <2>1. /\ pc = "mark" /\ todo = {} /\ pc' = AfterMarks(task)
              /\ UNCHANGED <<work, task, todo>>
            BY <1>14 DEF Reload
        <2>2. work = "executing" /\ Eligible(task) = {}
            BY <1>1, <2>1 DEF AttemptAt, Marking, Working
        <2>3. pc' \in {"fail", "wait", "finish", "mark", "execute", "complete", "stuck"}
            BY <2>1 DEF AfterMarks, TurnOf
        <2>4. /\ pc' = "fail" => With(task, "failed") # {}
              /\ pc' = "stuck" => With(task, "waiting") = {}
            BY <2>1 DEF AfterMarks, TurnOf
        <2>5. Eligible(task') = {} /\ With(task', "failed") = With(task, "failed")
              /\ With(task', "waiting") = With(task, "waiting")
            BY <2>1, <2>2 DEF Eligible, With
        <2> QED
            BY <2>1, <2>2, <2>3, <2>4, <2>5 DEF AttemptAt
    <1>15. CASE ExecuteStep
        <2>1. pc' = "execute" /\ work' = "executing"
            BY <1>1, <1>15 DEF ExecuteStep, Begin, AgentUnfit, StopForNewApproval, ClaimTask,
               EngineEnds, StepRecorded, RecordThrows, EngineResultLost, ReadRejected,
               FailRejected, At, AttemptAt, Working
        <2> QED
            BY <2>1 DEF AttemptAt, Marking
    <1>16. CASE ReadForFailure
        <2>1. pc' = "giveup"
            BY <1>1, <1>16 DEF ReadForFailure, Goto, RecordsFailureOn, AttemptAt
        <2> QED
            BY <1>2, <2>1 DEF Working
    <1> QED
        BY <1>3, <1>4, <1>5, <1>6, <1>7, <1>8, <1>9, <1>10, <1>11, <1>12, <1>13, <1>14, <1>15,
           <1>16 DEF AttemptStep

(* Without deaths and errors of the worker, and when every step that asks  *)
(* comes before or after every other step, a run that stops because no     *)
(* step is ready leaves none behind it could have gone on with.            *)
THEOREM StuckIsUnresolved ==
    ASSUME MaxFaults = 0, InLine
    PROVE  Spec /\ []Alone => []StuckMeansUnresolved
    <1>1. Init => Asking
        <2> SUFFICES ASSUME Init
                     PROVE  Asking
            OBVIOUS
        <2>1. /\ \A t \in Tasks : task[t].request = None /\ task[t].status = "pending"
              /\ \A c \in Requests : req[c].pc = "idle"
              /\ pc = "idle"
            BY DEF Init, Planned, PlannedRow, NoRequest
        <2>2. NamesOwn /\ AskedWait /\ Passed /\ Unreached
            BY <2>1 DEF NamesOwn, AskedWait, AlreadyAsked, Passed, Unreached, Reached
        <2>3. DecidesWaiting /\ RetriesFailed
            BY <2>1 DEF DecidesWaiting, RetriesFailed
        <2>4. NoneLeftAsked /\ AttemptAt
            BY <2>1 DEF NoneLeftAsked, NoneAsked, AlreadyAsked, AttemptAt, Working, Marking
        <2> QED
            BY <2>2, <2>3, <2>4 DEF Asking
    <1>2. /\ Typed /\ Alone /\ Base /\ Exact /\ CancelGoes /\ QueuedGoes /\ Asking
          /\ [Next]_vars
          => Asking'
        <2> SUFFICES ASSUME Typed, Alone, Base, Exact, CancelGoes, QueuedGoes, Asking,
                            [Next]_vars
                     PROVE  Asking'
            OBVIOUS
        <2>1. NamesOwn' /\ Passed' /\ Unreached' /\ RetriesFailed'
            BY NextNamesOwn, NextPassed, NextUnreached, NextRetriesFailed DEF Asking
        <2>2. AskedWait' /\ DecidesWaiting'
            BY NextAskedWait, NextDecidesWaiting
        <2>3. NoneLeftAsked' /\ AttemptAt'
            BY NextNoneLeftAsked, NextAttemptAt
        <2> QED
            BY <2>1, <2>2, <2>3 DEF Asking
    <1>3. Base /\ Asking => StuckMeansUnresolved
        BY DEF Base, WorkerFresh, CopiesFresh, Turned, Asking, AttemptAt, StuckMeansUnresolved
    <1> QED
        BY <1>1, <1>2, <1>3, TypeCorrect, CopiesStayFresh, DecisionsStayExact, CancellingCloses,
           QueuedStaysTaken, PTL DEF Spec

-----------------------------------------------------------------------------
(* What the runs check, under what their configurations assume: one         *)
(* patient person, who asks for one thing after another.  First with        *)
(* deaths, errors and requests cut short, ...                               *)
COROLLARY CalmMission ==
    ASSUME Patient, NEW c, Requests = {c}, MaxLostWrites = 0,
           Cuttable \cap Deciders = {}, \A t \in Tasks : Deps[t] \cap Asks = {}
    PROVE  Spec => /\ []EngineRunsInTurn /\ []SomeoneToAsk
                   /\ CancelledForGood /\ JobAgreesWithMission
    BY OneAtATime, RunsInTurn, SomeoneIsAsked, CancellingIsTerminal, JobsAgree, PTL

(* ... and without, but with steps that change, task writes the database    *)
(* refuses and requests of any kind cut short; no step is left behind when  *)
(* the plan's asking steps stand in line with all the others.               *)
COROLLARY ExactMission ==
    ASSUME Patient, NEW c, Requests = {c}, MaxFaults = 0
    PROVE  Spec => /\ []RunsWhatWasApproved /\ []EndedIsWhole /\ []QueuedMissionsHaveJobs
                   /\ InLine => []StuckMeansUnresolved
                   /\ CompletedStepsKept
    <1>1. Spec => /\ []RunsWhatWasApproved /\ []EndedIsWhole /\ []QueuedMissionsHaveJobs
                  /\ CompletedStepsKept
        BY OneAtATime, ApprovedAsDescribed, EndsWhole, QueuedHaveJobs, CompletedForGood, PTL
    <1>2. ASSUME InLine
          PROVE  Spec => []StuckMeansUnresolved
        BY <1>2, OneAtATime, StuckIsUnresolved, PTL
    <1> QED
        BY <1>1, <1>2

=============================================================================
