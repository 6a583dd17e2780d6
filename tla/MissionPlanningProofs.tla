------------------------- MODULE MissionPlanningProofs -------------------------
(***************************************************************************)
(* What MissionPlanning keeps for every set of requests and every number   *)
(* of steps, attempts and faults, while people leave scheduled runs to the *)
(* worker, no plan takes too long and nobody asks before those who asked   *)
(* so far were answered.                                                   *)
(*                                                                         *)
(* A mission that was not retried is planned once because whoever may plan *)
(* it holds it alone (Alone, Planners), and whoever writes the copy it     *)
(* read writes what the mission still is (Planners, Runs), but for the     *)
(* planner that cannot put its plan on record: it fails the mission, and   *)
(* only a retry lets a failed mission go on (Off).                         *)
(***************************************************************************)
EXTENDS MissionPlanning, FiniteSetTheorems, TLAPS

USE PlanningAssumption

(* The bounds under which the run looks.                                   *)
Calm == Apart /\ Patient /\ ~SlowPlans

Launches == {"launch", "prepare"}
Busy     == Planning \cup {"planned", "settle"}
Retrying == {"list", "replan", "resume"}
Running  == {"load", "run", "failed"}
Preparing == {"prepare", "listed", "begin"}

(* Those who plan it and have not written the plan yet.                    *)
Drafting == {"read", "mark", "model", "recheck", "create", "finish", "fail"}

(* What failed or was cancelled does not go on unless it is retried.       *)
Off == work.status \in {"failed", "cancelled"}

(* A request is where what it asked for takes it.                          *)
Aimed(c) ==
    /\ c.pc \in Busy \cup Retrying \cup {"idle", "begin", "check", "enqueue", "withdraw", "cancel"}
    /\ c.pc = "begin" => c.op \in Launches
    /\ c.pc \in Busy => c.op \in Launches \cup {"plan"}
    /\ c.pc = "check" => c.op = "start"
    /\ c.pc = "enqueue" => c.op \in {"start", "retry"}
    /\ c.pc \in Retrying => c.op = "retry"
    /\ c.pc \in {"withdraw", "cancel"} => c.op = "cancel"

(* How far a plan is.                                                      *)
Counted(c) ==
    /\ c.pc \in Planning \ {"read", "fail", "lost"} => c.plan \in 1 .. plans
    /\ c.pc \in Preparing \cup {"read", "mark", "model", "recheck"} => c.made = 0
    /\ c.pc = "create" => c.made < PlanSize
    /\ c.pc = "finish" => c.made = PlanSize

WorkerPcs == Planning \cup Preparing \cup Running \cup
             {"idle", "planned", "enter", "start", "threw", "interrupted", "close", "failjob"}

Calls ==
    /\ \A c \in Requests : Aimed(call[c])
    /\ \A c \in Callers : Counted(call[c])
    /\ call[Worker].pc \in WorkerPcs

(* The worker holds the job, and an attempt is left for one that waits.    *)
Job ==
    /\ ~At(Worker, "idle") => queue.status = "running"
    /\ queue.status = "queued" => queue.attempts < MaxAttempts
    /\ starting => \A c \in Requests : At(c, "idle")
    /\ work.stale => work.status = "planning"

(* A person's mission is planned by the API, a scheduled one by the worker.*)
ByOrigin ==
    /\ origin = "person" =>
         /\ queue.reason # "scheduled"
         /\ call[Worker].pc \notin Planning \cup Preparing \cup {"planned", "failjob"}
    /\ origin = "schedule" => \A c \in Requests : call[c].op \notin Launches \cup {"plan"}

(* One request plans, asks for a plan, or cancels.                         *)
Alone ==
    /\ \A c \in Requests : call[c].pc \in Busy /\ call[c].op # "plan" => tracked
    /\ \A c, d \in Requests : call[c].pc \in Busy /\ call[d].pc \in Busy => c = d
    /\ \A c, d \in Requests : call[c].op = "plan" /\ d # c => At(d, "idle")
    /\ \A c, d \in Requests : call[c].op = "cancel" /\ d # c =>
            call[d].pc \in Busy \cup {"idle"} /\ call[d].op \notin {"plan", "cancel"}

(* Whoever cancels a scheduled run took its job away first.                *)
Withdrawn ==
    origin = "schedule" =>
        /\ \A c \in Requests : At(c, "cancel") => queue.status = "idle"
        /\ work.status = "cancelled" => queue.status = "idle" /\ \A c \in Requests : At(c, "idle")

(* The plan of a mission nobody retried, and the steps there are.          *)
Plan ==
    /\ work.plan => Whole(steps)
    /\ \E p \in Nat : steps \subseteq {p} \X (1 .. PlanSize)
    /\ work.status = "queued" /\ ~work.plan => steps = {}
    /\ work.status = "executing" => work.plan
    /\ queue.status # "idle" /\ queue.reason # "scheduled" => work.plan \/ Off

(* The requests that do not plan it, or do no more than record its plan.   *)
Asked ==
    /\ \A c \in Requests :
        /\ At(c, "begin") => work.status \in {"queued", "planning", "failed"}
        /\ At(c, "begin") => steps = {} /\ (work.status # "queued" \/ ~work.plan)
        /\ At(c, "check") => steps = {} \/ work.plan \/ Off
        /\ At(c, "enqueue") => work.plan \/ Off
        /\ call[c].pc \in {"withdraw", "cancel"} =>
              /\ call[c].copy.plan => Whole(steps) /\ (work.plan \/ Off)
              /\ \A d \in Requests : call[d].pc \notin Drafting
    /\ \A c \in Callers :
        /\ call[c].pc \in {"record", "undo", "planned"} => work.plan \/ Off
        /\ call[c].pc \in {"record", "undo"} => ~call[c].copy.plan

PlanOf(c) == {c.plan} \X (1 .. c.made)

Asking(c) == c \in Requests /\ call[c].op = "plan" /\ call[c].pc \in {"read", "mark"}

(* Whoever plans it.                                                       *)
Planners ==
    \A c \in Callers : call[c].pc \in Drafting =>
        /\ work.status = (IF Asking(c) THEN "queued" ELSE "planning")
        /\ ~work.plan
        /\ c \in Requests => ~work.stale
        /\ call[c].pc = "mark" => Asking(c)
        /\ call[c].pc # "read" => ~call[c].copy.plan
        /\ call[c].pc \in {"read", "mark", "model", "recheck"} => steps = {}
        /\ call[c].pc \in {"create", "finish"} => steps = PlanOf(call[c])
        /\ call[c].pc \in {"recheck", "create", "finish"} =>
              \A d \in Unanswered : call[d].op = "cancel"

(* The worker that prepares or executes it.                                *)
Runs ==
    LET w == call[Worker]
    IN /\ w.pc \in {"listed", "begin"} =>
              w.copy.status \in {"queued", "planning"} /\ work.status = w.copy.status
       /\ w.pc = "begin" => work.status = "queued" /\ steps = {}
       /\ w.pc = "enter" /\ work.status = "queued" => work.plan
       /\ w.pc \in Running \cup {"start"} => w.copy.plan /\ Whole(steps)
       /\ w.pc = "start" => (work.status = "queued" /\ work.plan) \/ Off
       /\ w.pc \in Running => work.status = "executing" \/ Off

First == ~retried => Plan /\ Asked /\ Planners /\ Runs

(* Nothing is retried, and nobody asks for what is not asked for.          *)
Asks ==
    /\ origin \in Origins
    /\ retried => "retry" \in Ops
    /\ \A c \in Requests : ~At(c, "idle") => call[c].op \in Ops

IInv == TypeOK /\ Calls /\ Job /\ ByOrigin /\ Alone /\ Withdrawn /\ Asks /\ First

(* Calls, as TypeOK has them.                                              *)
Pcs == Planning \cup {"idle", "begin", "planned", "settle", "check",
           "enqueue", "list", "replan", "resume", "withdraw", "cancel",
           "prepare", "listed", "enter", "start", "load", "run", "failed",
           "threw", "interrupted", "close", "failjob"}

Calling == [op: Ops \cup {"none", "requested", "retry", "scheduled"}, pc: Pcs, copy: Row,
            plan: 0 .. plans, made: 0 .. PlanSize]

USE DEF Planning, Drafting, Off, Preparing, Running, Retrying, Launches, Busy, Callers, At, Pcs

-----------------------------------------------------------------------------
(* Calls.                                                                  *)

(* What the types say of the parts.                                        *)
LEMMA Parts ==
    ASSUME TypeOK
    PROVE  /\ origin \in {"person", "schedule"} /\ work \in Row
           /\ tracked \in BOOLEAN /\ plans \in Nat
           /\ call \in [Callers -> Calling] /\ NoCall \in Calling /\ NewWork \in Row
           /\ queue \in [status: {"idle", "queued", "running"},
                         reason: {"none", "requested", "retry", "scheduled"},
                         attempts: 0 .. MaxAttempts]
    <1>1. NewWork \in Row
        BY DEF NewWork, Row, Statuses, Ended
    <1>2. call \in [Callers -> Calling] /\ plans \in Nat
        BY DEF TypeOK, Calling
    <1>3. NoCall \in Calling
        BY <1>1, <1>2 DEF NoCall, Calling
    <1> QED
        BY <1>1, <1>2, <1>3 DEF TypeOK

(* Writing one call leaves the others, and the types.                      *)
LEMMA OneCall ==
    ASSUME TypeOK, NEW c \in Callers, NEW r \in Calling', Becomes(c, r), plans' \in {plans, plans + 1}
    PROVE  /\ call' \in [Callers -> Calling'] /\ call'[c] = r
           /\ \A d \in Callers \ {c} : call'[d] = call[d]
    <1>1. Calling \subseteq Calling'
        BY DEF TypeOK, Calling, Row
    <1> QED
        BY <1>1, Parts DEF Becomes

(* What is written over the mission.                                       *)
LEMMA RowWritten ==
    ASSUME NEW w \in Row, NEW s \in Statuses, Writes([w EXCEPT !.status = s])
    PROVE  work' \in Row /\ work'.status = s /\ ~work'.stale /\ work'.plan = w.plan
    BY DEF Writes, Row

(* A whole plan has steps.                                                 *)
LEMMA WholeHasSteps ==
    ASSUME TypeOK, Whole(steps)
    PROVE  steps # {}
    <1>1. PICK p \in 1 .. plans : steps = {p} \X (1 .. PlanSize)
        BY DEF Whole
    <1>2. <<p, 1>> \in {p} \X (1 .. PlanSize)
        OBVIOUS
    <1> QED
        BY <1>1, <1>2

(* A mission being planned is read to be planned.                          *)
LEMMA ReadPlanningKeeps ==
    ASSUME Calm, IInv, NEW c \in Callers, ReadForPlan(c), work.status = "planning"
    PROVE  IInv'
    <1> DEFINE r == [call[c] EXCEPT !.pc = "model", !.copy = work, !.plan = plans + 1]
    <1>1. TypeOK /\ c \in Callers
        BY DEF IInv
    <1>2. plans' \in {plans, plans + 1} /\ Becomes(c, r)
        BY DEF ReadForPlan, Bounds
    <1>3. r \in Calling'
        <2>1. call[c] \in Calling /\ work \in Row /\ plans \in Nat /\ plans' = plans + 1
            BY <1>1, Parts DEF ReadForPlan
        <2>2. r.plan \in 0 .. plans' /\ r = [call[c] EXCEPT !.pc = r.pc, !.copy = work,
                                              !.plan = r.plan] /\ r.pc \in Pcs
            BY <2>1 DEF Calling
        <2> HIDE DEF r
        <2> QED
            BY <2>1, <2>2 DEF Calling
    <1>4. call' \in [Callers -> Calling'] /\ call'[c] = r
              /\ \A d \in Callers \ {c} : call'[d] = call[d]
        <2> HIDE DEF r
        <2> QED BY <1>1, <1>2, <1>3, OneCall
    <1>5. /\ r.pc = "model" /\ r.op = call[c].op
          /\ r.copy = work /\ r.plan = plans + 1 /\ r.made = call[c].made
          /\ call[c].pc = "read"
        BY <1>1, Parts DEF Calling, Calm, ReadForPlan, Bounds
    <1>6. /\ UNCHANGED <<origin, retried, work, steps, queue, tracked, starting, made, faults>>
          /\ plans' = plans + 1
        BY <1>1, Parts DEF rows, Calm, Calling, Row, Statuses, Ended, ReadForPlan, Bounds
    <1> HIDE DEF r
    <1>7. TypeOK'
        BY <1>1, <1>4, <1>6, Parts DEF TypeOK, Calling
    <1>8. (Calls /\ Job /\ ByOrigin /\ Withdrawn)'
        BY <1>1, <1>4, <1>5, <1>6, Parts DEF IInv, Calls, Aimed, Counted, WorkerPcs, Job, ByOrigin,
           Withdrawn, Alone
    <1>9. (Alone /\ Asks)'
        BY <1>1, <1>4, <1>5, <1>6, Parts DEF IInv, Alone, Calls, Aimed, Asks
    <1>10. First'
        <2> SUFFICES ASSUME ~retried', ~retried PROVE (Plan /\ Asked /\ Planners /\ Runs)'
            BY <1>4, <1>5, <1>6 DEF First, IInv
        <2>1. (Plan /\ Asked)'
            BY <1>1, <1>4, <1>5, <1>6, Parts DEF IInv, First, Plan, Asked, Planners, Runs, Job,
               ByOrigin, Alone, Calls, Aimed, Asking, Withdrawn, Whole, Unanswered
        <2>2. Planners'
            BY <1>1, <1>4, <1>5, <1>6, Parts DEF IInv, First, Plan, Asked, Planners, Runs, Job,
               ByOrigin, Alone, Calls, Aimed, Asking, Withdrawn, Unanswered
        <2>3. Runs'
            BY <1>1, <1>4, <1>5, <1>6, Parts DEF IInv, First, Plan, Asked, Planners, Runs, Job,
               ByOrigin, Alone, Calls, Aimed, Asking, Withdrawn, WorkerPcs, Whole
        <2> QED BY <2>1, <2>2, <2>3
    <1> QED
        BY <1>7, <1>8, <1>9, <1>10 DEF IInv

(* A waiting mission is read to be planned.                                *)
LEMMA ReadQueuedKeeps ==
    ASSUME Calm, IInv, NEW c \in Callers, ReadForPlan(c), work.status = "queued"
    PROVE  IInv'
    <1> DEFINE r == [call[c] EXCEPT !.pc = "mark", !.copy = work, !.plan = plans + 1]
    <1>1. TypeOK /\ c \in Callers
        BY DEF IInv
    <1>2. plans' \in {plans, plans + 1} /\ Becomes(c, r)
        BY DEF ReadForPlan, Bounds
    <1>3. r \in Calling'
        <2>1. call[c] \in Calling /\ work \in Row /\ plans \in Nat /\ plans' = plans + 1
            BY <1>1, Parts DEF ReadForPlan
        <2>2. r.plan \in 0 .. plans' /\ r = [call[c] EXCEPT !.pc = r.pc, !.copy = work,
                                              !.plan = r.plan] /\ r.pc \in Pcs
            BY <2>1 DEF Calling
        <2> HIDE DEF r
        <2> QED
            BY <2>1, <2>2 DEF Calling
    <1>4. call' \in [Callers -> Calling'] /\ call'[c] = r
              /\ \A d \in Callers \ {c} : call'[d] = call[d]
        <2> HIDE DEF r
        <2> QED BY <1>1, <1>2, <1>3, OneCall
    <1>5. /\ r.pc = "mark" /\ r.op = call[c].op
          /\ r.copy = work /\ r.plan = plans + 1 /\ r.made = call[c].made
          /\ call[c].pc = "read"
        BY <1>1, Parts DEF Calling, Calm, ReadForPlan, Bounds
    <1>6. /\ UNCHANGED <<origin, retried, work, steps, queue, tracked, starting, made, faults>>
          /\ plans' = plans + 1
        BY <1>1, Parts DEF rows, Calm, Calling, Row, Statuses, Ended, ReadForPlan, Bounds
    <1> HIDE DEF r
    <1>7. TypeOK'
        BY <1>1, <1>4, <1>6, Parts DEF TypeOK, Calling
    <1>8. (Calls /\ Job /\ ByOrigin /\ Withdrawn)'
        BY <1>1, <1>4, <1>5, <1>6, Parts DEF IInv, Calls, Aimed, Counted, WorkerPcs, Job, ByOrigin,
           Withdrawn, Alone
    <1>9. (Alone /\ Asks)'
        BY <1>1, <1>4, <1>5, <1>6, Parts DEF IInv, Alone, Calls, Aimed, Asks
    <1>10. First'
        <2> SUFFICES ASSUME ~retried', ~retried PROVE (Plan /\ Asked /\ Planners /\ Runs)'
            BY <1>4, <1>5, <1>6 DEF First, IInv
        <2>1. (Plan /\ Asked)'
            BY <1>1, <1>4, <1>5, <1>6, Parts DEF IInv, First, Plan, Asked, Planners, Runs, Job,
               ByOrigin, Alone, Calls, Aimed, Asking, Withdrawn, Whole, Unanswered
        <2>2. Planners'
            BY <1>1, <1>4, <1>5, <1>6, Parts DEF IInv, First, Plan, Asked, Planners, Runs, Job,
               ByOrigin, Alone, Calls, Aimed, Asking, Withdrawn, Unanswered
        <2>3. Runs'
            BY <1>1, <1>4, <1>5, <1>6, Parts DEF IInv, First, Plan, Asked, Planners, Runs, Job,
               ByOrigin, Alone, Calls, Aimed, Asking, Withdrawn, WorkerPcs, Whole
        <2> QED BY <2>1, <2>2, <2>3
    <1> QED
        BY <1>7, <1>8, <1>9, <1>10 DEF IInv

(* Any other mission is not planned.                                       *)
LEMMA ReadRefusedKeeps ==
    ASSUME Calm, IInv, NEW c \in Callers, ReadForPlan(c), work.status \notin {"planning", "queued"}
    PROVE  IInv'
    <1> DEFINE r == [call[c] EXCEPT !.pc = (IF c = Worker THEN "failjob" ELSE "settle")]
    <1>1. TypeOK /\ c \in Callers
        BY DEF IInv
    <1>2. plans' \in {plans, plans + 1} /\ Becomes(c, r)
        BY DEF ReadForPlan, PlanRefused, Goto, Bounds
    <1>3. r \in Calling'
        BY <1>1, <1>2, Parts DEF Calling, ReadForPlan, PlanRefused, Goto, Bounds
    <1>4. call' \in [Callers -> Calling'] /\ call'[c] = r
              /\ \A d \in Callers \ {c} : call'[d] = call[d]
        <2> HIDE DEF r
        <2> QED BY <1>1, <1>2, <1>3, OneCall
    <1>5. /\ r.pc = (IF c = Worker THEN "failjob" ELSE "settle") /\ r.op = call[c].op
          /\ r.copy = call[c].copy /\ r.plan = call[c].plan /\ r.made = call[c].made
          /\ call[c].pc = "read"
        BY <1>1, Parts DEF Calling, Calm, ReadForPlan, PlanRefused, Goto, Bounds
    <1>6. /\ UNCHANGED <<origin, retried, work, steps, queue, tracked, plans, starting, made, faults>>
        BY <1>1, Parts DEF rows, Calm, Calling, Row, Statuses, Ended, ReadForPlan, PlanRefused,
           Goto, Bounds
    <1> HIDE DEF r
    <1>7. TypeOK'
        BY <1>1, <1>4, <1>6, Parts DEF TypeOK, Calling
    <1>8. (Calls /\ Job /\ ByOrigin /\ Withdrawn)'
        BY <1>1, <1>4, <1>5, <1>6, Parts DEF IInv, Calls, Aimed, Counted, WorkerPcs, Job, ByOrigin,
           Withdrawn, Alone
    <1>9. (Alone /\ Asks)'
        BY <1>1, <1>4, <1>5, <1>6, Parts DEF IInv, Alone, Calls, Aimed, Asks
    <1>10. First'
        <2> SUFFICES ASSUME ~retried', ~retried PROVE (Plan /\ Asked /\ Planners /\ Runs)'
            BY <1>4, <1>5, <1>6 DEF First, IInv
        <2>1. (Plan /\ Asked)'
            BY <1>1, <1>4, <1>5, <1>6, Parts DEF IInv, First, Plan, Asked, Planners, Runs, Job,
               ByOrigin, Alone, Calls, Aimed, Asking, Withdrawn, Whole, Unanswered
        <2>2. Planners'
            BY <1>1, <1>4, <1>5, <1>6, Parts DEF IInv, First, Plan, Asked, Planners, Runs, Job,
               ByOrigin, Alone, Calls, Aimed, Asking, Withdrawn, Unanswered
        <2>3. Runs'
            BY <1>1, <1>4, <1>5, <1>6, Parts DEF IInv, First, Plan, Asked, Planners, Runs, Job,
               ByOrigin, Alone, Calls, Aimed, Asking, Withdrawn, WorkerPcs, Whole
        <2> QED BY <2>1, <2>2, <2>3
    <1> QED
        BY <1>7, <1>8, <1>9, <1>10 DEF IInv

(* The mission is marked as being planned.                                 *)
LEMMA MarkPlanningKeeps ==
    ASSUME Calm, IInv, NEW c \in Callers, MarkPlanning(c)
    PROVE  IInv'
    <1> DEFINE r == [call[c] EXCEPT !.pc = "model"]
    <1>1. TypeOK /\ c \in Callers
        BY DEF IInv
    <1>2. plans' \in {plans, plans + 1} /\ Becomes(c, r)
        BY DEF MarkPlanning, Goto, Writes, Bounds
    <1>3. r \in Calling'
        BY <1>1, <1>2, Parts DEF Calling, MarkPlanning, Goto, Writes, Bounds
    <1>4. call' \in [Callers -> Calling'] /\ call'[c] = r
              /\ \A d \in Callers \ {c} : call'[d] = call[d]
        <2> HIDE DEF r
        <2> QED BY <1>1, <1>2, <1>3, OneCall
    <1>5. /\ r.pc = "model" /\ r.op = call[c].op
          /\ r.copy = call[c].copy /\ r.plan = call[c].plan /\ r.made = call[c].made
          /\ call[c].pc = "mark"
        BY <1>1, Parts DEF Calling, Calm, MarkPlanning, Goto, Writes, Bounds
    <1>6. /\ UNCHANGED <<origin, retried, steps, queue, tracked, plans, starting, made, faults>>
          /\ work' \in Row /\ work'.status = "planning" /\ ~work'.stale
          /\ work'.plan = call[c].copy.plan
        BY <1>1, Parts DEF rows, Calm, Calling, Row, Statuses, Ended, MarkPlanning, Goto, Writes,
           Bounds
    <1> HIDE DEF r
    <1>7. TypeOK'
        BY <1>1, <1>4, <1>6, Parts DEF TypeOK, Calling
    <1>8. (Calls /\ Job /\ ByOrigin /\ Withdrawn)'
        BY <1>1, <1>4, <1>5, <1>6, Parts DEF IInv, Calls, Aimed, Counted, WorkerPcs, Job, ByOrigin,
           Withdrawn, Alone
    <1>9. (Alone /\ Asks)'
        BY <1>1, <1>4, <1>5, <1>6, Parts DEF IInv, Alone, Calls, Aimed, Asks
    <1>10. First'
        <2> SUFFICES ASSUME ~retried', ~retried PROVE (Plan /\ Asked /\ Planners /\ Runs)'
            BY <1>4, <1>5, <1>6 DEF First, IInv
        <2>1. (Plan /\ Asked)'
            BY <1>1, <1>4, <1>5, <1>6, Parts DEF IInv, First, Plan, Asked, Planners, Runs, Job,
               ByOrigin, Alone, Calls, Aimed, Asking, Withdrawn, Whole, Unanswered
        <2>2. Planners'
            BY <1>1, <1>4, <1>5, <1>6, Parts DEF IInv, First, Plan, Asked, Planners, Runs, Job,
               ByOrigin, Alone, Calls, Aimed, Asking, Withdrawn, Unanswered
        <2>3. Runs'
            BY <1>1, <1>4, <1>5, <1>6, Parts DEF IInv, First, Plan, Asked, Planners, Runs, Job,
               ByOrigin, Alone, Calls, Aimed, Asking, Withdrawn, WorkerPcs, Whole
        <2> QED BY <2>1, <2>2, <2>3
    <1> QED
        BY <1>7, <1>8, <1>9, <1>10 DEF IInv

(* The planner answers.                                                    *)
LEMMA AskModelKeeps ==
    ASSUME Calm, IInv, NEW c \in Callers, AskModel(c)
    PROVE  IInv'
    <1> DEFINE r == [call[c] EXCEPT !.pc = "recheck"]
    <1>1. TypeOK /\ c \in Callers
        BY DEF IInv
    <1>2. plans' \in {plans, plans + 1} /\ Becomes(c, r)
        BY DEF AskModel, Goto, Bounds
    <1>3. r \in Calling'
        BY <1>1, <1>2, Parts DEF Calling, AskModel, Goto, Bounds
    <1>4. call' \in [Callers -> Calling'] /\ call'[c] = r
              /\ \A d \in Callers \ {c} : call'[d] = call[d]
        <2> HIDE DEF r
        <2> QED BY <1>1, <1>2, <1>3, OneCall
    <1>5. /\ r.pc = "recheck" /\ r.op = call[c].op
          /\ r.copy = call[c].copy /\ r.plan = call[c].plan /\ r.made = call[c].made
          /\ call[c].pc = "model"
        BY <1>1, Parts DEF Calling, Calm, AskModel, Goto, Bounds
    <1>6. /\ UNCHANGED <<origin, retried, work, steps, queue, tracked, plans, starting, made, faults>>
          /\ Unanswered = {}
        BY <1>1, Parts DEF rows, Calm, Calling, Row, Statuses, Ended, AskModel, Goto, Bounds
    <1> HIDE DEF r
    <1>7. TypeOK'
        BY <1>1, <1>4, <1>6, Parts DEF TypeOK, Calling
    <1>8. (Calls /\ Job /\ ByOrigin /\ Withdrawn)'
        BY <1>1, <1>4, <1>5, <1>6, Parts DEF IInv, Calls, Aimed, Counted, WorkerPcs, Job, ByOrigin,
           Withdrawn, Alone
    <1>9. (Alone /\ Asks)'
        BY <1>1, <1>4, <1>5, <1>6, Parts DEF IInv, Alone, Calls, Aimed, Asks
    <1>10. First'
        <2> SUFFICES ASSUME ~retried', ~retried PROVE (Plan /\ Asked /\ Planners /\ Runs)'
            BY <1>4, <1>5, <1>6 DEF First, IInv
        <2>1. (Plan /\ Asked)'
            BY <1>1, <1>4, <1>5, <1>6, Parts DEF IInv, First, Plan, Asked, Planners, Runs, Job,
               ByOrigin, Alone, Calls, Aimed, Asking, Withdrawn, Whole, Unanswered
        <2>2. Planners'
            BY <1>1, <1>4, <1>5, <1>6, Parts DEF IInv, First, Plan, Asked, Planners, Runs, Job,
               ByOrigin, Alone, Calls, Aimed, Asking, Withdrawn, Unanswered
        <2>3. Runs'
            BY <1>1, <1>4, <1>5, <1>6, Parts DEF IInv, First, Plan, Asked, Planners, Runs, Job,
               ByOrigin, Alone, Calls, Aimed, Asking, Withdrawn, WorkerPcs, Whole
        <2> QED BY <2>1, <2>2, <2>3
    <1> QED
        BY <1>7, <1>8, <1>9, <1>10 DEF IInv

(* A mission still being planned goes on.                                  *)
LEMMA RecheckKeeps ==
    ASSUME Calm, IInv, NEW c \in Callers, Recheck(c), work.status = "planning"
    PROVE  IInv'
    <1> DEFINE r == [call[c] EXCEPT !.pc = "create"]
    <1>1. TypeOK /\ c \in Callers
        BY DEF IInv
    <1>2. plans' \in {plans, plans + 1} /\ Becomes(c, r)
        BY DEF Recheck, Goto, Bounds
    <1>3. r \in Calling'
        BY <1>1, <1>2, Parts DEF Calling, Recheck, Goto, Bounds
    <1>4. call' \in [Callers -> Calling'] /\ call'[c] = r
              /\ \A d \in Callers \ {c} : call'[d] = call[d]
        <2> HIDE DEF r
        <2> QED BY <1>1, <1>2, <1>3, OneCall
    <1>5. /\ r.pc = "create" /\ r.op = call[c].op
          /\ r.copy = call[c].copy /\ r.plan = call[c].plan /\ r.made = call[c].made
          /\ call[c].pc = "recheck"
        BY <1>1, Parts DEF Calling, Calm, Recheck, Goto, Bounds
    <1>6. /\ UNCHANGED <<origin, retried, work, steps, queue, tracked, plans, starting, made, faults>>
        BY <1>1, Parts DEF rows, Calm, Calling, Row, Statuses, Ended, Recheck, Goto, Bounds
    <1> HIDE DEF r
    <1>7. TypeOK'
        BY <1>1, <1>4, <1>6, Parts DEF TypeOK, Calling
    <1>8. (Calls /\ Job /\ ByOrigin /\ Withdrawn)'
        BY <1>1, <1>4, <1>5, <1>6, Parts DEF IInv, Calls, Aimed, Counted, WorkerPcs, Job, ByOrigin,
           Withdrawn, Alone
    <1>9. (Alone /\ Asks)'
        BY <1>1, <1>4, <1>5, <1>6, Parts DEF IInv, Alone, Calls, Aimed, Asks
    <1>10. First'
        <2> SUFFICES ASSUME ~retried', ~retried PROVE (Plan /\ Asked /\ Planners /\ Runs)'
            BY <1>4, <1>5, <1>6 DEF First, IInv
        <2>1. (Plan /\ Asked)'
            BY <1>1, <1>4, <1>5, <1>6, Parts DEF IInv, First, Plan, Asked, Planners, Runs, Job,
               ByOrigin, Alone, Calls, Aimed, Asking, Withdrawn, Whole, Unanswered
        <2>2. Planners'
            <3>1. {r.plan} \X (1 .. r.made) = {}
                BY <1>5 DEF IInv, Calls, Counted
            <3> QED
                BY <1>1, <1>4, <1>5, <1>6, <3>1, Parts DEF IInv, First, Plan, Planners, ByOrigin,
                   Alone, Calls, Aimed, Asking, Unanswered, PlanOf
        <2>3. Runs'
            BY <1>1, <1>4, <1>5, <1>6, Parts DEF IInv, First, Plan, Asked, Planners, Runs, Job,
               ByOrigin, Alone, Calls, Aimed, Asking, Withdrawn, WorkerPcs, Whole
        <2> QED BY <2>1, <2>2, <2>3
    <1> QED
        BY <1>7, <1>8, <1>9, <1>10 DEF IInv

(* One that is not is left.                                                *)
LEMMA RecheckLeavesKeeps ==
    ASSUME Calm, IInv, NEW c \in Callers, Recheck(c), work.status # "planning"
    PROVE  IInv'
    <1> DEFINE r == [call[c] EXCEPT !.pc = "planned", !.copy = work]
    <1>1. TypeOK /\ c \in Callers
        BY DEF IInv
    <1>2. plans' \in {plans, plans + 1} /\ Becomes(c, r)
        BY DEF Recheck, Bounds
    <1>3. r \in Calling'
        BY <1>1, <1>2, Parts DEF Calling, Recheck, Bounds
    <1>4. call' \in [Callers -> Calling'] /\ call'[c] = r
              /\ \A d \in Callers \ {c} : call'[d] = call[d]
        <2> HIDE DEF r
        <2> QED BY <1>1, <1>2, <1>3, OneCall
    <1>5. /\ r.pc = "planned" /\ r.op = call[c].op
          /\ r.copy = work /\ r.plan = call[c].plan /\ r.made = call[c].made
          /\ call[c].pc = "recheck"
        BY <1>1, Parts DEF Calling, Calm, Recheck, Bounds
    <1>6. /\ UNCHANGED <<origin, retried, work, steps, queue, tracked, plans, starting, made, faults>>
        BY <1>1, Parts DEF rows, Calm, Calling, Row, Statuses, Ended, Recheck, Bounds
    <1> HIDE DEF r
    <1>7. TypeOK'
        BY <1>1, <1>4, <1>6, Parts DEF TypeOK, Calling
    <1>8. (Calls /\ Job /\ ByOrigin /\ Withdrawn)'
        BY <1>1, <1>4, <1>5, <1>6, Parts DEF IInv, Calls, Aimed, Counted, WorkerPcs, Job, ByOrigin,
           Withdrawn, Alone
    <1>9. (Alone /\ Asks)'
        BY <1>1, <1>4, <1>5, <1>6, Parts DEF IInv, Alone, Calls, Aimed, Asks
    <1>10. First'
        <2> SUFFICES ASSUME ~retried', ~retried PROVE (Plan /\ Asked /\ Planners /\ Runs)'
            BY <1>4, <1>5, <1>6 DEF First, IInv
        <2>1. (Plan /\ Asked)'
            BY <1>1, <1>4, <1>5, <1>6, Parts DEF IInv, First, Plan, Asked, Planners, Runs, Job,
               ByOrigin, Alone, Calls, Aimed, Asking, Withdrawn, Whole, Unanswered
        <2>2. Planners'
            BY <1>1, <1>4, <1>5, <1>6, Parts DEF IInv, First, Plan, Asked, Planners, Runs, Job,
               ByOrigin, Alone, Calls, Aimed, Asking, Withdrawn, Unanswered
        <2>3. Runs'
            BY <1>1, <1>4, <1>5, <1>6, Parts DEF IInv, First, Plan, Asked, Planners, Runs, Job,
               ByOrigin, Alone, Calls, Aimed, Asking, Withdrawn, WorkerPcs, Whole
        <2> QED BY <2>1, <2>2, <2>3
    <1> QED
        BY <1>7, <1>8, <1>9, <1>10 DEF IInv

(* A step is created.                                                      *)
LEMMA CreateStepKeeps ==
    ASSUME Calm, IInv, NEW c \in Callers, CreateStep(c)
    PROVE  IInv'
    <1> DEFINE r == [call[c] EXCEPT !.made = call[c].made + 1, !.pc = AfterStep(call[c].made + 1)]
    <1>1. TypeOK /\ c \in Callers
        BY DEF IInv
    <1>2. plans' \in {plans, plans + 1} /\ Becomes(c, r)
        BY DEF CreateStep, AfterStep, Bounds
    <1>3. r \in Calling'
        <2>1. call[c] \in Calling /\ plans' = plans /\ call[c].made \in 0 .. PlanSize - 1
            BY <1>1, Parts DEF CreateStep, Bounds, IInv, Calls, Counted, Calling
        <2>2. /\ r.made \in 0 .. PlanSize /\ r.pc \in Pcs
              /\ r = [call[c] EXCEPT !.pc = r.pc, !.made = r.made]
            <3>1. r.made = call[c].made + 1 /\ r.pc = AfterStep(r.made)
                      /\ r = [call[c] EXCEPT !.pc = r.pc, !.made = r.made]
                BY <2>1 DEF Calling
            <3> HIDE DEF r
            <3> QED
                BY <2>1, <3>1 DEF AfterStep
        <2> HIDE DEF r
        <2> QED
            BY <2>1, <2>2 DEF Calling
    <1>4. call' \in [Callers -> Calling'] /\ call'[c] = r
              /\ \A d \in Callers \ {c} : call'[d] = call[d]
        <2> HIDE DEF r
        <2> QED BY <1>1, <1>2, <1>3, OneCall
    <1>5. /\ r.pc = (IF r.made < PlanSize THEN "create" ELSE "finish") /\ r.op = call[c].op
          /\ r.copy = call[c].copy /\ r.plan = call[c].plan /\ r.made = call[c].made + 1
          /\ call[c].pc = "create"
          /\ call[c].plan \in 1 .. plans /\ call[c].made \in 0 .. PlanSize - 1
        BY <1>1, Parts DEF IInv, Calls, Counted, Calling, CreateStep, AfterStep
    <1>6. /\ UNCHANGED <<origin, retried, work, queue, tracked, plans, starting, made, faults>>
          /\ steps' = steps \cup {<<call[c].plan, call[c].made + 1>>}
        BY <1>1, Parts DEF rows, Calm, Calling, Row, Statuses, Ended, CreateStep, AfterStep, Bounds
    <1> HIDE DEF r
    <1>7. TypeOK'
        BY <1>1, <1>4, <1>6, Parts, <1>5 DEF TypeOK, Calling
    <1>8. (Calls /\ Job /\ ByOrigin /\ Withdrawn)'
        BY <1>1, <1>4, <1>5, <1>6, Parts DEF IInv, Calls, Aimed, Counted, WorkerPcs, Job, ByOrigin,
           Withdrawn, Alone
    <1>9. (Alone /\ Asks)'
        BY <1>1, <1>4, <1>5, <1>6, Parts DEF IInv, Alone, Calls, Aimed, Asks
    <1>10. First'
        <2> SUFFICES ASSUME ~retried', ~retried PROVE (Plan /\ Asked /\ Planners /\ Runs)'
            BY <1>4, <1>5, <1>6 DEF First, IInv
        <2>1. (Plan /\ Asked)'
            BY <1>1, <1>4, <1>5, <1>6, Parts DEF IInv, First, Plan, Asked, Planners, Runs, Job,
               ByOrigin, Alone, Calls, Aimed, Asking, Withdrawn, Whole, Unanswered, PlanOf
        <2>2. Planners'
            BY <1>1, <1>4, <1>5, <1>6, Parts DEF IInv, First, Plan, Asked, Planners, Runs, Job,
               ByOrigin, Alone, Calls, Aimed, Asking, Withdrawn, Unanswered, PlanOf
        <2>3. Runs'
            BY <1>1, <1>4, <1>5, <1>6, Parts DEF IInv, First, Plan, Asked, Planners, Runs, Job,
               ByOrigin, Alone, Calls, Aimed, Asking, Withdrawn, WorkerPcs, Whole
        <2> QED BY <2>1, <2>2, <2>3
    <1> QED
        BY <1>7, <1>8, <1>9, <1>10 DEF IInv

(* The mission is written with its plan.                                   *)
LEMMA FinishPlanKeeps ==
    ASSUME Calm, IInv, NEW c \in Callers, FinishPlan(c)
    PROVE  IInv'
    <1> DEFINE r == [call[c] EXCEPT !.pc = "record"]
    <1>1. TypeOK /\ c \in Callers
        BY DEF IInv
    <1>2. plans' \in {plans, plans + 1} /\ Becomes(c, r)
        BY DEF FinishPlan, Goto, Writes, Bounds
    <1>3. r \in Calling'
        BY <1>1, <1>2, Parts DEF Calling, FinishPlan, Goto, Writes, Bounds
    <1>4. call' \in [Callers -> Calling'] /\ call'[c] = r
              /\ \A d \in Callers \ {c} : call'[d] = call[d]
        <2> HIDE DEF r
        <2> QED BY <1>1, <1>2, <1>3, OneCall
    <1>5. /\ r.pc = "record" /\ r.op = call[c].op
          /\ r.copy = call[c].copy /\ r.plan = call[c].plan /\ r.made = call[c].made
          /\ call[c].pc = "finish"
        BY <1>1, Parts DEF Calling, Calm, FinishPlan, Goto, Writes, Bounds
    <1>6. /\ UNCHANGED <<origin, retried, steps, queue, tracked, plans, starting, made, faults>>
          /\ work' \in Row /\ work'.status = "queued" /\ ~work'.stale
          /\ work'.plan = TRUE
        BY <1>1, Parts DEF rows, Calm, Calling, Row, Statuses, Ended, FinishPlan, Planned, Writes,
           Bounds
    <1> HIDE DEF r
    <1>7. TypeOK'
        BY <1>1, <1>4, <1>6, Parts DEF TypeOK, Calling
    <1>8. (Calls /\ Job /\ ByOrigin /\ Withdrawn)'
        BY <1>1, <1>4, <1>5, <1>6, Parts DEF IInv, Calls, Aimed, Counted, WorkerPcs, Job, ByOrigin,
           Withdrawn, Alone
    <1>9. (Alone /\ Asks)'
        BY <1>1, <1>4, <1>5, <1>6, Parts DEF IInv, Alone, Calls, Aimed, Asks
    <1>10. First'
        <2> SUFFICES ASSUME ~retried', ~retried PROVE (Plan /\ Asked /\ Planners /\ Runs)'
            BY <1>4, <1>5, <1>6 DEF First, IInv
        <2>1. (Plan /\ Asked)'
            BY <1>1, <1>4, <1>5, <1>6, Parts DEF IInv, First, Plan, Asked, Planners, Runs, Job,
               ByOrigin, Alone, Calls, Aimed, Asking, Withdrawn, Whole, Unanswered, PlanOf, Calls,
               Counted
        <2>2. Planners'
            BY <1>1, <1>4, <1>5, <1>6, Parts DEF IInv, First, Plan, Asked, Planners, Runs, Job,
               ByOrigin, Alone, Calls, Aimed, Asking, Withdrawn, Unanswered
        <2>3. Runs'
            BY <1>1, <1>4, <1>5, <1>6, Parts DEF IInv, First, Plan, Asked, Planners, Runs, Job,
               ByOrigin, Alone, Calls, Aimed, Asking, Withdrawn, WorkerPcs, Whole
        <2> QED BY <2>1, <2>2, <2>3
    <1> QED
        BY <1>7, <1>8, <1>9, <1>10 DEF IInv

(* The plan is put on record.                                              *)
LEMMA RecordPlanKeeps ==
    ASSUME Calm, IInv, NEW c \in Callers, RecordPlan(c)
    PROVE  IInv'
    <1> DEFINE r == [call[c] EXCEPT !.pc = "planned", !.copy = Planned(call[c].copy)]
    <1>1. TypeOK /\ c \in Callers
        BY DEF IInv
    <1>2. plans' \in {plans, plans + 1} /\ Becomes(c, r)
        BY DEF RecordPlan, Bounds
    <1>3. r \in Calling'
        <2>1. call[c] \in Calling /\ call[c].copy \in Row /\ Calling \subseteq Calling'
            BY <1>1, <1>2, Parts DEF Calling
        <2>2. Planned(call[c].copy) \in Row
            BY <2>1 DEF Planned, Row, Statuses, Ended
        <2> QED
            BY <2>1, <2>2 DEF Calling
    <1>4. call' \in [Callers -> Calling'] /\ call'[c] = r
              /\ \A d \in Callers \ {c} : call'[d] = call[d]
        <2> HIDE DEF r
        <2> QED BY <1>1, <1>2, <1>3, OneCall
    <1>5. /\ r.pc = "planned" /\ r.op = call[c].op /\ r.plan = call[c].plan
          /\ r.made = call[c].made /\ call[c].pc = "record"
        BY <1>1, Parts DEF Calling, RecordPlan
    <1>6. UNCHANGED <<origin, retried, work, steps, queue, tracked, plans, starting, made, faults>>
        BY <1>1, Parts DEF rows, Calm, Calling, Row, Statuses, Ended, RecordPlan, Bounds
    <1> HIDE DEF r
    <1>7. TypeOK'
        BY <1>1, <1>4, <1>6, Parts DEF TypeOK, Calling
    <1>8. (Calls /\ Job /\ ByOrigin /\ Withdrawn)'
        BY <1>1, <1>4, <1>5, <1>6, Parts DEF IInv, Calls, Aimed, Counted, WorkerPcs, Job, ByOrigin,
           Withdrawn, Alone
    <1>9. (Alone /\ Asks)'
        BY <1>1, <1>4, <1>5, <1>6, Parts DEF IInv, Alone, Calls, Aimed, Asks
    <1>10. First'
        <2> SUFFICES ASSUME ~retried', ~retried PROVE (Plan /\ Asked /\ Planners /\ Runs)'
            BY <1>4, <1>5, <1>6 DEF First, IInv
        <2>1. (Plan /\ Asked)'
            BY <1>1, <1>4, <1>5, <1>6, Parts DEF IInv, First, Plan, Asked, Planners, Runs, Job,
               ByOrigin, Alone, Calls, Aimed, Asking, Withdrawn, Whole, Unanswered
        <2>2. Planners'
            BY <1>1, <1>4, <1>5, <1>6, Parts DEF IInv, First, Plan, Asked, Planners, Runs, Job,
               ByOrigin, Alone, Calls, Aimed, Asking, Withdrawn, Unanswered
        <2>3. Runs'
            BY <1>1, <1>4, <1>5, <1>6, Parts DEF IInv, First, Plan, Asked, Planners, Runs, Job,
               ByOrigin, Alone, Calls, Aimed, Asking, Withdrawn, WorkerPcs, Whole
        <2> QED BY <2>1, <2>2, <2>3
    <1> QED
        BY <1>7, <1>8, <1>9, <1>10 DEF IInv

(* Planning throws.                                                        *)
LEMMA PlanThrowsKeeps ==
    ASSUME Calm, IInv, NEW c \in Callers, PlanThrows(c)
    PROVE  IInv'
    <1> DEFINE r == [call[c] EXCEPT !.pc = (IF At(c, "record") THEN "undo" ELSE "fail")]
    <1>1. TypeOK /\ c \in Callers
        BY DEF IInv
    <1>2. plans' \in {plans, plans + 1} /\ Becomes(c, r)
        BY DEF PlanThrows, Goto, Fault
    <1>3. r \in Calling'
        BY <1>1, <1>2, Parts DEF Calling, PlanThrows, Goto, Fault
    <1>4. call' \in [Callers -> Calling'] /\ call'[c] = r
              /\ \A d \in Callers \ {c} : call'[d] = call[d]
        <2> HIDE DEF r
        <2> QED BY <1>1, <1>2, <1>3, OneCall
    <1>5. /\ r.pc = (IF At(c, "record") THEN "undo" ELSE "fail") /\ r.op = call[c].op
          /\ r.copy = call[c].copy /\ r.plan = call[c].plan /\ r.made = call[c].made
          /\ call[c].pc \in {"model", "recheck", "create", "finish", "record"}
        BY <1>1, Parts DEF Calling, Calm, PlanThrows, Goto, Fault
    <1>6. /\ UNCHANGED <<origin, retried, work, steps, queue, tracked, plans, starting, made>>
          /\ faults' = faults + 1
        BY <1>1, Parts DEF rows, Calm, Calling, Row, Statuses, Ended, PlanThrows, Goto, Fault
    <1> HIDE DEF r
    <1>7. TypeOK'
        BY <1>1, <1>4, <1>6, Parts DEF TypeOK, Calling
    <1>8. (Calls /\ Job /\ ByOrigin /\ Withdrawn)'
        BY <1>1, <1>4, <1>5, <1>6, Parts DEF IInv, Calls, Aimed, Counted, WorkerPcs, Job, ByOrigin,
           Withdrawn, Alone
    <1>9. (Alone /\ Asks)'
        BY <1>1, <1>4, <1>5, <1>6, Parts DEF IInv, Alone, Calls, Aimed, Asks
    <1>10. First'
        <2> SUFFICES ASSUME ~retried', ~retried PROVE (Plan /\ Asked /\ Planners /\ Runs)'
            BY <1>4, <1>5, <1>6 DEF First, IInv
        <2>1. (Plan /\ Asked)'
            BY <1>1, <1>4, <1>5, <1>6, Parts DEF IInv, First, Plan, Asked, Planners, Runs, Job,
               ByOrigin, Alone, Calls, Aimed, Asking, Withdrawn, Whole, Unanswered
        <2>2. Planners'
            BY <1>1, <1>4, <1>5, <1>6, Parts DEF IInv, First, Plan, Asked, Planners, Runs, Job,
               ByOrigin, Alone, Calls, Aimed, Asking, Withdrawn, Unanswered
        <2>3. Runs'
            BY <1>1, <1>4, <1>5, <1>6, Parts DEF IInv, First, Plan, Asked, Planners, Runs, Job,
               ByOrigin, Alone, Calls, Aimed, Asking, Withdrawn, WorkerPcs, Whole
        <2> QED BY <2>1, <2>2, <2>3
    <1> QED
        BY <1>7, <1>8, <1>9, <1>10 DEF IInv

(* The failure is written.                                                 *)
LEMMA RecordPlanFailureKeeps ==
    ASSUME Calm, IInv, NEW c \in Callers, RecordPlanFailure(c)
    PROVE  IInv'
    <1> DEFINE r == [call[c] EXCEPT !.pc = (IF c = Worker THEN "failjob" ELSE "settle")]
    <1>1. TypeOK /\ c \in Callers
        BY DEF IInv
    <1>2. plans' \in {plans, plans + 1} /\ Becomes(c, r)
        BY DEF RecordPlanFailure, PlanRefused, Goto, Writes, Bounds
    <1>3. r \in Calling'
        BY <1>1, <1>2, Parts DEF Calling, RecordPlanFailure, PlanRefused, Goto, Writes, Bounds
    <1>4. call' \in [Callers -> Calling'] /\ call'[c] = r
              /\ \A d \in Callers \ {c} : call'[d] = call[d]
        <2> HIDE DEF r
        <2> QED BY <1>1, <1>2, <1>3, OneCall
    <1>5. /\ r.pc = (IF c = Worker THEN "failjob" ELSE "settle") /\ r.op = call[c].op
          /\ r.copy = call[c].copy /\ r.plan = call[c].plan /\ r.made = call[c].made
          /\ call[c].pc \in {"fail", "undo"}
        BY <1>1, Parts DEF Calling, Calm, RecordPlanFailure, PlanRefused, Goto, Writes, Bounds
    <1>6. /\ UNCHANGED <<origin, retried, steps, queue, tracked, plans, starting, made, faults>>
          /\ work' \in Row /\ work'.status = "failed" /\ ~work'.stale
          /\ work'.plan = call[c].copy.plan
        BY <1>1, Parts DEF rows, Calm, Calling, Row, Statuses, Ended, RecordPlanFailure,
           PlanRefused, Goto, Writes, Bounds
    <1> HIDE DEF r
    <1>7. TypeOK'
        BY <1>1, <1>4, <1>6, Parts DEF TypeOK, Calling
    <1>8. (Calls /\ Job /\ ByOrigin /\ Withdrawn)'
        BY <1>1, <1>4, <1>5, <1>6, Parts DEF IInv, Calls, Aimed, Counted, WorkerPcs, Job, ByOrigin,
           Withdrawn, Alone
    <1>9. (Alone /\ Asks)'
        BY <1>1, <1>4, <1>5, <1>6, Parts DEF IInv, Alone, Calls, Aimed, Asks
    <1>10. First'
        <2> SUFFICES ASSUME ~retried', ~retried PROVE (Plan /\ Asked /\ Planners /\ Runs)'
            BY <1>4, <1>5, <1>6 DEF First, IInv
        <2>1. (Plan /\ Asked)'
            BY <1>1, <1>4, <1>5, <1>6, Parts DEF IInv, First, Plan, Asked, Planners, Runs, Job,
               ByOrigin, Alone, Calls, Aimed, Asking, Withdrawn, Whole, Unanswered
        <2>2. Planners'
            BY <1>1, <1>4, <1>5, <1>6, Parts DEF IInv, First, Plan, Asked, Planners, Runs, Job,
               ByOrigin, Alone, Calls, Aimed, Asking, Withdrawn, Unanswered
        <2>3. Runs'
            BY <1>1, <1>4, <1>5, <1>6, Parts DEF IInv, First, Plan, Asked, Planners, Runs, Job,
               ByOrigin, Alone, Calls, Aimed, Asking, Withdrawn, WorkerPcs, Whole
        <2> QED BY <2>1, <2>2, <2>3
    <1> QED
        BY <1>7, <1>8, <1>9, <1>10 DEF IInv

(* What is outside the try throws, or writing the failure does.            *)
LEMMA LosePlanKeeps ==
    ASSUME Calm, IInv, NEW c \in Callers, LosePlan(c)
    PROVE  IInv'
    <1> DEFINE r == [call[c] EXCEPT !.pc = "lost"]
    <1>1. TypeOK /\ c \in Callers
        BY DEF IInv
    <1>2. plans' \in {plans, plans + 1} /\ Becomes(c, r)
        BY DEF LosePlan, Goto, Fault
    <1>3. r \in Calling'
        BY <1>1, <1>2, Parts DEF Calling, LosePlan, Goto, Fault
    <1>4. call' \in [Callers -> Calling'] /\ call'[c] = r
              /\ \A d \in Callers \ {c} : call'[d] = call[d]
        <2> HIDE DEF r
        <2> QED BY <1>1, <1>2, <1>3, OneCall
    <1>5. /\ r.pc = "lost" /\ r.op = call[c].op
          /\ r.copy = call[c].copy /\ r.plan = call[c].plan /\ r.made = call[c].made
          /\ call[c].pc \in {"read", "mark", "model", "fail", "undo"}
        BY <1>1, Parts DEF Calling, LosePlan, Goto, Fault
    <1>6. /\ UNCHANGED <<origin, retried, work, steps, queue, tracked, plans, starting, made>>
          /\ faults' = faults + 1
        BY <1>1, Parts DEF rows, Calm, Calling, Row, Statuses, Ended, LosePlan, Goto, Fault
    <1> HIDE DEF r
    <1>7. TypeOK'
        BY <1>1, <1>4, <1>6, Parts DEF TypeOK, Calling
    <1>8. (Calls /\ Job /\ ByOrigin /\ Withdrawn)'
        BY <1>1, <1>4, <1>5, <1>6, Parts DEF IInv, Calls, Aimed, Counted, WorkerPcs, Job, ByOrigin,
           Withdrawn, Alone
    <1>9. (Alone /\ Asks)'
        BY <1>1, <1>4, <1>5, <1>6, Parts DEF IInv, Alone, Calls, Aimed, Asks
    <1>10. First'
        <2> SUFFICES ASSUME ~retried', ~retried PROVE (Plan /\ Asked /\ Planners /\ Runs)'
            BY <1>4, <1>5, <1>6 DEF First, IInv
        <2>1. (Plan /\ Asked)'
            BY <1>1, <1>4, <1>5, <1>6, Parts DEF IInv, First, Plan, Asked, Planners, Runs, Job,
               ByOrigin, Alone, Calls, Aimed, Asking, Withdrawn, Whole, Unanswered
        <2>2. Planners'
            BY <1>1, <1>4, <1>5, <1>6, Parts DEF IInv, First, Plan, Asked, Planners, Runs, Job,
               ByOrigin, Alone, Calls, Aimed, Asking, Withdrawn, Unanswered
        <2>3. Runs'
            BY <1>1, <1>4, <1>5, <1>6, Parts DEF IInv, First, Plan, Asked, Planners, Runs, Job,
               ByOrigin, Alone, Calls, Aimed, Asking, Withdrawn, WorkerPcs, Whole
        <2> QED BY <2>1, <2>2, <2>3
    <1> QED
        BY <1>7, <1>8, <1>9, <1>10 DEF IInv

(* The mission stays as it is.                                             *)
LEMMA PlanLostKeeps ==
    ASSUME Calm, IInv, NEW c \in Callers, PlanLost(c)
    PROVE  IInv'
    <1> DEFINE r == [call[c] EXCEPT !.pc = (IF c = Worker THEN "failjob" ELSE "settle")]
    <1>1. TypeOK /\ c \in Callers
        BY DEF IInv
    <1>2. plans' \in {plans, plans + 1} /\ Becomes(c, r)
        BY DEF PlanLost, PlanRefused, Goto, Bounds
    <1>3. r \in Calling'
        BY <1>1, <1>2, Parts DEF Calling, PlanLost, PlanRefused, Goto, Bounds
    <1>4. call' \in [Callers -> Calling'] /\ call'[c] = r
              /\ \A d \in Callers \ {c} : call'[d] = call[d]
        <2> HIDE DEF r
        <2> QED BY <1>1, <1>2, <1>3, OneCall
    <1>5. /\ r.pc = (IF c = Worker THEN "failjob" ELSE "settle") /\ r.op = call[c].op
          /\ r.copy = call[c].copy /\ r.plan = call[c].plan /\ r.made = call[c].made
          /\ call[c].pc = "lost"
        BY <1>1, Parts DEF Calling, PlanLost, PlanRefused, Goto, Bounds
    <1>6. UNCHANGED <<origin, retried, work, steps, queue, tracked, plans, starting, made, faults>>
        BY <1>1, Parts DEF rows, Calm, Calling, Row, Statuses, Ended, PlanLost, PlanRefused, Goto, Bounds
    <1> HIDE DEF r
    <1>7. TypeOK'
        BY <1>1, <1>4, <1>6, Parts DEF TypeOK, Calling
    <1>8. (Calls /\ Job /\ ByOrigin /\ Withdrawn)'
        BY <1>1, <1>4, <1>5, <1>6, Parts DEF IInv, Calls, Aimed, Counted, WorkerPcs, Job, ByOrigin,
           Withdrawn, Alone
    <1>9. (Alone /\ Asks)'
        BY <1>1, <1>4, <1>5, <1>6, Parts DEF IInv, Alone, Calls, Aimed, Asks
    <1>10. First'
        <2> SUFFICES ASSUME ~retried', ~retried PROVE (Plan /\ Asked /\ Planners /\ Runs)'
            BY <1>4, <1>5, <1>6 DEF First, IInv
        <2>1. (Plan /\ Asked)'
            BY <1>1, <1>4, <1>5, <1>6, Parts DEF IInv, First, Plan, Asked, Planners, Runs, Job,
               ByOrigin, Alone, Calls, Aimed, Asking, Withdrawn, Whole, Unanswered
        <2>2. Planners'
            BY <1>1, <1>4, <1>5, <1>6, Parts DEF IInv, First, Plan, Asked, Planners, Runs, Job,
               ByOrigin, Alone, Calls, Aimed, Asking, Withdrawn, Unanswered
        <2>3. Runs'
            BY <1>1, <1>4, <1>5, <1>6, Parts DEF IInv, First, Plan, Asked, Planners, Runs, Job,
               ByOrigin, Alone, Calls, Aimed, Asking, Withdrawn, WorkerPcs, Whole
        <2> QED BY <2>1, <2>2, <2>3
    <1> QED
        BY <1>7, <1>8, <1>9, <1>10 DEF IInv

(* A launch begins, or what only plans.                                    *)
LEMMA LaunchOpensKeeps ==
    ASSUME Calm, IInv, NEW c \in Requests, NEW o \in Launches, Opens(c, o, "begin"),
           origin = "person", work.status = "queued", ~work.plan, ~tracked
    PROVE  IInv'
    <1> DEFINE r == [NoCall EXCEPT !.op = o, !.pc = "begin", !.copy = work]
    <1>1. TypeOK /\ c \in Callers
        BY DEF IInv
    <1>2. plans' \in {plans, plans + 1} /\ Becomes(c, r)
        BY DEF Launches, Opens, MayBePlanned, NoCall
    <1>3. r \in Calling'
        BY <1>1, <1>2, Parts DEF Calling, Launches, Opens, MayBePlanned, NoCall
    <1>4. call' \in [Callers -> Calling'] /\ call'[c] = r
              /\ \A d \in Callers \ {c} : call'[d] = call[d]
        <2> HIDE DEF r
        <2> QED BY <1>1, <1>2, <1>3, OneCall
    <1>5. /\ r.pc = "begin" /\ r.op = o
          /\ r.copy = work /\ r.plan = 0 /\ r.made = 0
          /\ call[c].pc = "idle"
        BY <1>1, Parts DEF Calling, Calm, Launches, Opens, MayBePlanned, NoCall
    <1>6. /\ UNCHANGED <<origin, retried, work, steps, queue, tracked, plans, starting, faults>>
          /\ o \in Ops /\ ~starting /\ (\A d \in Requests : call[d].op \notin {"cancel", "plan"})
                 /\ made' = made + 1
        BY <1>1, Parts DEF rows, Calm, Calling, Row, Statuses, Ended, Launches, Opens, MayBePlanned,
           NoCall
    <1> HIDE DEF r
    <1>7. TypeOK'
        BY <1>1, <1>4, <1>6, Parts DEF TypeOK, Calling
    <1>8. (Calls /\ Job /\ ByOrigin /\ Withdrawn)'
        BY <1>1, <1>4, <1>5, <1>6, Parts DEF IInv, Calls, Aimed, Counted, WorkerPcs, Job, ByOrigin,
           Withdrawn, Alone
    <1>9. (Alone /\ Asks)'
        BY <1>1, <1>4, <1>5, <1>6, Parts DEF IInv, Alone, Calls, Aimed, Asks
    <1>10. First'
        <2> SUFFICES ASSUME ~retried', ~retried PROVE (Plan /\ Asked /\ Planners /\ Runs)'
            BY <1>4, <1>5, <1>6 DEF First, IInv
        <2>1. (Plan /\ Asked)'
            BY <1>1, <1>4, <1>5, <1>6, Parts DEF IInv, First, Plan, Asked, Planners, Runs, Job,
               ByOrigin, Alone, Calls, Aimed, Asking, Withdrawn, Whole, Unanswered
        <2>2. Planners'
            BY <1>1, <1>4, <1>5, <1>6, Parts DEF IInv, First, Plan, Asked, Planners, Runs, Job,
               ByOrigin, Alone, Calls, Aimed, Asking, Withdrawn, Unanswered
        <2>3. Runs'
            BY <1>1, <1>4, <1>5, <1>6, Parts DEF IInv, First, Plan, Asked, Planners, Runs, Job,
               ByOrigin, Alone, Calls, Aimed, Asking, Withdrawn, WorkerPcs, Whole
        <2> QED BY <2>1, <2>2, <2>3
    <1> QED
        BY <1>7, <1>8, <1>9, <1>10 DEF IInv

(* A request to plan begins.                                               *)
LEMMA OpenPlanKeeps ==
    ASSUME Calm, IInv, NEW c \in Requests, OpenPlan(c)
    PROVE  IInv'
    <1> DEFINE r == [NoCall EXCEPT !.op = "plan", !.pc = "read", !.copy = work]
    <1>1. TypeOK /\ c \in Callers
        BY DEF IInv
    <1>2. plans' \in {plans, plans + 1} /\ Becomes(c, r)
        BY DEF OpenPlan, Opens, MayBePlanned, NoCall
    <1>3. r \in Calling'
        BY <1>1, <1>2, Parts DEF Calling, OpenPlan, Opens, MayBePlanned, NoCall
    <1>4. call' \in [Callers -> Calling'] /\ call'[c] = r
              /\ \A d \in Callers \ {c} : call'[d] = call[d]
        <2> HIDE DEF r
        <2> QED BY <1>1, <1>2, <1>3, OneCall
    <1>5. /\ r.pc = "read" /\ r.op = "plan"
          /\ r.copy = work /\ r.plan = 0 /\ r.made = 0
          /\ call[c].pc = "idle"
        BY <1>1, Parts DEF Calling, Calm, OpenPlan, Opens, MayBePlanned, NoCall
    <1>6. /\ UNCHANGED <<origin, retried, work, steps, queue, tracked, plans, starting, faults>>
          /\ "plan" \in Ops /\ ~starting
                 /\ (\A d \in Requests : call[d].op \notin {"cancel", "plan"}) /\ made' = made + 1
          /\ origin = "person" /\ ~tracked /\ work.status = "queued" /\ ~work.plan /\ ~BeingPlanned
                 /\ Unanswered = {}
        BY <1>1, Parts DEF rows, Calm, Calling, Row, Statuses, Ended, OpenPlan, Opens, MayBePlanned,
           NoCall
    <1> HIDE DEF r
    <1>7. TypeOK'
        BY <1>1, <1>4, <1>6, Parts DEF TypeOK, Calling
    <1>8. (Calls /\ Job /\ ByOrigin /\ Withdrawn)'
        BY <1>1, <1>4, <1>5, <1>6, Parts DEF IInv, Calls, Aimed, Counted, WorkerPcs, Job, ByOrigin,
           Withdrawn, Alone
    <1>9. (Alone /\ Asks)'
        BY <1>1, <1>4, <1>5, <1>6, Parts DEF IInv, Alone, Calls, Aimed, Asks, BeingPlanned, Unanswered
    <1>10. First'
        <2> SUFFICES ASSUME ~retried', ~retried PROVE (Plan /\ Asked /\ Planners /\ Runs)'
            BY <1>4, <1>5, <1>6 DEF First, IInv
        <2>1. (Plan /\ Asked)'
            BY <1>1, <1>4, <1>5, <1>6, Parts DEF IInv, First, Plan, Asked, Planners, Runs, Job,
               ByOrigin, Alone, Calls, Aimed, Asking, Withdrawn, Whole, Unanswered
        <2>2. Planners'
            BY <1>1, <1>4, <1>5, <1>6, Parts DEF IInv, First, Plan, Asked, Planners, Runs, Job,
               ByOrigin, Alone, Calls, Aimed, Asking, Withdrawn, Unanswered
        <2>3. Runs'
            BY <1>1, <1>4, <1>5, <1>6, Parts DEF IInv, First, Plan, Asked, Planners, Runs, Job,
               ByOrigin, Alone, Calls, Aimed, Asking, Withdrawn, WorkerPcs, Whole
        <2> QED BY <2>1, <2>2, <2>3
    <1> QED
        BY <1>7, <1>8, <1>9, <1>10 DEF IInv

(* A request to start begins.                                              *)
LEMMA OpenStartKeeps ==
    ASSUME Calm, IInv, NEW c \in Requests, OpenStart(c)
    PROVE  IInv'
    <1> DEFINE r == [NoCall EXCEPT !.op = "start", !.pc = "check", !.copy = work]
    <1>1. TypeOK /\ c \in Callers
        BY DEF IInv
    <1>2. plans' \in {plans, plans + 1} /\ Becomes(c, r)
        BY DEF OpenStart, Opens, MayBePlanned, NoCall
    <1>3. r \in Calling'
        BY <1>1, <1>2, Parts DEF Calling, OpenStart, Opens, MayBePlanned, NoCall
    <1>4. call' \in [Callers -> Calling'] /\ call'[c] = r
              /\ \A d \in Callers \ {c} : call'[d] = call[d]
        <2> HIDE DEF r
        <2> QED BY <1>1, <1>2, <1>3, OneCall
    <1>5. /\ r.pc = "check" /\ r.op = "start"
          /\ r.copy = work /\ r.plan = 0 /\ r.made = 0
          /\ call[c].pc = "idle"
        BY <1>1, Parts DEF Calling, Calm, OpenStart, Opens, MayBePlanned, NoCall
    <1>6. /\ UNCHANGED <<origin, retried, work, steps, queue, tracked, plans, starting, faults>>
          /\ "start" \in Ops /\ ~starting
                 /\ (\A d \in Requests : call[d].op \notin {"cancel", "plan"}) /\ made' = made + 1
          /\ work.status \in {"queued", "executing"}
        BY <1>1, Parts DEF rows, Calm, Calling, Row, Statuses, Ended, OpenStart, Opens,
           MayBePlanned, NoCall
    <1> HIDE DEF r
    <1>7. TypeOK'
        BY <1>1, <1>4, <1>6, Parts DEF TypeOK, Calling
    <1>8. (Calls /\ Job /\ ByOrigin /\ Withdrawn)'
        BY <1>1, <1>4, <1>5, <1>6, Parts DEF IInv, Calls, Aimed, Counted, WorkerPcs, Job, ByOrigin,
           Withdrawn, Alone
    <1>9. (Alone /\ Asks)'
        BY <1>1, <1>4, <1>5, <1>6, Parts DEF IInv, Alone, Calls, Aimed, Asks
    <1>10. First'
        <2> SUFFICES ASSUME ~retried', ~retried PROVE (Plan /\ Asked /\ Planners /\ Runs)'
            BY <1>4, <1>5, <1>6 DEF First, IInv
        <2>1. (Plan /\ Asked)'
            BY <1>1, <1>4, <1>5, <1>6, Parts DEF IInv, First, Plan, Asked, Planners, Runs, Job,
               ByOrigin, Alone, Calls, Aimed, Asking, Withdrawn, Whole, Unanswered
        <2>2. Planners'
            BY <1>1, <1>4, <1>5, <1>6, Parts DEF IInv, First, Plan, Asked, Planners, Runs, Job,
               ByOrigin, Alone, Calls, Aimed, Asking, Withdrawn, Unanswered
        <2>3. Runs'
            BY <1>1, <1>4, <1>5, <1>6, Parts DEF IInv, First, Plan, Asked, Planners, Runs, Job,
               ByOrigin, Alone, Calls, Aimed, Asking, Withdrawn, WorkerPcs, Whole
        <2> QED BY <2>1, <2>2, <2>3
    <1> QED
        BY <1>7, <1>8, <1>9, <1>10 DEF IInv

(* A request to retry begins.                                              *)
LEMMA OpenRetryKeeps ==
    ASSUME Calm, IInv, NEW c \in Requests, OpenRetry(c)
    PROVE  IInv'
    <1> DEFINE r == [NoCall EXCEPT !.op = "retry", !.pc = "list", !.copy = work]
    <1>1. TypeOK /\ c \in Callers
        BY DEF IInv
    <1>2. plans' \in {plans, plans + 1} /\ Becomes(c, r)
        BY DEF OpenRetry, Opens, MayBePlanned, NoCall
    <1>3. r \in Calling'
        BY <1>1, <1>2, Parts DEF Calling, OpenRetry, Opens, MayBePlanned, NoCall
    <1>4. call' \in [Callers -> Calling'] /\ call'[c] = r
              /\ \A d \in Callers \ {c} : call'[d] = call[d]
        <2> HIDE DEF r
        <2> QED BY <1>1, <1>2, <1>3, OneCall
    <1>5. /\ r.pc = "list" /\ r.op = "retry"
          /\ r.copy = work /\ r.plan = 0 /\ r.made = 0
          /\ call[c].pc = "idle"
        BY <1>1, Parts DEF Calling, Calm, OpenRetry, Opens, MayBePlanned, NoCall
    <1>6. /\ UNCHANGED <<origin, retried, work, steps, queue, tracked, plans, starting, faults>>
          /\ "retry" \in Ops /\ ~starting
                 /\ (\A d \in Requests : call[d].op \notin {"cancel", "plan"}) /\ made' = made + 1
          /\ work.status = "failed"
        BY <1>1, Parts DEF rows, Calm, Calling, Row, Statuses, Ended, OpenRetry, Opens,
           MayBePlanned, NoCall
    <1> HIDE DEF r
    <1>7. TypeOK'
        BY <1>1, <1>4, <1>6, Parts DEF TypeOK, Calling
    <1>8. (Calls /\ Job /\ ByOrigin /\ Withdrawn)'
        BY <1>1, <1>4, <1>5, <1>6, Parts DEF IInv, Calls, Aimed, Counted, WorkerPcs, Job, ByOrigin,
           Withdrawn, Alone
    <1>9. (Alone /\ Asks)'
        BY <1>1, <1>4, <1>5, <1>6, Parts DEF IInv, Alone, Calls, Aimed, Asks
    <1>10. First'
        <2> SUFFICES ASSUME ~retried', ~retried PROVE (Plan /\ Asked /\ Planners /\ Runs)'
            BY <1>4, <1>5, <1>6 DEF First, IInv
        <2>1. (Plan /\ Asked)'
            BY <1>1, <1>4, <1>5, <1>6, Parts DEF IInv, First, Plan, Asked, Planners, Runs, Job,
               ByOrigin, Alone, Calls, Aimed, Asking, Withdrawn, Whole, Unanswered
        <2>2. Planners'
            BY <1>1, <1>4, <1>5, <1>6, Parts DEF IInv, First, Plan, Asked, Planners, Runs, Job,
               ByOrigin, Alone, Calls, Aimed, Asking, Withdrawn, Unanswered
        <2>3. Runs'
            BY <1>1, <1>4, <1>5, <1>6, Parts DEF IInv, First, Plan, Asked, Planners, Runs, Job,
               ByOrigin, Alone, Calls, Aimed, Asking, Withdrawn, WorkerPcs, Whole
        <2> QED BY <2>1, <2>2, <2>3
    <1> QED
        BY <1>7, <1>8, <1>9, <1>10 DEF IInv

(* A request to cancel begins.                                             *)
LEMMA OpenCancelKeeps ==
    ASSUME Calm, IInv, NEW c \in Requests, OpenCancel(c)
    PROVE  IInv'
    <1> DEFINE r == [NoCall EXCEPT !.op = "cancel", !.pc = "withdraw", !.copy = work]
    <1>1. TypeOK /\ c \in Callers
        BY DEF IInv
    <1>2. plans' \in {plans, plans + 1} /\ Becomes(c, r)
        BY DEF OpenCancel, Cancellable, Opens, MayBePlanned, NoCall
    <1>3. r \in Calling'
        BY <1>1, <1>2, Parts DEF Calling, OpenCancel, Cancellable, Opens, MayBePlanned, NoCall
    <1>4. call' \in [Callers -> Calling'] /\ call'[c] = r
              /\ \A d \in Callers \ {c} : call'[d] = call[d]
        <2> HIDE DEF r
        <2> QED BY <1>1, <1>2, <1>3, OneCall
    <1>5. /\ r.pc = "withdraw" /\ r.op = "cancel"
          /\ r.copy = work /\ r.plan = 0 /\ r.made = 0
          /\ call[c].pc = "idle"
        BY <1>1, Parts DEF Calling, Calm, OpenCancel, Cancellable, Opens, MayBePlanned, NoCall
    <1>6. /\ UNCHANGED <<origin, retried, work, steps, queue, tracked, plans, starting, faults>>
          /\ "cancel" \in Ops /\ ~starting
                 /\ (\A d \in Requests : call[d].op \notin {"cancel", "plan"}) /\ made' = made + 1
          /\ Unanswered = {} /\ work.status # "cancelled" /\ (work.status = "planning" => work.stale)
        BY <1>1, Parts DEF rows, Calm, Calling, Row, Statuses, Ended, OpenCancel, Cancellable,
           Opens, MayBePlanned, NoCall
    <1> HIDE DEF r
    <1>7. TypeOK'
        BY <1>1, <1>4, <1>6, Parts DEF TypeOK, Calling
    <1>8. (Calls /\ Job /\ ByOrigin /\ Withdrawn)'
        BY <1>1, <1>4, <1>5, <1>6, Parts DEF IInv, Calls, Aimed, Counted, WorkerPcs, Job, ByOrigin,
           Withdrawn, Alone
    <1>9. (Alone /\ Asks)'
        BY <1>1, <1>4, <1>5, <1>6, Parts DEF IInv, Alone, Calls, Aimed, Asks, Unanswered
    <1>10. First'
        <2> SUFFICES ASSUME ~retried', ~retried PROVE (Plan /\ Asked /\ Planners /\ Runs)'
            BY <1>4, <1>5, <1>6 DEF First, IInv
        <2>1. (Plan /\ Asked)'
            BY <1>1, <1>4, <1>5, <1>6, Parts DEF IInv, First, Plan, Asked, Planners, Runs, Job,
               ByOrigin, Alone, Calls, Aimed, Asking, Withdrawn, Whole, Unanswered
        <2>2. Planners'
            BY <1>1, <1>4, <1>5, <1>6, Parts DEF IInv, First, Plan, Asked, Planners, Runs, Job,
               ByOrigin, Alone, Calls, Aimed, Asking, Withdrawn, Unanswered
        <2>3. Runs'
            BY <1>1, <1>4, <1>5, <1>6, Parts DEF IInv, First, Plan, Asked, Planners, Runs, Job,
               ByOrigin, Alone, Calls, Aimed, Asking, Withdrawn, WorkerPcs, Whole
        <2> QED BY <2>1, <2>2, <2>3
    <1> QED
        BY <1>7, <1>8, <1>9, <1>10 DEF IInv

(* A launch marks the mission and is admitted.                             *)
LEMMA BeginPlanningKeeps ==
    ASSUME Calm, IInv, NEW c \in Requests, BeginPlanning(c), work.status = "queued", ~tracked
    PROVE  IInv'
    <1> DEFINE r == [call[c] EXCEPT !.pc = "read"]
    <1>1. TypeOK /\ c \in Callers
        BY DEF IInv
    <1>2. plans' \in {plans, plans + 1} /\ Becomes(c, r)
        BY DEF BeginPlanning, Goto, Writes, Bounds
    <1>3. r \in Calling'
        BY <1>1, <1>2, Parts DEF Calling, BeginPlanning, Goto, Writes, Bounds
    <1>4. call' \in [Callers -> Calling'] /\ call'[c] = r
              /\ \A d \in Callers \ {c} : call'[d] = call[d]
        <2> HIDE DEF r
        <2> QED BY <1>1, <1>2, <1>3, OneCall
    <1>5. /\ r.pc = "read" /\ r.op = call[c].op
          /\ r.copy = call[c].copy /\ r.plan = call[c].plan /\ r.made = call[c].made
          /\ call[c].pc = "begin"
        BY <1>1, Parts DEF Calling, Calm, BeginPlanning, Goto, Writes, Bounds
    <1>6. /\ UNCHANGED <<origin, retried, steps, queue, plans, starting, made, faults>>
          /\ work' \in Row /\ work'.status = "planning" /\ ~work'.stale
          /\ work'.plan = work.plan
          /\ tracked' = TRUE
        <2>1. Writes([work EXCEPT !.status = "planning"]) /\ tracked' = TRUE
            BY DEF BeginPlanning
        <2>2. work \in Row
            BY <1>1, Parts DEF Calling
        <2>3. work' \in Row /\ work'.status = "planning" /\ ~work'.stale /\ work'.plan = work.plan
                 
            BY <2>1, <2>2, RowWritten DEF Statuses, Ended
        <2> QED
            BY <2>1, <2>3 DEF BeginPlanning, Bounds
    <1> HIDE DEF r
    <1>7. TypeOK'
        BY <1>1, <1>4, <1>6, Parts DEF TypeOK, Calling
    <1>8. (Calls /\ Job /\ ByOrigin /\ Withdrawn)'
        BY <1>1, <1>4, <1>5, <1>6, Parts DEF IInv, Calls, Aimed, Counted, WorkerPcs, Job, ByOrigin,
           Withdrawn, Alone
    <1>9. (Alone /\ Asks)'
        BY <1>1, <1>4, <1>5, <1>6, Parts DEF IInv, Alone, Calls, Aimed, Asks
    <1>10. First'
        <2> SUFFICES ASSUME ~retried', ~retried PROVE (Plan /\ Asked /\ Planners /\ Runs)'
            BY <1>4, <1>5, <1>6 DEF First, IInv
        <2>1. (Plan /\ Asked)'
            BY <1>1, <1>4, <1>5, <1>6, Parts DEF IInv, First, Plan, Asked, Planners, Runs, Job,
               ByOrigin, Alone, Calls, Aimed, Asking, Withdrawn, Whole, Unanswered
        <2>2. Planners'
            BY <1>1, <1>4, <1>5, <1>6, Parts DEF IInv, First, Plan, Asked, Planners, Runs, Job,
               ByOrigin, Alone, Calls, Aimed, Asking, Withdrawn, Unanswered
        <2>3. Runs'
            BY <1>1, <1>4, <1>5, <1>6, Parts DEF IInv, First, Plan, Asked, Planners, Runs, Job,
               ByOrigin, Alone, Calls, Aimed, Asking, Withdrawn, WorkerPcs, Whole
        <2> QED BY <2>1, <2>2, <2>3
    <1> QED
        BY <1>7, <1>8, <1>9, <1>10 DEF IInv

(* One that finds a launch under way only marks it.                        *)
LEMMA BeginTrackedKeeps ==
    ASSUME Calm, IInv, NEW c \in Requests, BeginPlanning(c), work.status = "queued", tracked
    PROVE  IInv'
    <1> DEFINE r == NoCall
    <1>1. TypeOK /\ c \in Callers
        BY DEF IInv
    <1>2. plans' \in {plans, plans + 1} /\ Becomes(c, r)
        BY DEF BeginPlanning, Writes, Bounds, Answer, NoCall, NewWork
    <1>3. r \in Calling'
        BY <1>1, <1>2, Parts DEF Calling, BeginPlanning, Writes, Bounds, Answer, NoCall, NewWork
    <1>4. call' \in [Callers -> Calling'] /\ call'[c] = r
              /\ \A d \in Callers \ {c} : call'[d] = call[d]
        <2> HIDE DEF r
        <2> QED BY <1>1, <1>2, <1>3, OneCall
    <1>5. /\ r.pc = "idle" /\ r.op = "none"
          /\ r.copy = NewWork /\ r.plan = 0 /\ r.made = 0
          /\ call[c].pc = "begin"
        BY <1>1, Parts DEF Calling, Calm, BeginPlanning, Writes, Bounds, Answer, NoCall, NewWork
    <1>6. /\ UNCHANGED <<origin, retried, steps, queue, tracked, plans, starting, made, faults>>
          /\ work' \in Row /\ work'.status = "planning" /\ ~work'.stale
          /\ work'.plan = work.plan
        <2>1. Writes([work EXCEPT !.status = "planning"]) /\ UNCHANGED tracked
            BY DEF BeginPlanning
        <2>2. work \in Row
            BY <1>1, Parts DEF Calling
        <2>3. work' \in Row /\ work'.status = "planning" /\ ~work'.stale /\ work'.plan = work.plan
                 
            BY <2>1, <2>2, RowWritten DEF Statuses, Ended
        <2> QED
            BY <2>1, <2>3 DEF BeginPlanning, Bounds
    <1> HIDE DEF r
    <1>7. TypeOK'
        BY <1>1, <1>4, <1>6, Parts DEF TypeOK, Calling
    <1>8. (Calls /\ Job /\ ByOrigin /\ Withdrawn)'
        BY <1>1, <1>4, <1>5, <1>6, Parts DEF IInv, Calls, Aimed, Counted, WorkerPcs, Job, ByOrigin,
           Withdrawn, Alone
    <1>9. (Alone /\ Asks)'
        BY <1>1, <1>4, <1>5, <1>6, Parts DEF IInv, Alone, Calls, Aimed, Asks
    <1>10. First'
        <2> SUFFICES ASSUME ~retried', ~retried PROVE (Plan /\ Asked /\ Planners /\ Runs)'
            BY <1>4, <1>5, <1>6 DEF First, IInv
        <2>1. (Plan /\ Asked)'
            BY <1>1, <1>4, <1>5, <1>6, Parts DEF IInv, First, Plan, Asked, Planners, Runs, Job,
               ByOrigin, Alone, Calls, Aimed, Asking, Withdrawn, Whole, Unanswered
        <2>2. Planners'
            BY <1>1, <1>4, <1>5, <1>6, Parts DEF IInv, First, Plan, Asked, Planners, Runs, Job,
               ByOrigin, Alone, Calls, Aimed, Asking, Withdrawn, Unanswered
        <2>3. Runs'
            BY <1>1, <1>4, <1>5, <1>6, Parts DEF IInv, First, Plan, Asked, Planners, Runs, Job,
               ByOrigin, Alone, Calls, Aimed, Asking, Withdrawn, WorkerPcs, Whole
        <2> QED BY <2>1, <2>2, <2>3
    <1> QED
        BY <1>7, <1>8, <1>9, <1>10 DEF IInv

(* One that finds it marked is refused.                                    *)
LEMMA BeginRefusedKeeps ==
    ASSUME Calm, IInv, NEW c \in Requests, BeginPlanning(c), work.status # "queued"
    PROVE  IInv'
    <1> DEFINE r == NoCall
    <1>1. TypeOK /\ c \in Callers
        BY DEF IInv
    <1>2. plans' \in {plans, plans + 1} /\ Becomes(c, r)
        BY DEF BeginPlanning, Bounds, Answer, NoCall, NewWork
    <1>3. r \in Calling'
        BY <1>1, <1>2, Parts DEF Calling, BeginPlanning, Bounds, Answer, NoCall, NewWork
    <1>4. call' \in [Callers -> Calling'] /\ call'[c] = r
              /\ \A d \in Callers \ {c} : call'[d] = call[d]
        <2> HIDE DEF r
        <2> QED BY <1>1, <1>2, <1>3, OneCall
    <1>5. /\ r.pc = "idle" /\ r.op = "none"
          /\ r.copy = NewWork /\ r.plan = 0 /\ r.made = 0
          /\ call[c].pc = "begin"
        BY <1>1, Parts DEF Calling, Calm, BeginPlanning, Bounds, Answer, NoCall, NewWork
    <1>6. /\ UNCHANGED <<origin, retried, work, steps, queue, tracked, plans, starting, made, faults>>
        BY <1>1, Parts DEF rows, Calm, Calling, Row, Statuses, Ended, BeginPlanning, Bounds, Answer,
           NoCall, NewWork
    <1> HIDE DEF r
    <1>7. TypeOK'
        BY <1>1, <1>4, <1>6, Parts DEF TypeOK, Calling
    <1>8. (Calls /\ Job /\ ByOrigin /\ Withdrawn)'
        BY <1>1, <1>4, <1>5, <1>6, Parts DEF IInv, Calls, Aimed, Counted, WorkerPcs, Job, ByOrigin,
           Withdrawn, Alone
    <1>9. (Alone /\ Asks)'
        BY <1>1, <1>4, <1>5, <1>6, Parts DEF IInv, Alone, Calls, Aimed, Asks
    <1>10. First'
        <2> SUFFICES ASSUME ~retried', ~retried PROVE (Plan /\ Asked /\ Planners /\ Runs)'
            BY <1>4, <1>5, <1>6 DEF First, IInv
        <2>1. (Plan /\ Asked)'
            BY <1>1, <1>4, <1>5, <1>6, Parts DEF IInv, First, Plan, Asked, Planners, Runs, Job,
               ByOrigin, Alone, Calls, Aimed, Asking, Withdrawn, Whole, Unanswered
        <2>2. Planners'
            BY <1>1, <1>4, <1>5, <1>6, Parts DEF IInv, First, Plan, Asked, Planners, Runs, Job,
               ByOrigin, Alone, Calls, Aimed, Asking, Withdrawn, Unanswered
        <2>3. Runs'
            BY <1>1, <1>4, <1>5, <1>6, Parts DEF IInv, First, Plan, Asked, Planners, Runs, Job,
               ByOrigin, Alone, Calls, Aimed, Asking, Withdrawn, WorkerPcs, Whole
        <2> QED BY <2>1, <2>2, <2>3
    <1> QED
        BY <1>7, <1>8, <1>9, <1>10 DEF IInv

(* What a launch planned is queued.                                        *)
LEMMA AfterPlanKeeps ==
    ASSUME Calm, IInv, NEW c \in Requests, AfterPlan(c)
    PROVE  IInv'
    <1> DEFINE r == [call[c] EXCEPT !.pc = "settle"]
    <1>1. TypeOK /\ c \in Callers
        BY DEF IInv
    <1>2. plans' \in {plans, plans + 1} /\ Becomes(c, r)
        BY DEF AfterPlan, Enqueued, Goto, Bounds
    <1>3. r \in Calling'
        BY <1>1, <1>2, Parts DEF Calling, AfterPlan, Enqueued, Goto, Bounds
    <1>4. call' \in [Callers -> Calling'] /\ call'[c] = r
              /\ \A d \in Callers \ {c} : call'[d] = call[d]
        <2> HIDE DEF r
        <2> QED BY <1>1, <1>2, <1>3, OneCall
    <1>5. /\ r.pc = "settle" /\ r.op = call[c].op
          /\ r.copy = call[c].copy /\ r.plan = call[c].plan /\ r.made = call[c].made
          /\ call[c].pc = "planned"
        BY <1>1, Parts DEF Calling, Calm, AfterPlan, Enqueued, Goto, Bounds
    <1>6. /\ UNCHANGED <<origin, retried, work, steps, tracked, plans, starting, made, faults>>
          /\ queue' \in {queue, [status |-> "queued", reason |-> "requested", attempts |-> 0]}
                 /\ (queue.status # "idle" => queue' = queue)
        BY <1>1, Parts DEF rows, Calm, Calling, Row, Statuses, Ended, AfterPlan, Enqueued, Goto,
           Bounds
    <1> HIDE DEF r
    <1>7. TypeOK'
        BY <1>1, <1>4, <1>6, Parts DEF TypeOK, Calling
    <1>8. (Calls /\ Job /\ ByOrigin /\ Withdrawn)'
        BY <1>1, <1>4, <1>5, <1>6, Parts DEF IInv, Calls, Aimed, Counted, WorkerPcs, Job, ByOrigin,
           Withdrawn, Alone
    <1>9. (Alone /\ Asks)'
        BY <1>1, <1>4, <1>5, <1>6, Parts DEF IInv, Alone, Calls, Aimed, Asks
    <1>10. First'
        <2> SUFFICES ASSUME ~retried', ~retried PROVE (Plan /\ Asked /\ Planners /\ Runs)'
            BY <1>4, <1>5, <1>6 DEF First, IInv
        <2>1. (Plan /\ Asked)'
            BY <1>1, <1>4, <1>5, <1>6, Parts DEF IInv, First, Plan, Asked, Planners, Runs, Job,
               ByOrigin, Alone, Calls, Aimed, Asking, Withdrawn, Whole, Unanswered
        <2>2. Planners'
            BY <1>1, <1>4, <1>5, <1>6, Parts DEF IInv, First, Plan, Asked, Planners, Runs, Job,
               ByOrigin, Alone, Calls, Aimed, Asking, Withdrawn, Unanswered
        <2>3. Runs'
            BY <1>1, <1>4, <1>5, <1>6, Parts DEF IInv, First, Plan, Asked, Planners, Runs, Job,
               ByOrigin, Alone, Calls, Aimed, Asking, Withdrawn, WorkerPcs, Whole
        <2> QED BY <2>1, <2>2, <2>3
    <1> QED
        BY <1>7, <1>8, <1>9, <1>10 DEF IInv

(* A plan settles.                                                         *)
LEMMA SettleKeeps ==
    ASSUME Calm, IInv, NEW c \in Requests, Settle(c)
    PROVE  IInv'
    <1> DEFINE r == NoCall
    <1>1. TypeOK /\ c \in Callers
        BY DEF IInv
    <1>2. plans' \in {plans, plans + 1} /\ Becomes(c, r)
        BY DEF Settle, Bounds, Answer, NoCall, NewWork
    <1>3. r \in Calling'
        BY <1>1, <1>2, Parts DEF Calling, Settle, Bounds, Answer, NoCall, NewWork
    <1>4. call' \in [Callers -> Calling'] /\ call'[c] = r
              /\ \A d \in Callers \ {c} : call'[d] = call[d]
        <2> HIDE DEF r
        <2> QED BY <1>1, <1>2, <1>3, OneCall
    <1>5. /\ r.pc = "idle" /\ r.op = "none"
          /\ r.copy = NewWork /\ r.plan = 0 /\ r.made = 0
          /\ call[c].pc = "settle"
        BY <1>1, Parts DEF Calling, Calm, Settle, Bounds, Answer, NoCall, NewWork
    <1>6. /\ UNCHANGED <<origin, retried, work, steps, queue, plans, starting, made, faults>>
          /\ tracked' = (IF call[c].op = "plan" THEN tracked ELSE FALSE)
        BY <1>1, Parts DEF rows, Calm, Calling, Row, Statuses, Ended, Settle, Bounds, Answer,
           NoCall, NewWork
    <1> HIDE DEF r
    <1>7. TypeOK'
        BY <1>1, <1>4, <1>6, Parts DEF TypeOK, Calling
    <1>8. (Calls /\ Job /\ ByOrigin /\ Withdrawn)'
        BY <1>1, <1>4, <1>5, <1>6, Parts DEF IInv, Calls, Aimed, Counted, WorkerPcs, Job, ByOrigin,
           Withdrawn, Alone
    <1>9. (Alone /\ Asks)'
        BY <1>1, <1>4, <1>5, <1>6, Parts DEF IInv, Alone, Calls, Aimed, Asks
    <1>10. First'
        <2> SUFFICES ASSUME ~retried', ~retried PROVE (Plan /\ Asked /\ Planners /\ Runs)'
            BY <1>4, <1>5, <1>6 DEF First, IInv
        <2>1. (Plan /\ Asked)'
            BY <1>1, <1>4, <1>5, <1>6, Parts DEF IInv, First, Plan, Asked, Planners, Runs, Job,
               ByOrigin, Alone, Calls, Aimed, Asking, Withdrawn, Whole, Unanswered
        <2>2. Planners'
            BY <1>1, <1>4, <1>5, <1>6, Parts DEF IInv, First, Plan, Asked, Planners, Runs, Job,
               ByOrigin, Alone, Calls, Aimed, Asking, Withdrawn, Unanswered
        <2>3. Runs'
            BY <1>1, <1>4, <1>5, <1>6, Parts DEF IInv, First, Plan, Asked, Planners, Runs, Job,
               ByOrigin, Alone, Calls, Aimed, Asking, Withdrawn, WorkerPcs, Whole
        <2> QED BY <2>1, <2>2, <2>3
    <1> QED
        BY <1>7, <1>8, <1>9, <1>10 DEF IInv

(* A start that may go on.                                                 *)
LEMMA CheckStartKeeps ==
    ASSUME Calm, IInv, NEW c \in Requests, CheckStart(c), queue.status = "idle", steps # {}
    PROVE  IInv'
    <1> DEFINE r == [call[c] EXCEPT !.pc = "enqueue"]
    <1>1. TypeOK /\ c \in Callers
        BY DEF IInv
    <1>2. plans' \in {plans, plans + 1} /\ Becomes(c, r)
        BY DEF CheckStart, Goto, Bounds
    <1>3. r \in Calling'
        BY <1>1, <1>2, Parts DEF Calling, CheckStart, Goto, Bounds
    <1>4. call' \in [Callers -> Calling'] /\ call'[c] = r
              /\ \A d \in Callers \ {c} : call'[d] = call[d]
        <2> HIDE DEF r
        <2> QED BY <1>1, <1>2, <1>3, OneCall
    <1>5. /\ r.pc = "enqueue" /\ r.op = call[c].op
          /\ r.copy = call[c].copy /\ r.plan = call[c].plan /\ r.made = call[c].made
          /\ call[c].pc = "check"
        BY <1>1, Parts DEF Calling, Calm, CheckStart, Goto, Bounds
    <1>6. /\ UNCHANGED <<origin, retried, work, steps, queue, tracked, plans, starting, made, faults>>
        BY <1>1, Parts DEF rows, Calm, Calling, Row, Statuses, Ended, CheckStart, Goto, Bounds
    <1> HIDE DEF r
    <1>7. TypeOK'
        BY <1>1, <1>4, <1>6, Parts DEF TypeOK, Calling
    <1>8. (Calls /\ Job /\ ByOrigin /\ Withdrawn)'
        BY <1>1, <1>4, <1>5, <1>6, Parts DEF IInv, Calls, Aimed, Counted, WorkerPcs, Job, ByOrigin,
           Withdrawn, Alone
    <1>9. (Alone /\ Asks)'
        BY <1>1, <1>4, <1>5, <1>6, Parts DEF IInv, Alone, Calls, Aimed, Asks
    <1>10. First'
        <2> SUFFICES ASSUME ~retried', ~retried PROVE (Plan /\ Asked /\ Planners /\ Runs)'
            BY <1>4, <1>5, <1>6 DEF First, IInv
        <2>1. (Plan /\ Asked)'
            BY <1>1, <1>4, <1>5, <1>6, Parts DEF IInv, First, Plan, Asked, Planners, Runs, Job,
               ByOrigin, Alone, Calls, Aimed, Asking, Withdrawn, Whole, Unanswered
        <2>2. Planners'
            BY <1>1, <1>4, <1>5, <1>6, Parts DEF IInv, First, Plan, Asked, Planners, Runs, Job,
               ByOrigin, Alone, Calls, Aimed, Asking, Withdrawn, Unanswered
        <2>3. Runs'
            BY <1>1, <1>4, <1>5, <1>6, Parts DEF IInv, First, Plan, Asked, Planners, Runs, Job,
               ByOrigin, Alone, Calls, Aimed, Asking, Withdrawn, WorkerPcs, Whole
        <2> QED BY <2>1, <2>2, <2>3
    <1> QED
        BY <1>7, <1>8, <1>9, <1>10 DEF IInv

(* One that may not.                                                       *)
LEMMA CheckRefusedKeeps ==
    ASSUME Calm, IInv, NEW c \in Requests, CheckStart(c), ~(queue.status = "idle" /\ steps # {})
    PROVE  IInv'
    <1> DEFINE r == NoCall
    <1>1. TypeOK /\ c \in Callers
        BY DEF IInv
    <1>2. plans' \in {plans, plans + 1} /\ Becomes(c, r)
        BY DEF CheckStart, Bounds, Answer, NoCall, NewWork
    <1>3. r \in Calling'
        BY <1>1, <1>2, Parts DEF Calling, CheckStart, Bounds, Answer, NoCall, NewWork
    <1>4. call' \in [Callers -> Calling'] /\ call'[c] = r
              /\ \A d \in Callers \ {c} : call'[d] = call[d]
        <2> HIDE DEF r
        <2> QED BY <1>1, <1>2, <1>3, OneCall
    <1>5. /\ r.pc = "idle" /\ r.op = "none"
          /\ r.copy = NewWork /\ r.plan = 0 /\ r.made = 0
          /\ call[c].pc = "check"
        BY <1>1, Parts DEF Calling, Calm, CheckStart, Bounds, Answer, NoCall, NewWork
    <1>6. /\ UNCHANGED <<origin, retried, work, steps, queue, tracked, plans, starting, made, faults>>
        BY <1>1, Parts DEF rows, Calm, Calling, Row, Statuses, Ended, CheckStart, Bounds, Answer,
           NoCall, NewWork
    <1> HIDE DEF r
    <1>7. TypeOK'
        BY <1>1, <1>4, <1>6, Parts DEF TypeOK, Calling
    <1>8. (Calls /\ Job /\ ByOrigin /\ Withdrawn)'
        BY <1>1, <1>4, <1>5, <1>6, Parts DEF IInv, Calls, Aimed, Counted, WorkerPcs, Job, ByOrigin,
           Withdrawn, Alone
    <1>9. (Alone /\ Asks)'
        BY <1>1, <1>4, <1>5, <1>6, Parts DEF IInv, Alone, Calls, Aimed, Asks
    <1>10. First'
        <2> SUFFICES ASSUME ~retried', ~retried PROVE (Plan /\ Asked /\ Planners /\ Runs)'
            BY <1>4, <1>5, <1>6 DEF First, IInv
        <2>1. (Plan /\ Asked)'
            BY <1>1, <1>4, <1>5, <1>6, Parts DEF IInv, First, Plan, Asked, Planners, Runs, Job,
               ByOrigin, Alone, Calls, Aimed, Asking, Withdrawn, Whole, Unanswered
        <2>2. Planners'
            BY <1>1, <1>4, <1>5, <1>6, Parts DEF IInv, First, Plan, Asked, Planners, Runs, Job,
               ByOrigin, Alone, Calls, Aimed, Asking, Withdrawn, Unanswered
        <2>3. Runs'
            BY <1>1, <1>4, <1>5, <1>6, Parts DEF IInv, First, Plan, Asked, Planners, Runs, Job,
               ByOrigin, Alone, Calls, Aimed, Asking, Withdrawn, WorkerPcs, Whole
        <2> QED BY <2>1, <2>2, <2>3
    <1> QED
        BY <1>7, <1>8, <1>9, <1>10 DEF IInv

(* The mission is queued.                                                  *)
LEMMA EnqueueKeeps ==
    ASSUME Calm, IInv, NEW c \in Requests, Enqueue(c)
    PROVE  IInv'
    <1> DEFINE r == NoCall
    <1>1. TypeOK /\ c \in Callers
        BY DEF IInv
    <1>2. plans' \in {plans, plans + 1} /\ Becomes(c, r)
        BY DEF Enqueue, Enqueued, Bounds, Answer, NoCall, NewWork
    <1>3. r \in Calling'
        BY <1>1, <1>2, Parts DEF Calling, Enqueue, Enqueued, Bounds, Answer, NoCall, NewWork
    <1>4. call' \in [Callers -> Calling'] /\ call'[c] = r
              /\ \A d \in Callers \ {c} : call'[d] = call[d]
        <2> HIDE DEF r
        <2> QED BY <1>1, <1>2, <1>3, OneCall
    <1>5. /\ r.pc = "idle" /\ r.op = "none"
          /\ r.copy = NewWork /\ r.plan = 0 /\ r.made = 0
          /\ call[c].pc = "enqueue"
        BY <1>1, Parts DEF Calling, Calm, Enqueue, Enqueued, Bounds, Answer, NoCall, NewWork
    <1>6. /\ UNCHANGED <<origin, retried, work, steps, tracked, plans, starting, made, faults>>
          /\ \E why \in {"retry", "requested"} :
                 /\ queue' \in {queue, [status |-> "queued", reason |-> why, attempts |-> 0]}
                 /\ (queue.status # "idle" => queue' = queue)
        BY <1>1, Parts DEF rows, Calm, Calling, Row, Statuses, Ended, Enqueue, Enqueued, Bounds,
           Answer, NoCall, NewWork
    <1> HIDE DEF r
    <1>7. TypeOK'
        BY <1>1, <1>4, <1>6, Parts DEF TypeOK, Calling
    <1>8. (Calls /\ Job /\ ByOrigin /\ Withdrawn)'
        BY <1>1, <1>4, <1>5, <1>6, Parts DEF IInv, Calls, Aimed, Counted, WorkerPcs, Job, ByOrigin,
           Withdrawn, Alone
    <1>9. (Alone /\ Asks)'
        BY <1>1, <1>4, <1>5, <1>6, Parts DEF IInv, Alone, Calls, Aimed, Asks
    <1>10. First'
        <2> SUFFICES ASSUME ~retried', ~retried PROVE (Plan /\ Asked /\ Planners /\ Runs)'
            BY <1>4, <1>5, <1>6 DEF First, IInv
        <2>1. (Plan /\ Asked)'
            BY <1>1, <1>4, <1>5, <1>6, Parts DEF IInv, First, Plan, Asked, Planners, Runs, Job,
               ByOrigin, Alone, Calls, Aimed, Asking, Withdrawn, Whole, Unanswered
        <2>2. Planners'
            BY <1>1, <1>4, <1>5, <1>6, Parts DEF IInv, First, Plan, Asked, Planners, Runs, Job,
               ByOrigin, Alone, Calls, Aimed, Asking, Withdrawn, Unanswered
        <2>3. Runs'
            BY <1>1, <1>4, <1>5, <1>6, Parts DEF IInv, First, Plan, Asked, Planners, Runs, Job,
               ByOrigin, Alone, Calls, Aimed, Asking, Withdrawn, WorkerPcs, Whole
        <2> QED BY <2>1, <2>2, <2>3
    <1> QED
        BY <1>7, <1>8, <1>9, <1>10 DEF IInv

(* A retry looks at the steps.                                             *)
LEMMA ListForRetryKeeps ==
    ASSUME Calm, IInv, NEW c \in Requests, ListForRetry(c)
    PROVE  IInv'
    <1> DEFINE r == [call[c] EXCEPT !.pc = (IF steps = {} THEN "replan" ELSE "resume")]
    <1>1. TypeOK /\ c \in Callers
        BY DEF IInv
    <1>2. plans' \in {plans, plans + 1} /\ Becomes(c, r)
        BY DEF ListForRetry, Goto, Bounds
    <1>3. r \in Calling'
        BY <1>1, <1>2, Parts DEF Calling, ListForRetry, Goto, Bounds
    <1>4. call' \in [Callers -> Calling'] /\ call'[c] = r
              /\ \A d \in Callers \ {c} : call'[d] = call[d]
        <2> HIDE DEF r
        <2> QED BY <1>1, <1>2, <1>3, OneCall
    <1>5. /\ r.pc = (IF steps = {} THEN "replan" ELSE "resume") /\ r.op = call[c].op
          /\ r.copy = call[c].copy /\ r.plan = call[c].plan /\ r.made = call[c].made
          /\ call[c].pc = "list"
        BY <1>1, Parts DEF Calling, Calm, ListForRetry, Goto, Bounds
    <1>6. /\ UNCHANGED <<origin, retried, work, steps, queue, tracked, plans, starting, made, faults>>
        BY <1>1, Parts DEF rows, Calm, Calling, Row, Statuses, Ended, ListForRetry, Goto, Bounds
    <1> HIDE DEF r
    <1>7. TypeOK'
        BY <1>1, <1>4, <1>6, Parts DEF TypeOK, Calling
    <1>8. (Calls /\ Job /\ ByOrigin /\ Withdrawn)'
        BY <1>1, <1>4, <1>5, <1>6, Parts DEF IInv, Calls, Aimed, Counted, WorkerPcs, Job, ByOrigin,
           Withdrawn, Alone
    <1>9. (Alone /\ Asks)'
        BY <1>1, <1>4, <1>5, <1>6, Parts DEF IInv, Alone, Calls, Aimed, Asks
    <1>10. First'
        <2> SUFFICES ASSUME ~retried', ~retried PROVE (Plan /\ Asked /\ Planners /\ Runs)'
            BY <1>4, <1>5, <1>6 DEF First, IInv
        <2>1. (Plan /\ Asked)'
            BY <1>1, <1>4, <1>5, <1>6, Parts DEF IInv, First, Plan, Asked, Planners, Runs, Job,
               ByOrigin, Alone, Calls, Aimed, Asking, Withdrawn, Whole, Unanswered
        <2>2. Planners'
            BY <1>1, <1>4, <1>5, <1>6, Parts DEF IInv, First, Plan, Asked, Planners, Runs, Job,
               ByOrigin, Alone, Calls, Aimed, Asking, Withdrawn, Unanswered
        <2>3. Runs'
            BY <1>1, <1>4, <1>5, <1>6, Parts DEF IInv, First, Plan, Asked, Planners, Runs, Job,
               ByOrigin, Alone, Calls, Aimed, Asking, Withdrawn, WorkerPcs, Whole
        <2> QED BY <2>1, <2>2, <2>3
    <1> QED
        BY <1>7, <1>8, <1>9, <1>10 DEF IInv

(* A retry that resumes.                                                   *)
LEMMA WriteResumedKeeps ==
    ASSUME Calm, IInv, NEW c \in Requests, WriteRetried(c), At(c, "resume")
    PROVE  IInv'
    <1> DEFINE r == [call[c] EXCEPT !.pc = "enqueue"]
    <1>1. TypeOK /\ c \in Callers
        BY DEF IInv
    <1>2. plans' \in {plans, plans + 1} /\ Becomes(c, r)
        BY DEF WriteRetried, At, Goto, Writes, Bounds
    <1>3. r \in Calling'
        BY <1>1, <1>2, Parts DEF Calling, WriteRetried, At, Goto, Writes, Bounds
    <1>4. call' \in [Callers -> Calling'] /\ call'[c] = r
              /\ \A d \in Callers \ {c} : call'[d] = call[d]
        <2> HIDE DEF r
        <2> QED BY <1>1, <1>2, <1>3, OneCall
    <1>5. /\ r.pc = "enqueue" /\ r.op = call[c].op
          /\ r.copy = call[c].copy /\ r.plan = call[c].plan /\ r.made = call[c].made
          /\ call[c].pc = "resume"
        BY <1>1, Parts DEF Calling, Calm, WriteRetried, At, Goto, Writes, Bounds
    <1>6. /\ UNCHANGED <<origin, steps, queue, tracked, plans, starting, made, faults>>
          /\ work' \in Row /\ work'.status = "queued" /\ ~work'.stale
          /\ work'.plan = call[c].copy.plan /\ retried' = TRUE
        BY <1>1, Parts DEF rows, Calm, Calling, Row, Statuses, Ended, WriteRetried, At, Goto,
           Writes, Bounds
    <1> HIDE DEF r
    <1>7. TypeOK'
        BY <1>1, <1>4, <1>6, Parts DEF TypeOK, Calling
    <1>8. (Calls /\ Job /\ ByOrigin /\ Withdrawn)'
        BY <1>1, <1>4, <1>5, <1>6, Parts DEF IInv, Calls, Aimed, Counted, WorkerPcs, Job, ByOrigin,
           Withdrawn, Alone
    <1>9. (Alone /\ Asks)'
        BY <1>1, <1>4, <1>5, <1>6, Parts DEF IInv, Alone, Calls, Aimed, Asks
    <1>10. First'
        BY <1>6 DEF First
    <1> QED
        BY <1>7, <1>8, <1>9, <1>10 DEF IInv

(* A retry that plans again.                                               *)
LEMMA WriteReplannedKeeps ==
    ASSUME Calm, IInv, NEW c \in Requests, WriteRetried(c), ~At(c, "resume")
    PROVE  IInv'
    <1> DEFINE r == NoCall
    <1>1. TypeOK /\ c \in Callers
        BY DEF IInv
    <1>2. plans' \in {plans, plans + 1} /\ Becomes(c, r)
        BY DEF WriteRetried, At, Writes, Bounds, Answer, NoCall, NewWork
    <1>3. r \in Calling'
        BY <1>1, <1>2, Parts DEF Calling, WriteRetried, At, Writes, Bounds, Answer, NoCall, NewWork
    <1>4. call' \in [Callers -> Calling'] /\ call'[c] = r
              /\ \A d \in Callers \ {c} : call'[d] = call[d]
        <2> HIDE DEF r
        <2> QED BY <1>1, <1>2, <1>3, OneCall
    <1>5. /\ r.pc = "idle" /\ r.op = "none"
          /\ r.copy = NewWork /\ r.plan = 0 /\ r.made = 0
          /\ call[c].pc = "replan"
        BY <1>1, Parts DEF Calling, Calm, WriteRetried, At, Writes, Bounds, Answer, NoCall, NewWork
    <1>6. /\ UNCHANGED <<origin, steps, queue, tracked, plans, starting, made, faults>>
          /\ work' \in Row /\ work'.status = "queued" /\ ~work'.stale
          /\ work'.plan = call[c].copy.plan /\ retried' = TRUE
        BY <1>1, Parts DEF rows, Calm, Calling, Row, Statuses, Ended, WriteRetried, At, Writes,
           Bounds, Answer, NoCall, NewWork
    <1> HIDE DEF r
    <1>7. TypeOK'
        BY <1>1, <1>4, <1>6, Parts DEF TypeOK, Calling
    <1>8. (Calls /\ Job /\ ByOrigin /\ Withdrawn)'
        BY <1>1, <1>4, <1>5, <1>6, Parts DEF IInv, Calls, Aimed, Counted, WorkerPcs, Job, ByOrigin,
           Withdrawn, Alone
    <1>9. (Alone /\ Asks)'
        BY <1>1, <1>4, <1>5, <1>6, Parts DEF IInv, Alone, Calls, Aimed, Asks
    <1>10. First'
        BY <1>6 DEF First
    <1> QED
        BY <1>7, <1>8, <1>9, <1>10 DEF IInv

(* A cancellation takes the job away.                                      *)
LEMMA WithdrawJobKeeps ==
    ASSUME Calm, IInv, NEW c \in Requests, WithdrawJob(c), queue.status # "running"
    PROVE  IInv'
    <1> DEFINE r == [call[c] EXCEPT !.pc = "cancel"]
    <1>1. TypeOK /\ c \in Callers
        BY DEF IInv
    <1>2. plans' \in {plans, plans + 1} /\ Becomes(c, r)
        BY DEF WithdrawJob, Goto, Bounds
    <1>3. r \in Calling'
        BY <1>1, <1>2, Parts DEF Calling, WithdrawJob, Goto, Bounds
    <1>4. call' \in [Callers -> Calling'] /\ call'[c] = r
              /\ \A d \in Callers \ {c} : call'[d] = call[d]
        <2> HIDE DEF r
        <2> QED BY <1>1, <1>2, <1>3, OneCall
    <1>5. /\ r.pc = "cancel" /\ r.op = call[c].op
          /\ r.copy = call[c].copy /\ r.plan = call[c].plan /\ r.made = call[c].made
          /\ call[c].pc = "withdraw"
        BY <1>1, Parts DEF Calling, Calm, WithdrawJob, Goto, Bounds
    <1>6. /\ UNCHANGED <<origin, retried, work, steps, tracked, plans, starting, made, faults>>
          /\ queue' = [queue EXCEPT !.status = "idle"]
        BY <1>1, Parts DEF rows, Calm, Calling, Row, Statuses, Ended, WithdrawJob, Goto, Bounds
    <1> HIDE DEF r
    <1>7. TypeOK'
        BY <1>1, <1>4, <1>6, Parts DEF TypeOK, Calling
    <1>8. (Calls /\ Job /\ ByOrigin /\ Withdrawn)'
        BY <1>1, <1>4, <1>5, <1>6, Parts DEF IInv, Calls, Aimed, Counted, WorkerPcs, Job, ByOrigin,
           Withdrawn, Alone
    <1>9. (Alone /\ Asks)'
        BY <1>1, <1>4, <1>5, <1>6, Parts DEF IInv, Alone, Calls, Aimed, Asks
    <1>10. First'
        <2> SUFFICES ASSUME ~retried', ~retried PROVE (Plan /\ Asked /\ Planners /\ Runs)'
            BY <1>4, <1>5, <1>6 DEF First, IInv
        <2>1. (Plan /\ Asked)'
            BY <1>1, <1>4, <1>5, <1>6, Parts DEF IInv, First, Plan, Asked, Planners, Runs, Job,
               ByOrigin, Alone, Calls, Aimed, Asking, Withdrawn, Whole, Unanswered
        <2>2. Planners'
            BY <1>1, <1>4, <1>5, <1>6, Parts DEF IInv, First, Plan, Asked, Planners, Runs, Job,
               ByOrigin, Alone, Calls, Aimed, Asking, Withdrawn, Unanswered
        <2>3. Runs'
            BY <1>1, <1>4, <1>5, <1>6, Parts DEF IInv, First, Plan, Asked, Planners, Runs, Job,
               ByOrigin, Alone, Calls, Aimed, Asking, Withdrawn, WorkerPcs, Whole
        <2> QED BY <2>1, <2>2, <2>3
    <1> QED
        BY <1>7, <1>8, <1>9, <1>10 DEF IInv

(* It is refused while a worker runs it.                                   *)
LEMMA WithdrawRefusedKeeps ==
    ASSUME Calm, IInv, NEW c \in Requests, WithdrawJob(c), queue.status = "running"
    PROVE  IInv'
    <1> DEFINE r == NoCall
    <1>1. TypeOK /\ c \in Callers
        BY DEF IInv
    <1>2. plans' \in {plans, plans + 1} /\ Becomes(c, r)
        BY DEF WithdrawJob, Bounds, Answer, NoCall, NewWork
    <1>3. r \in Calling'
        BY <1>1, <1>2, Parts DEF Calling, WithdrawJob, Bounds, Answer, NoCall, NewWork
    <1>4. call' \in [Callers -> Calling'] /\ call'[c] = r
              /\ \A d \in Callers \ {c} : call'[d] = call[d]
        <2> HIDE DEF r
        <2> QED BY <1>1, <1>2, <1>3, OneCall
    <1>5. /\ r.pc = "idle" /\ r.op = "none"
          /\ r.copy = NewWork /\ r.plan = 0 /\ r.made = 0
          /\ call[c].pc = "withdraw"
        BY <1>1, Parts DEF Calling, Calm, WithdrawJob, Bounds, Answer, NoCall, NewWork
    <1>6. /\ UNCHANGED <<origin, retried, work, steps, queue, tracked, plans, starting, made, faults>>
        BY <1>1, Parts DEF rows, Calm, Calling, Row, Statuses, Ended, WithdrawJob, Bounds, Answer,
           NoCall, NewWork
    <1> HIDE DEF r
    <1>7. TypeOK'
        BY <1>1, <1>4, <1>6, Parts DEF TypeOK, Calling
    <1>8. (Calls /\ Job /\ ByOrigin /\ Withdrawn)'
        BY <1>1, <1>4, <1>5, <1>6, Parts DEF IInv, Calls, Aimed, Counted, WorkerPcs, Job, ByOrigin,
           Withdrawn, Alone
    <1>9. (Alone /\ Asks)'
        BY <1>1, <1>4, <1>5, <1>6, Parts DEF IInv, Alone, Calls, Aimed, Asks
    <1>10. First'
        <2> SUFFICES ASSUME ~retried', ~retried PROVE (Plan /\ Asked /\ Planners /\ Runs)'
            BY <1>4, <1>5, <1>6 DEF First, IInv
        <2>0. Plan'
            BY <1>6 DEF IInv, First, Plan, Whole
        <2>1. (Plan /\ Asked)'
            BY <1>1, <1>4, <1>5, <1>6, <2>0 DEF IInv, First, Asked, Whole
        <2>2. Planners'
            BY <1>1, <1>4, <1>5, <1>6, Parts DEF IInv, First, Plan, Asked, Planners, Runs, Job,
               ByOrigin, Alone, Calls, Aimed, Asking, Withdrawn, Unanswered
        <2>3. Runs'
            BY <1>1, <1>4, <1>5, <1>6, Parts DEF IInv, First, Plan, Asked, Planners, Runs, Job,
               ByOrigin, Alone, Calls, Aimed, Asking, Withdrawn, WorkerPcs, Whole
        <2> QED BY <2>1, <2>2, <2>3
    <1> QED
        BY <1>7, <1>8, <1>9, <1>10 DEF IInv

(* The mission is written cancelled.                                       *)
LEMMA WriteCancelledKeeps ==
    ASSUME Calm, IInv, NEW c \in Requests, WriteCancelled(c)
    PROVE  IInv'
    <1> DEFINE r == NoCall
    <1>1. TypeOK /\ c \in Callers
        BY DEF IInv
    <1>2. plans' \in {plans, plans + 1} /\ Becomes(c, r)
        BY DEF WriteCancelled, Writes, Bounds, Answer, NoCall, NewWork
    <1>3. r \in Calling'
        BY <1>1, <1>2, Parts DEF Calling, WriteCancelled, Writes, Bounds, Answer, NoCall, NewWork
    <1>4. call' \in [Callers -> Calling'] /\ call'[c] = r
              /\ \A d \in Callers \ {c} : call'[d] = call[d]
        <2> HIDE DEF r
        <2> QED BY <1>1, <1>2, <1>3, OneCall
    <1>5. /\ r.pc = "idle" /\ r.op = "none"
          /\ r.copy = NewWork /\ r.plan = 0 /\ r.made = 0
          /\ call[c].pc = "cancel"
        BY <1>1, Parts DEF Calling, Calm, WriteCancelled, Writes, Bounds, Answer, NoCall, NewWork
    <1>6. /\ UNCHANGED <<origin, retried, steps, queue, tracked, plans, starting, made, faults>>
          /\ work' \in Row /\ work'.status = "cancelled" /\ ~work'.stale
          /\ work'.plan = call[c].copy.plan
        BY <1>1, Parts DEF rows, Calm, Calling, Row, Statuses, Ended, WriteCancelled, Writes,
           Bounds, Answer, NoCall, NewWork
    <1> HIDE DEF r
    <1>7. TypeOK'
        BY <1>1, <1>4, <1>6, Parts DEF TypeOK, Calling
    <1>8. (Calls /\ Job /\ ByOrigin /\ Withdrawn)'
        BY <1>1, <1>4, <1>5, <1>6, Parts DEF IInv, Calls, Aimed, Counted, WorkerPcs, Job, ByOrigin,
           Withdrawn, Alone
    <1>9. (Alone /\ Asks)'
        BY <1>1, <1>4, <1>5, <1>6, Parts DEF IInv, Alone, Calls, Aimed, Asks
    <1>10. First'
        <2> SUFFICES ASSUME ~retried', ~retried PROVE (Plan /\ Asked /\ Planners /\ Runs)'
            BY <1>4, <1>5, <1>6 DEF First, IInv
        <2>1. (Plan /\ Asked)'
            BY <1>1, <1>4, <1>5, <1>6, Parts DEF IInv, First, Plan, Asked, Planners, Runs, Job,
               ByOrigin, Alone, Calls, Aimed, Asking, Withdrawn, Whole, Unanswered
        <2>2. Planners'
            BY <1>1, <1>4, <1>5, <1>6, Parts DEF IInv, First, Plan, Asked, Planners, Runs, Job,
               ByOrigin, Alone, Calls, Aimed, Asking, Withdrawn, Unanswered
        <2>3. Runs'
            BY <1>1, <1>4, <1>5, <1>6, Parts DEF IInv, First, Plan, Asked, Planners, Runs, Job,
               ByOrigin, Alone, Calls, Aimed, Asking, Withdrawn, WorkerPcs, Whole
        <2> QED BY <2>1, <2>2, <2>3
    <1> QED
        BY <1>7, <1>8, <1>9, <1>10 DEF IInv

(* The worker claims the job.                                              *)
LEMMA ClaimJobKeeps ==
    ASSUME Calm, IInv, ClaimJob
    PROVE  IInv'
    <1> DEFINE r == [NoCall EXCEPT
                        !.op = queue.reason,
                        !.pc = IF queue.reason = "scheduled" THEN "prepare" ELSE "enter"]
    <1>1. TypeOK /\ Worker \in Callers
        BY DEF IInv
    <1>2. plans' \in {plans, plans + 1} /\ Becomes(Worker, r)
        BY DEF ClaimJob, NoCall, Bounds
    <1>3. r \in Calling'
        BY <1>1, <1>2, Parts DEF Calling, ClaimJob, NoCall, Bounds
    <1>4. call' \in [Callers -> Calling'] /\ call'[Worker] = r
              /\ \A d \in Callers \ {Worker} : call'[d] = call[d]
        <2> HIDE DEF r
        <2> QED BY <1>1, <1>2, <1>3, OneCall
    <1>5. /\ r.pc = (IF queue.reason = "scheduled" THEN "prepare" ELSE "enter") /\ r.op = queue.reason
          /\ r.copy = NewWork /\ r.plan = 0 /\ r.made = 0
          /\ call[Worker].pc = "idle"
        BY <1>1, Parts DEF Calling, Calm, ClaimJob, NoCall, Bounds
    <1>6. /\ UNCHANGED <<origin, retried, work, steps, tracked, plans, starting, made, faults>>
          /\ queue.status = "queued" /\ queue' = [queue EXCEPT !.status = "running",
                                                   !.attempts = @ + 1]
        BY <1>1, Parts DEF rows, Calm, Calling, Row, Statuses, Ended, ClaimJob, NoCall, Bounds
    <1> HIDE DEF r
    <1>7. TypeOK'
        <2>1. queue.attempts + 1 \in 0 .. MaxAttempts
            BY <1>1, <1>6, Parts DEF IInv, Job
        <2>2. queue' \in [status: {"idle", "queued", "running"},
                          reason: {"none", "requested", "retry", "scheduled"},
                          attempts: 0 .. MaxAttempts]
            BY <1>1, <1>6, <2>1, Parts
        <2> QED
            BY <1>1, <1>4, <1>6, <2>2, Parts DEF TypeOK, Calling
    <1>8. (Calls /\ Job /\ ByOrigin /\ Withdrawn)'
        BY <1>1, <1>4, <1>5, <1>6, Parts DEF IInv, Calls, Aimed, Counted, WorkerPcs, Job, ByOrigin,
           Withdrawn, Alone
    <1>9. (Alone /\ Asks)'
        BY <1>1, <1>4, <1>5, <1>6, Parts DEF IInv, Alone, Calls, Aimed, Asks
    <1>10. First'
        <2> SUFFICES ASSUME ~retried', ~retried PROVE (Plan /\ Asked /\ Planners /\ Runs)'
            BY <1>4, <1>5, <1>6 DEF First, IInv
        <2>1. (Plan /\ Asked)'
            BY <1>1, <1>4, <1>5, <1>6, Parts DEF IInv, First, Plan, Asked, Planners, Runs, Job,
               ByOrigin, Alone, Calls, Aimed, Asking, Withdrawn, Whole, Unanswered
        <2>2. Planners'
            BY <1>1, <1>4, <1>5, <1>6, Parts DEF IInv, First, Plan, Asked, Planners, Runs, Job,
               ByOrigin, Alone, Calls, Aimed, Asking, Withdrawn, Unanswered
        <2>3. Runs'
            BY <1>1, <1>4, <1>5, <1>6, Parts DEF IInv, First, Plan, Asked, Planners, Runs, Job,
               ByOrigin, Alone, Calls, Aimed, Asking, Withdrawn, WorkerPcs, Whole
        <2> QED BY <2>1, <2>2, <2>3
    <1> QED
        BY <1>7, <1>8, <1>9, <1>10 DEF IInv

(* It reads the run.                                                       *)
LEMMA ReadRunKeeps ==
    ASSUME Calm, IInv, ReadRun
    PROVE  IInv'
    <1> DEFINE r == [call[Worker] EXCEPT
                        !.copy = work,
                        !.pc = IF work.status \in {"queued", "planning"} THEN "listed" ELSE "enter"]
    <1>1. TypeOK /\ Worker \in Callers
        BY DEF IInv
    <1>2. plans' \in {plans, plans + 1} /\ Becomes(Worker, r)
        BY DEF ReadRun, Bounds
    <1>3. r \in Calling'
        BY <1>1, <1>2, Parts DEF Calling, ReadRun, Bounds
    <1>4. call' \in [Callers -> Calling'] /\ call'[Worker] = r
              /\ \A d \in Callers \ {Worker} : call'[d] = call[d]
        <2> HIDE DEF r
        <2> QED BY <1>1, <1>2, <1>3, OneCall
    <1>5. /\ r.pc = (IF work.status \in {"queued", "planning"} THEN "listed" ELSE "enter")
                 /\ r.op = call[Worker].op
          /\ r.copy = work /\ r.plan = call[Worker].plan /\ r.made = call[Worker].made
          /\ call[Worker].pc = "prepare"
        BY <1>1, Parts DEF Calling, Calm, ReadRun, Bounds
    <1>6. /\ UNCHANGED <<origin, retried, work, steps, queue, tracked, plans, starting, made, faults>>
        BY <1>1, Parts DEF rows, Calm, Calling, Row, Statuses, Ended, ReadRun, Bounds
    <1> HIDE DEF r
    <1>7. TypeOK'
        BY <1>1, <1>4, <1>6, Parts DEF TypeOK, Calling
    <1>8. (Calls /\ Job /\ ByOrigin /\ Withdrawn)'
        BY <1>1, <1>4, <1>5, <1>6, Parts DEF IInv, Calls, Aimed, Counted, WorkerPcs, Job, ByOrigin,
           Withdrawn, Alone
    <1>9. (Alone /\ Asks)'
        BY <1>1, <1>4, <1>5, <1>6, Parts DEF IInv, Alone, Calls, Aimed, Asks
    <1>10. First'
        <2> SUFFICES ASSUME ~retried', ~retried PROVE (Plan /\ Asked /\ Planners /\ Runs)'
            BY <1>4, <1>5, <1>6 DEF First, IInv
        <2>1. (Plan /\ Asked)'
            BY <1>1, <1>4, <1>5, <1>6, Parts DEF IInv, First, Plan, Asked, Planners, Runs, Job,
               ByOrigin, Alone, Calls, Aimed, Asking, Withdrawn, Whole, Unanswered
        <2>2. Planners'
            BY <1>1, <1>4, <1>5, <1>6, Parts DEF IInv, First, Plan, Asked, Planners, Runs, Job,
               ByOrigin, Alone, Calls, Aimed, Asking, Withdrawn, Unanswered
        <2>3. Runs'
            BY <1>1, <1>4, <1>5, <1>6, Parts DEF IInv, First, Plan, Asked, Planners, Runs, Job,
               ByOrigin, Alone, Calls, Aimed, Asking, Withdrawn, WorkerPcs, Whole
        <2> QED BY <2>1, <2>2, <2>3
    <1> QED
        BY <1>7, <1>8, <1>9, <1>10 DEF IInv

(* It looks for steps.                                                     *)
LEMMA ListRunStepsKeeps ==
    ASSUME Calm, IInv, ListRunSteps
    PROVE  IInv'
    <1> DEFINE r == [call[Worker] EXCEPT
                        !.pc = (IF steps # {} THEN WithSteps(call[Worker].copy.status)
                                ELSE IF call[Worker].copy.status = "queued" THEN "begin" ELSE "read")]
    <1>1. TypeOK /\ Worker \in Callers
        BY DEF IInv
    <1>2. plans' \in {plans, plans + 1} /\ Becomes(Worker, r)
        BY DEF ListRunSteps, WithSteps, Goto, Bounds
    <1>3. r \in Calling'
        BY <1>1, <1>2, Parts DEF Calling, ListRunSteps, WithSteps, Goto, Bounds
    <1>4. call' \in [Callers -> Calling'] /\ call'[Worker] = r
              /\ \A d \in Callers \ {Worker} : call'[d] = call[d]
        <2> HIDE DEF r
        <2> QED BY <1>1, <1>2, <1>3, OneCall
    <1>5. /\ r.pc = (IF steps # {} THEN WithSteps(call[Worker].copy.status)
                     ELSE IF call[Worker].copy.status = "queued" THEN "begin" ELSE "read")
          /\ r.op = call[Worker].op
          /\ r.copy = call[Worker].copy /\ r.plan = call[Worker].plan /\ r.made = call[Worker].made
          /\ call[Worker].pc = "listed"
        BY <1>1, Parts DEF Calling, Calm, ListRunSteps, WithSteps, Goto, Bounds
    <1>6. /\ UNCHANGED <<origin, retried, work, steps, queue, tracked, plans, starting, made, faults>>
        BY <1>1, Parts DEF rows, Calm, Calling, Row, Statuses, Ended, ListRunSteps, WithSteps, Goto,
           Bounds
    <1> HIDE DEF r
    <1>7. TypeOK'
        BY <1>1, <1>4, <1>6, Parts DEF TypeOK, Calling
    <1>8. (Calls /\ Job /\ ByOrigin /\ Withdrawn)'
        BY <1>1, <1>4, <1>5, <1>6, Parts DEF IInv, Calls, Aimed, Counted, WorkerPcs, Job, ByOrigin,
           Withdrawn, Alone, WithSteps
    <1>9. (Alone /\ Asks)'
        BY <1>1, <1>4, <1>5, <1>6, Parts DEF IInv, Alone, Calls, Aimed, Asks, WithSteps
    <1>10. First'
        <2> SUFFICES ASSUME ~retried', ~retried PROVE (Plan /\ Asked /\ Planners /\ Runs)'
            BY <1>4, <1>5, <1>6 DEF First, IInv
        <2>1. (Plan /\ Asked)'
            BY <1>1, <1>4, <1>5, <1>6, Parts DEF IInv, First, Plan, Asked, Planners, Runs, Job,
               ByOrigin, Alone, Calls, Aimed, Asking, Withdrawn, Whole, Unanswered, WithSteps
        <2>2. Planners'
            BY <1>1, <1>4, <1>5, <1>6, Parts, WholeHasSteps DEF IInv, First, Plan, Asked, Planners,
               Runs, Job, ByOrigin, Alone, Calls, Aimed, Asking, Withdrawn, Unanswered, WithSteps
        <2>3. Runs'
            BY <1>1, <1>4, <1>5, <1>6, Parts DEF IInv, First, Plan, Asked, Planners, Runs, Job,
               ByOrigin, Alone, Calls, Aimed, Asking, Withdrawn, WorkerPcs, WithSteps
        <2> QED BY <2>1, <2>2, <2>3
    <1> QED
        BY <1>7, <1>8, <1>9, <1>10 DEF IInv

(* It marks the mission as being planned.                                  *)
LEMMA BeginRunKeeps ==
    ASSUME Calm, IInv, BeginRun
    PROVE  IInv'
    <1> DEFINE r == [call[Worker] EXCEPT !.pc = "read"]
    <1>1. TypeOK /\ Worker \in Callers
        BY DEF IInv
    <1>2. plans' \in {plans, plans + 1} /\ Becomes(Worker, r)
        BY DEF BeginRun, Goto, Writes, Bounds
    <1>3. r \in Calling'
        BY <1>1, <1>2, Parts DEF Calling, BeginRun, Goto, Writes, Bounds
    <1>4. call' \in [Callers -> Calling'] /\ call'[Worker] = r
              /\ \A d \in Callers \ {Worker} : call'[d] = call[d]
        <2> HIDE DEF r
        <2> QED BY <1>1, <1>2, <1>3, OneCall
    <1>5. /\ r.pc = "read" /\ r.op = call[Worker].op
          /\ r.copy = call[Worker].copy /\ r.plan = call[Worker].plan /\ r.made = call[Worker].made
          /\ call[Worker].pc = "begin"
        BY <1>1, Parts DEF Calling, Calm, BeginRun, Goto, Writes, Bounds
    <1>6. /\ UNCHANGED <<origin, retried, steps, queue, tracked, plans, starting, made, faults>>
          /\ work' \in Row /\ work'.plan = work.plan
          /\ work.status = "queued" => work'.status = "planning" /\ ~work'.stale
          /\ work.status # "queued" => work' = work
        <2>1. CASE work.status = "queued"
            <3>1. Writes([work EXCEPT !.status = "planning"])
                BY <2>1 DEF BeginRun
            <3>2. work' \in Row /\ work'.status = "planning" /\ ~work'.stale
                      /\ work'.plan = work.plan
                BY <1>1, <3>1, RowWritten, Parts DEF Statuses, Ended
            <3> QED
                BY <2>1, <3>2 DEF BeginRun, Bounds
        <2>2. CASE work.status # "queued"
            <3>1. work' = work
                BY <2>2 DEF BeginRun
            <3> QED
                BY <1>1, <2>2, <3>1, Parts DEF BeginRun, Bounds
        <2> QED
            BY <2>1, <2>2
    <1> HIDE DEF r
    <1>7. TypeOK'
        BY <1>1, <1>4, <1>6, Parts DEF TypeOK, Calling
    <1>8. (Calls /\ Job /\ ByOrigin /\ Withdrawn)'
        BY <1>1, <1>4, <1>5, <1>6, Parts DEF IInv, Calls, Aimed, Counted, WorkerPcs, Job, ByOrigin,
           Withdrawn, Alone
    <1>9. (Alone /\ Asks)'
        BY <1>1, <1>4, <1>5, <1>6, Parts DEF IInv, Alone, Calls, Aimed, Asks
    <1>10. First'
        <2> SUFFICES ASSUME ~retried', ~retried PROVE (Plan /\ Asked /\ Planners /\ Runs)'
            BY <1>4, <1>5, <1>6 DEF First, IInv
        <2>1. (Plan /\ Asked)'
            BY <1>1, <1>4, <1>5, <1>6, Parts DEF IInv, First, Plan, Asked, Planners, Runs, Job,
               ByOrigin, Alone, Calls, Aimed, Asking, Withdrawn, Whole, Unanswered
        <2>2. Planners'
            BY <1>1, <1>4, <1>5, <1>6, Parts, WholeHasSteps DEF IInv, First, Plan, Asked, Planners,
               Runs, Job, ByOrigin, Alone, Calls, Aimed, Asking, Withdrawn, Unanswered
        <2>3. Runs'
            BY <1>1, <1>4, <1>5, <1>6, Parts DEF IInv, First, Plan, Asked, Planners, Runs, Job,
               ByOrigin, Alone, Calls, Aimed, Asking, Withdrawn, WorkerPcs, Whole
        <2> QED BY <2>1, <2>2, <2>3
    <1> QED
        BY <1>7, <1>8, <1>9, <1>10 DEF IInv

(* It has planned.                                                         *)
LEMMA RunPlannedKeeps ==
    ASSUME Calm, IInv, RunPlanned
    PROVE  IInv'
    <1> DEFINE r == [call[Worker] EXCEPT !.pc = (IF call[Worker].copy.status = "queued" THEN "enter"
                                                  ELSE "close")]
    <1>1. TypeOK /\ Worker \in Callers
        BY DEF IInv
    <1>2. plans' \in {plans, plans + 1} /\ Becomes(Worker, r)
        BY DEF RunPlanned, Goto, Bounds
    <1>3. r \in Calling'
        BY <1>1, <1>2, Parts DEF Calling, RunPlanned, Goto, Bounds
    <1>4. call' \in [Callers -> Calling'] /\ call'[Worker] = r
              /\ \A d \in Callers \ {Worker} : call'[d] = call[d]
        <2> HIDE DEF r
        <2> QED BY <1>1, <1>2, <1>3, OneCall
    <1>5. /\ r.pc = (IF call[Worker].copy.status = "queued" THEN "enter" ELSE "close")
                 /\ r.op = call[Worker].op
          /\ r.copy = call[Worker].copy /\ r.plan = call[Worker].plan /\ r.made = call[Worker].made
          /\ call[Worker].pc = "planned"
        BY <1>1, Parts DEF Calling, Calm, RunPlanned, Goto, Bounds
    <1>6. /\ UNCHANGED <<origin, retried, work, steps, queue, tracked, plans, starting, made, faults>>
        BY <1>1, Parts DEF rows, Calm, Calling, Row, Statuses, Ended, RunPlanned, Goto, Bounds
    <1> HIDE DEF r
    <1>7. TypeOK'
        BY <1>1, <1>4, <1>6, Parts DEF TypeOK, Calling
    <1>8. (Calls /\ Job /\ ByOrigin /\ Withdrawn)'
        BY <1>1, <1>4, <1>5, <1>6, Parts DEF IInv, Calls, Aimed, Counted, WorkerPcs, Job, ByOrigin,
           Withdrawn, Alone
    <1>9. (Alone /\ Asks)'
        BY <1>1, <1>4, <1>5, <1>6, Parts DEF IInv, Alone, Calls, Aimed, Asks
    <1>10. First'
        <2> SUFFICES ASSUME ~retried', ~retried PROVE (Plan /\ Asked /\ Planners /\ Runs)'
            BY <1>4, <1>5, <1>6 DEF First, IInv
        <2>1. (Plan /\ Asked)'
            BY <1>1, <1>4, <1>5, <1>6, Parts DEF IInv, First, Plan, Asked, Planners, Runs, Job,
               ByOrigin, Alone, Calls, Aimed, Asking, Withdrawn, Whole, Unanswered
        <2>2. Planners'
            BY <1>1, <1>4, <1>5, <1>6, Parts DEF IInv, First, Plan, Asked, Planners, Runs, Job,
               ByOrigin, Alone, Calls, Aimed, Asking, Withdrawn, Unanswered
        <2>3. Runs'
            BY <1>1, <1>4, <1>5, <1>6, Parts DEF IInv, First, Plan, Asked, Planners, Runs, Job,
               ByOrigin, Alone, Calls, Aimed, Asking, Withdrawn, WorkerPcs, Whole
        <2> QED BY <2>1, <2>2, <2>3
    <1> QED
        BY <1>7, <1>8, <1>9, <1>10 DEF IInv

(* It reads the mission to execute.                                        *)
LEMMA EnterRunKeeps ==
    ASSUME Calm, IInv, EnterRun
    PROVE  IInv'
    <1> DEFINE r == [call[Worker] EXCEPT
                        !.copy = work,
                        !.pc = CASE work.status = "queued"    -> "start"
                                 [] work.status = "executing" -> "load"
                                 [] work.status = "completed" -> "close"
                                 [] OTHER                     -> "threw"]
    <1>1. TypeOK /\ Worker \in Callers
        BY DEF IInv
    <1>2. plans' \in {plans, plans + 1} /\ Becomes(Worker, r)
        BY DEF EnterRun, Bounds
    <1>3. r \in Calling'
        BY <1>1, <1>2, Parts DEF Calling, EnterRun, Bounds
    <1>4. call' \in [Callers -> Calling'] /\ call'[Worker] = r
              /\ \A d \in Callers \ {Worker} : call'[d] = call[d]
        <2> HIDE DEF r
        <2> QED BY <1>1, <1>2, <1>3, OneCall
    <1>5. /\ r.pc = (CASE work.status = "queued"    -> "start"
                       [] work.status = "executing" -> "load"
                       [] work.status = "completed" -> "close"
                       [] OTHER                     -> "threw")
          /\ r.op = call[Worker].op
          /\ r.copy = work /\ r.plan = call[Worker].plan /\ r.made = call[Worker].made
          /\ call[Worker].pc = "enter"
        BY <1>1, Parts DEF Calling, Calm, EnterRun, Bounds
    <1>6. /\ UNCHANGED <<origin, retried, work, steps, queue, tracked, plans, starting, made, faults>>
        BY <1>1, Parts DEF rows, Calm, Calling, Row, Statuses, Ended, EnterRun, Bounds
    <1> HIDE DEF r
    <1>7. TypeOK'
        BY <1>1, <1>4, <1>6, Parts DEF TypeOK, Calling
    <1>8. (Calls /\ Job /\ ByOrigin /\ Withdrawn)'
        BY <1>1, <1>4, <1>5, <1>6, Parts DEF IInv, Calls, Aimed, Counted, WorkerPcs, Job, ByOrigin,
           Withdrawn, Alone
    <1>9. (Alone /\ Asks)'
        BY <1>1, <1>4, <1>5, <1>6, Parts DEF IInv, Alone, Calls, Aimed, Asks
    <1>10. First'
        <2> SUFFICES ASSUME ~retried', ~retried PROVE (Plan /\ Asked /\ Planners /\ Runs)'
            BY <1>4, <1>5, <1>6 DEF First, IInv
        <2>1. (Plan /\ Asked)'
            BY <1>1, <1>4, <1>5, <1>6, Parts DEF IInv, First, Plan, Asked, Planners, Runs, Job,
               ByOrigin, Alone, Calls, Aimed, Asking, Withdrawn, Whole, Unanswered
        <2>2. Planners'
            BY <1>1, <1>4, <1>5, <1>6, Parts DEF IInv, First, Plan, Asked, Planners, Runs, Job,
               ByOrigin, Alone, Calls, Aimed, Asking, Withdrawn, Unanswered
        <2>3. Runs'
            BY <1>1, <1>4, <1>5, <1>6, Parts DEF IInv, First, Plan, Asked, Planners, Runs, Job,
               ByOrigin, Alone, Calls, Aimed, Asking, Withdrawn, WorkerPcs, Whole
        <2> QED BY <2>1, <2>2, <2>3
    <1> QED
        BY <1>7, <1>8, <1>9, <1>10 DEF IInv

(* It starts it.                                                           *)
LEMMA StartRunKeeps ==
    ASSUME Calm, IInv, StartRun
    PROVE  IInv'
    <1> DEFINE r == [call[Worker] EXCEPT !.pc = "load"]
    <1>1. TypeOK /\ Worker \in Callers
        BY DEF IInv
    <1>2. plans' \in {plans, plans + 1} /\ Becomes(Worker, r)
        BY DEF StartRun, Goto, Writes, Bounds
    <1>3. r \in Calling'
        BY <1>1, <1>2, Parts DEF Calling, StartRun, Goto, Writes, Bounds
    <1>4. call' \in [Callers -> Calling'] /\ call'[Worker] = r
              /\ \A d \in Callers \ {Worker} : call'[d] = call[d]
        <2> HIDE DEF r
        <2> QED BY <1>1, <1>2, <1>3, OneCall
    <1>5. /\ r.pc = "load" /\ r.op = call[Worker].op
          /\ r.copy = call[Worker].copy /\ r.plan = call[Worker].plan /\ r.made = call[Worker].made
          /\ call[Worker].pc = "start"
        BY <1>1, Parts DEF Calling, Calm, StartRun, Goto, Writes, Bounds
    <1>6. /\ UNCHANGED <<origin, retried, steps, queue, tracked, plans, starting, made, faults>>
          /\ work' \in Row /\ work'.status = "executing" /\ ~work'.stale
          /\ work'.plan = call[Worker].copy.plan
        BY <1>1, Parts DEF rows, Calm, Calling, Row, Statuses, Ended, StartRun, Goto, Writes, Bounds
    <1> HIDE DEF r
    <1>7. TypeOK'
        BY <1>1, <1>4, <1>6, Parts DEF TypeOK, Calling
    <1>8. (Calls /\ Job /\ ByOrigin /\ Withdrawn)'
        BY <1>1, <1>4, <1>5, <1>6, Parts DEF IInv, Calls, Aimed, Counted, WorkerPcs, Job, ByOrigin,
           Withdrawn, Alone
    <1>9. (Alone /\ Asks)'
        BY <1>1, <1>4, <1>5, <1>6, Parts DEF IInv, Alone, Calls, Aimed, Asks
    <1>10. First'
        <2> SUFFICES ASSUME ~retried', ~retried PROVE (Plan /\ Asked /\ Planners /\ Runs)'
            BY <1>4, <1>5, <1>6 DEF First, IInv
        <2>0. Whole(steps) /\ Whole(steps)' /\ steps # {} /\ work'.plan
            BY <1>1, <1>5, <1>6, WholeHasSteps DEF IInv, First, Runs, Whole
        <2>1. (Plan /\ Asked)'
            BY <1>1, <1>4, <1>5, <1>6, <2>0, Parts DEF IInv, First, Plan, Asked, Planners, Runs, Job,
               ByOrigin, Alone, Calls, Aimed, Asking, Withdrawn, Unanswered
        <2>2. Planners'
            BY <1>1, <1>4, <1>5, <1>6, Parts DEF IInv, First, Plan, Asked, Planners, Runs, Job,
               ByOrigin, Alone, Calls, Aimed, Asking, Withdrawn, Unanswered
        <2>3. Runs'
            BY <1>1, <1>4, <1>5, <1>6, Parts DEF IInv, First, Plan, Asked, Planners, Runs, Job,
               ByOrigin, Alone, Calls, Aimed, Asking, Withdrawn, WorkerPcs, Whole
        <2> QED BY <2>1, <2>2, <2>3
    <1> QED
        BY <1>7, <1>8, <1>9, <1>10 DEF IInv

(* It reads the steps.                                                     *)
LEMMA LoadStepsKeeps ==
    ASSUME Calm, IInv, LoadSteps
    PROVE  IInv'
    <1> DEFINE r == [call[Worker] EXCEPT !.pc = (IF steps = {} THEN "failed" ELSE "run")]
    <1>1. TypeOK /\ Worker \in Callers
        BY DEF IInv
    <1>2. plans' \in {plans, plans + 1} /\ Becomes(Worker, r)
        BY DEF LoadSteps, Goto, Bounds
    <1>3. r \in Calling'
        BY <1>1, <1>2, Parts DEF Calling, LoadSteps, Goto, Bounds
    <1>4. call' \in [Callers -> Calling'] /\ call'[Worker] = r
              /\ \A d \in Callers \ {Worker} : call'[d] = call[d]
        <2> HIDE DEF r
        <2> QED BY <1>1, <1>2, <1>3, OneCall
    <1>5. /\ r.pc = (IF steps = {} THEN "failed" ELSE "run") /\ r.op = call[Worker].op
          /\ r.copy = call[Worker].copy /\ r.plan = call[Worker].plan /\ r.made = call[Worker].made
          /\ call[Worker].pc = "load"
        BY <1>1, Parts DEF Calling, Calm, LoadSteps, Goto, Bounds
    <1>6. /\ UNCHANGED <<origin, retried, work, steps, queue, tracked, plans, starting, made, faults>>
        BY <1>1, Parts DEF rows, Calm, Calling, Row, Statuses, Ended, LoadSteps, Goto, Bounds
    <1> HIDE DEF r
    <1>7. TypeOK'
        BY <1>1, <1>4, <1>6, Parts DEF TypeOK, Calling
    <1>8. (Calls /\ Job /\ ByOrigin /\ Withdrawn)'
        BY <1>1, <1>4, <1>5, <1>6, Parts DEF IInv, Calls, Aimed, Counted, WorkerPcs, Job, ByOrigin,
           Withdrawn, Alone
    <1>9. (Alone /\ Asks)'
        BY <1>1, <1>4, <1>5, <1>6, Parts DEF IInv, Alone, Calls, Aimed, Asks
    <1>10. First'
        <2> SUFFICES ASSUME ~retried', ~retried PROVE (Plan /\ Asked /\ Planners /\ Runs)'
            BY <1>4, <1>5, <1>6 DEF First, IInv
        <2>1. (Plan /\ Asked)'
            BY <1>1, <1>4, <1>5, <1>6, Parts DEF IInv, First, Plan, Asked, Planners, Runs, Job,
               ByOrigin, Alone, Calls, Aimed, Asking, Withdrawn, Whole, Unanswered
        <2>2. Planners'
            BY <1>1, <1>4, <1>5, <1>6, Parts DEF IInv, First, Plan, Asked, Planners, Runs, Job,
               ByOrigin, Alone, Calls, Aimed, Asking, Withdrawn, Unanswered
        <2>3. Runs'
            BY <1>1, <1>4, <1>5, <1>6, Parts DEF IInv, First, Plan, Asked, Planners, Runs, Job,
               ByOrigin, Alone, Calls, Aimed, Asking, Withdrawn, WorkerPcs, Whole
        <2> QED BY <2>1, <2>2, <2>3
    <1> QED
        BY <1>7, <1>8, <1>9, <1>10 DEF IInv

(* It ends it.                                                             *)
LEMMA EndRunKeeps ==
    ASSUME Calm, IInv, EndRun
    PROVE  IInv'
    <1> DEFINE r == [call[Worker] EXCEPT !.pc = "close"]
    <1>1. TypeOK /\ Worker \in Callers
        BY DEF IInv
    <1>2. plans' \in {plans, plans + 1} /\ Becomes(Worker, r)
        BY DEF EndRun, Goto, Writes, At, Bounds
    <1>3. r \in Calling'
        BY <1>1, <1>2, Parts DEF Calling, EndRun, Goto, Writes, At, Bounds
    <1>4. call' \in [Callers -> Calling'] /\ call'[Worker] = r
              /\ \A d \in Callers \ {Worker} : call'[d] = call[d]
        <2> HIDE DEF r
        <2> QED BY <1>1, <1>2, <1>3, OneCall
    <1>5. /\ r.pc = "close" /\ r.op = call[Worker].op
          /\ r.copy = call[Worker].copy /\ r.plan = call[Worker].plan /\ r.made = call[Worker].made
          /\ call[Worker].pc \in {"run", "failed"}
        BY <1>1, Parts DEF Calling, Calm, EndRun, Goto, Writes, At, Bounds
    <1>6. /\ UNCHANGED <<origin, retried, steps, queue, tracked, plans, starting, made, faults>>
          /\ work' \in Row /\ work'.status \in {"completed", "failed"} /\ ~work'.stale
          /\ work'.plan = call[Worker].copy.plan
        <2>1. PICK s \in {"completed", "failed"} : Writes([call[Worker].copy EXCEPT !.status = s])
            BY DEF EndRun
        <2>2. call[Worker].copy \in Row
            BY <1>1, Parts DEF Calling
        <2>3. /\ work' \in Row /\ work'.status = s /\ ~work'.stale
              /\ work'.plan = call[Worker].copy.plan
            BY <2>1, <2>2, RowWritten DEF Statuses, Ended
        <2> QED
            BY <2>3 DEF EndRun, Bounds
    <1> HIDE DEF r
    <1>7. TypeOK'
        BY <1>1, <1>4, <1>6, Parts DEF TypeOK, Calling
    <1>8. (Calls /\ Job /\ ByOrigin /\ Withdrawn)'
        BY <1>1, <1>4, <1>5, <1>6, Parts DEF IInv, Calls, Aimed, Counted, WorkerPcs, Job, ByOrigin,
           Withdrawn, Alone
    <1>9. (Alone /\ Asks)'
        BY <1>1, <1>4, <1>5, <1>6, Parts DEF IInv, Alone, Calls, Aimed, Asks
    <1>10. First'
        <2> SUFFICES ASSUME ~retried', ~retried PROVE (Plan /\ Asked /\ Planners /\ Runs)'
            BY <1>4, <1>5, <1>6 DEF First, IInv
        <2>0. Whole(steps) /\ Whole(steps)' /\ steps # {} /\ work'.plan
            BY <1>1, <1>5, <1>6, WholeHasSteps DEF IInv, First, Runs, Whole
        <2>1. (Plan /\ Asked)'
            BY <1>1, <1>4, <1>5, <1>6, <2>0, Parts DEF IInv, First, Plan, Asked, Planners, Runs, Job,
               ByOrigin, Alone, Calls, Aimed, Asking, Withdrawn, Unanswered
        <2>2. Planners'
            BY <1>1, <1>4, <1>5, <1>6, Parts DEF IInv, First, Plan, Asked, Planners, Runs, Job,
               ByOrigin, Alone, Calls, Aimed, Asking, Withdrawn, Unanswered
        <2>3. Runs'
            BY <1>1, <1>4, <1>5, <1>6, Parts DEF IInv, First, Plan, Asked, Planners, Runs, Job,
               ByOrigin, Alone, Calls, Aimed, Asking, Withdrawn, WorkerPcs, Whole
        <2> QED BY <2>1, <2>2, <2>3
    <1> QED
        BY <1>7, <1>8, <1>9, <1>10 DEF IInv

(* Another attempt later.                                                  *)
LEMMA RunThrewKeeps ==
    ASSUME Calm, IInv, RunThrew, queue.attempts < MaxAttempts
    PROVE  IInv'
    <1> DEFINE r == NoCall
    <1>1. TypeOK /\ Worker \in Callers
        BY DEF IInv
    <1>2. plans' \in {plans, plans + 1} /\ Becomes(Worker, r)
        BY DEF RunThrew, Bounds, Answer, NoCall, NewWork
    <1>3. r \in Calling'
        BY <1>1, <1>2, Parts DEF Calling, RunThrew, Bounds, Answer, NoCall, NewWork
    <1>4. call' \in [Callers -> Calling'] /\ call'[Worker] = r
              /\ \A d \in Callers \ {Worker} : call'[d] = call[d]
        <2> HIDE DEF r
        <2> QED BY <1>1, <1>2, <1>3, OneCall
    <1>5. /\ r.pc = "idle" /\ r.op = "none"
          /\ r.copy = NewWork /\ r.plan = 0 /\ r.made = 0
          /\ call[Worker].pc = "threw"
        BY <1>1, Parts DEF Calling, Calm, RunThrew, Bounds, Answer, NoCall, NewWork
    <1>6. /\ UNCHANGED <<origin, retried, work, steps, tracked, plans, starting, made, faults>>
          /\ queue' = [queue EXCEPT !.status = "queued"]
        BY <1>1, Parts DEF rows, Calm, Calling, Row, Statuses, Ended, RunThrew, Bounds, Answer,
           NoCall, NewWork
    <1> HIDE DEF r
    <1>7. TypeOK'
        BY <1>1, <1>4, <1>6, Parts DEF TypeOK, Calling
    <1>8. (Calls /\ Job /\ ByOrigin /\ Withdrawn)'
        BY <1>1, <1>4, <1>5, <1>6, Parts DEF IInv, Calls, Aimed, Counted, WorkerPcs, Job, ByOrigin,
           Withdrawn, Alone
    <1>9. (Alone /\ Asks)'
        BY <1>1, <1>4, <1>5, <1>6, Parts DEF IInv, Alone, Calls, Aimed, Asks
    <1>10. First'
        <2> SUFFICES ASSUME ~retried', ~retried PROVE (Plan /\ Asked /\ Planners /\ Runs)'
            BY <1>4, <1>5, <1>6 DEF First, IInv
        <2>1. (Plan /\ Asked)'
            BY <1>1, <1>4, <1>5, <1>6, Parts DEF IInv, First, Plan, Asked, Planners, Runs, Job,
               ByOrigin, Alone, Calls, Aimed, Asking, Withdrawn, Whole, Unanswered
        <2>2. Planners'
            BY <1>1, <1>4, <1>5, <1>6, Parts DEF IInv, First, Plan, Asked, Planners, Runs, Job,
               ByOrigin, Alone, Calls, Aimed, Asking, Withdrawn, Unanswered
        <2>3. Runs'
            BY <1>1, <1>4, <1>5, <1>6, Parts DEF IInv, First, Plan, Asked, Planners, Runs, Job,
               ByOrigin, Alone, Calls, Aimed, Asking, Withdrawn, WorkerPcs, Whole
        <2> QED BY <2>1, <2>2, <2>3
    <1> QED
        BY <1>7, <1>8, <1>9, <1>10 DEF IInv

(* Or none.                                                                *)
LEMMA RunGivesUpKeeps ==
    ASSUME Calm, IInv, RunThrew, ~(queue.attempts < MaxAttempts)
    PROVE  IInv'
    <1> DEFINE r == [call[Worker] EXCEPT !.pc = "interrupted"]
    <1>1. TypeOK /\ Worker \in Callers
        BY DEF IInv
    <1>2. plans' \in {plans, plans + 1} /\ Becomes(Worker, r)
        BY DEF RunThrew, Goto, Bounds
    <1>3. r \in Calling'
        BY <1>1, <1>2, Parts DEF Calling, RunThrew, Goto, Bounds
    <1>4. call' \in [Callers -> Calling'] /\ call'[Worker] = r
              /\ \A d \in Callers \ {Worker} : call'[d] = call[d]
        <2> HIDE DEF r
        <2> QED BY <1>1, <1>2, <1>3, OneCall
    <1>5. /\ r.pc = "interrupted" /\ r.op = call[Worker].op
          /\ r.copy = call[Worker].copy /\ r.plan = call[Worker].plan /\ r.made = call[Worker].made
          /\ call[Worker].pc = "threw"
        BY <1>1, Parts DEF Calling, Calm, RunThrew, Goto, Bounds
    <1>6. /\ UNCHANGED <<origin, retried, work, steps, queue, tracked, plans, starting, made, faults>>
        BY <1>1, Parts DEF rows, Calm, Calling, Row, Statuses, Ended, RunThrew, Goto, Bounds
    <1> HIDE DEF r
    <1>7. TypeOK'
        BY <1>1, <1>4, <1>6, Parts DEF TypeOK, Calling
    <1>8. (Calls /\ Job /\ ByOrigin /\ Withdrawn)'
        BY <1>1, <1>4, <1>5, <1>6, Parts DEF IInv, Calls, Aimed, Counted, WorkerPcs, Job, ByOrigin,
           Withdrawn, Alone
    <1>9. (Alone /\ Asks)'
        BY <1>1, <1>4, <1>5, <1>6, Parts DEF IInv, Alone, Calls, Aimed, Asks
    <1>10. First'
        <2> SUFFICES ASSUME ~retried', ~retried PROVE (Plan /\ Asked /\ Planners /\ Runs)'
            BY <1>4, <1>5, <1>6 DEF First, IInv
        <2>1. (Plan /\ Asked)'
            BY <1>1, <1>4, <1>5, <1>6, Parts DEF IInv, First, Plan, Asked, Planners, Runs, Job,
               ByOrigin, Alone, Calls, Aimed, Asking, Withdrawn, Whole, Unanswered
        <2>2. Planners'
            BY <1>1, <1>4, <1>5, <1>6, Parts DEF IInv, First, Plan, Asked, Planners, Runs, Job,
               ByOrigin, Alone, Calls, Aimed, Asking, Withdrawn, Unanswered
        <2>3. Runs'
            BY <1>1, <1>4, <1>5, <1>6, Parts DEF IInv, First, Plan, Asked, Planners, Runs, Job,
               ByOrigin, Alone, Calls, Aimed, Asking, Withdrawn, WorkerPcs, Whole
        <2> QED BY <2>1, <2>2, <2>3
    <1> QED
        BY <1>7, <1>8, <1>9, <1>10 DEF IInv

(* The failure is recorded.                                                *)
LEMMA RecordRunFailureKeeps ==
    ASSUME Calm, IInv, RecordRunFailure
    PROVE  IInv'
    <1> DEFINE r == [call[Worker] EXCEPT !.pc = "close"]
    <1>1. TypeOK /\ Worker \in Callers
        BY DEF IInv
    <1>2. plans' \in {plans, plans + 1} /\ Becomes(Worker, r)
        BY DEF RecordRunFailure, RecordsFailureOn, Goto, Writes, Bounds
    <1>3. r \in Calling'
        BY <1>1, <1>2, Parts DEF Calling, RecordRunFailure, RecordsFailureOn, Goto, Writes, Bounds
    <1>4. call' \in [Callers -> Calling'] /\ call'[Worker] = r
              /\ \A d \in Callers \ {Worker} : call'[d] = call[d]
        <2> HIDE DEF r
        <2> QED BY <1>1, <1>2, <1>3, OneCall
    <1>5. /\ r.pc = "close" /\ r.op = call[Worker].op
          /\ r.copy = call[Worker].copy /\ r.plan = call[Worker].plan /\ r.made = call[Worker].made
          /\ call[Worker].pc = "interrupted"
        BY <1>1, Parts DEF Calling, Calm, RecordRunFailure, RecordsFailureOn, Goto, Writes, Bounds
    <1>6. /\ UNCHANGED <<origin, retried, steps, queue, tracked, plans, starting, made, faults>>
          /\ work' \in Row /\ work'.plan = work.plan
          /\ work' = work \/ (work'.status = "failed" /\ ~work'.stale)
          /\ work.status \in {"completed", "failed"} => work' = work
          /\ work.status \notin {"completed", "failed"} => work'.status = "failed"
        <2>1. CASE RecordsFailureOn(work.status)
            <3>1. Writes([work EXCEPT !.status = "failed"])
                BY <2>1 DEF RecordRunFailure
            <3>2. work' \in Row /\ work'.status = "failed" /\ ~work'.stale /\ work'.plan = work.plan
                     
                BY <1>1, <3>1, RowWritten, Parts DEF Statuses, Ended
            <3> QED
                BY <2>1, <3>2 DEF RecordRunFailure, RecordsFailureOn, Bounds
        <2>2. CASE ~RecordsFailureOn(work.status)
            <3>1. work' = work
                BY <2>2 DEF RecordRunFailure
            <3> QED
                BY <1>1, <2>2, <3>1, Parts DEF RecordRunFailure, RecordsFailureOn, Bounds
        <2> QED
            BY <2>1, <2>2
    <1> HIDE DEF r
    <1>7. TypeOK'
        BY <1>1, <1>4, <1>6, Parts DEF TypeOK, Calling
    <1>8. (Calls /\ Job /\ ByOrigin /\ Withdrawn)'
        BY <1>1, <1>4, <1>5, <1>6, Parts DEF IInv, Calls, Aimed, Counted, WorkerPcs, Job, ByOrigin,
           Withdrawn, Alone
    <1>9. (Alone /\ Asks)'
        BY <1>1, <1>4, <1>5, <1>6, Parts DEF IInv, Alone, Calls, Aimed, Asks
    <1>10. First'
        <2> SUFFICES ASSUME ~retried', ~retried PROVE (Plan /\ Asked /\ Planners /\ Runs)'
            BY <1>4, <1>5, <1>6 DEF First, IInv
        <2>1. (Plan /\ Asked)'
            BY <1>1, <1>4, <1>5, <1>6, Parts DEF IInv, First, Plan, Asked, Planners, Runs, Job,
               ByOrigin, Alone, Calls, Aimed, Asking, Withdrawn, Whole, Unanswered
        <2>2. Planners'
            BY <1>1, <1>4, <1>5, <1>6, Parts DEF IInv, First, Plan, Asked, Planners, Runs, Job,
               ByOrigin, Alone, Calls, Aimed, Asking, Withdrawn, Unanswered
        <2>3. Runs'
            BY <1>1, <1>4, <1>5, <1>6, Parts DEF IInv, First, Plan, Asked, Planners, Runs, Job,
               ByOrigin, Alone, Calls, Aimed, Asking, Withdrawn, WorkerPcs, Whole
        <2> QED BY <2>1, <2>2, <2>3
    <1> QED
        BY <1>7, <1>8, <1>9, <1>10 DEF IInv

(* The job ends.                                                           *)
LEMMA CloseJobKeeps ==
    ASSUME Calm, IInv, CloseJob
    PROVE  IInv'
    <1> DEFINE r == NoCall
    <1>1. TypeOK /\ Worker \in Callers
        BY DEF IInv
    <1>2. plans' \in {plans, plans + 1} /\ Becomes(Worker, r)
        BY DEF CloseJob, At, Bounds, Answer, NoCall, NewWork
    <1>3. r \in Calling'
        BY <1>1, <1>2, Parts DEF Calling, CloseJob, At, Bounds, Answer, NoCall, NewWork
    <1>4. call' \in [Callers -> Calling'] /\ call'[Worker] = r
              /\ \A d \in Callers \ {Worker} : call'[d] = call[d]
        <2> HIDE DEF r
        <2> QED BY <1>1, <1>2, <1>3, OneCall
    <1>5. /\ r.pc = "idle" /\ r.op = "none"
          /\ r.copy = NewWork /\ r.plan = 0 /\ r.made = 0
          /\ call[Worker].pc \in {"close", "failjob"}
        BY <1>1, Parts DEF Calling, Calm, CloseJob, At, Bounds, Answer, NoCall, NewWork
    <1>6. /\ UNCHANGED <<origin, retried, work, steps, tracked, plans, starting, made, faults>>
          /\ queue' = [queue EXCEPT !.status = "idle"]
        BY <1>1, Parts DEF rows, Calm, Calling, Row, Statuses, Ended, CloseJob, At, Bounds, Answer,
           NoCall, NewWork
    <1> HIDE DEF r
    <1>7. TypeOK'
        BY <1>1, <1>4, <1>6, Parts DEF TypeOK, Calling
    <1>8. (Calls /\ Job /\ ByOrigin /\ Withdrawn)'
        BY <1>1, <1>4, <1>5, <1>6, Parts DEF IInv, Calls, Aimed, Counted, WorkerPcs, Job, ByOrigin,
           Withdrawn, Alone
    <1>9. (Alone /\ Asks)'
        BY <1>1, <1>4, <1>5, <1>6, Parts DEF IInv, Alone, Calls, Aimed, Asks
    <1>10. First'
        <2> SUFFICES ASSUME ~retried', ~retried PROVE (Plan /\ Asked /\ Planners /\ Runs)'
            BY <1>4, <1>5, <1>6 DEF First, IInv
        <2>1. (Plan /\ Asked)'
            BY <1>1, <1>4, <1>5, <1>6, Parts DEF IInv, First, Plan, Asked, Planners, Runs, Job,
               ByOrigin, Alone, Calls, Aimed, Asking, Withdrawn, Whole, Unanswered
        <2>2. Planners'
            BY <1>1, <1>4, <1>5, <1>6, Parts DEF IInv, First, Plan, Asked, Planners, Runs, Job,
               ByOrigin, Alone, Calls, Aimed, Asking, Withdrawn, Unanswered
        <2>3. Runs'
            BY <1>1, <1>4, <1>5, <1>6, Parts DEF IInv, First, Plan, Asked, Planners, Runs, Job,
               ByOrigin, Alone, Calls, Aimed, Asking, Withdrawn, WorkerPcs, Whole
        <2> QED BY <2>1, <2>2, <2>3
    <1> QED
        BY <1>7, <1>8, <1>9, <1>10 DEF IInv

(* The worker dies.                                                        *)
LEMMA WorkerDiesKeeps ==
    ASSUME Calm, IInv, WorkerDies
    PROVE  IInv'
    <1> DEFINE r == NoCall
    <1>1. TypeOK /\ Worker \in Callers
        BY DEF IInv
    <1>2. plans' \in {plans, plans + 1} /\ Becomes(Worker, r)
        BY DEF WorkerDies, Fault, At, Answer, NoCall, NewWork
    <1>3. r \in Calling'
        BY <1>1, <1>2, Parts DEF Calling, WorkerDies, Fault, At, Answer, NoCall, NewWork
    <1>4. call' \in [Callers -> Calling'] /\ call'[Worker] = r
              /\ \A d \in Callers \ {Worker} : call'[d] = call[d]
        <2> HIDE DEF r
        <2> QED BY <1>1, <1>2, <1>3, OneCall
    <1>5. /\ r.pc = "idle" /\ r.op = "none"
          /\ r.copy = NewWork /\ r.plan = 0 /\ r.made = 0
          /\ call[Worker].pc # "idle"
        BY <1>1, Parts DEF Calling, Calm, WorkerDies, Fault, At, Answer, NoCall, NewWork
    <1>6. /\ UNCHANGED <<origin, retried, work, steps, queue, tracked, plans, starting, made>>
          /\ faults' = faults + 1
        BY <1>1, Parts DEF rows, Calm, Calling, Row, Statuses, Ended, WorkerDies, Fault, At, Answer,
           NoCall, NewWork
    <1> HIDE DEF r
    <1>7. TypeOK'
        BY <1>1, <1>4, <1>6, Parts DEF TypeOK, Calling
    <1>8. (Calls /\ Job /\ ByOrigin /\ Withdrawn)'
        BY <1>1, <1>4, <1>5, <1>6, Parts DEF IInv, Calls, Aimed, Counted, WorkerPcs, Job, ByOrigin,
           Withdrawn, Alone
    <1>9. (Alone /\ Asks)'
        BY <1>1, <1>4, <1>5, <1>6, Parts DEF IInv, Alone, Calls, Aimed, Asks
    <1>10. First'
        <2> SUFFICES ASSUME ~retried', ~retried PROVE (Plan /\ Asked /\ Planners /\ Runs)'
            BY <1>4, <1>5, <1>6 DEF First, IInv
        <2>1. (Plan /\ Asked)'
            BY <1>1, <1>4, <1>5, <1>6, Parts DEF IInv, First, Plan, Asked, Planners, Runs, Job,
               ByOrigin, Alone, Calls, Aimed, Asking, Withdrawn, Whole, Unanswered
        <2>2. Planners'
            BY <1>1, <1>4, <1>5, <1>6, Parts DEF IInv, First, Plan, Asked, Planners, Runs, Job,
               ByOrigin, Alone, Calls, Aimed, Asking, Withdrawn, Unanswered
        <2>3. Runs'
            BY <1>1, <1>4, <1>5, <1>6, Parts DEF IInv, First, Plan, Asked, Planners, Runs, Job,
               ByOrigin, Alone, Calls, Aimed, Asking, Withdrawn, WorkerPcs, Whole
        <2> QED BY <2>1, <2>2, <2>3
    <1> QED
        BY <1>7, <1>8, <1>9, <1>10 DEF IInv

(* A lapsed lease: the job waits again, or is ended with the mission.      *)
LEMMA RecoverJobKeeps ==
    ASSUME Calm, IInv, RecoverJob
    PROVE  IInv'
    <1>1. TypeOK /\ queue.status = "running" /\ call[Worker].pc = "idle"
        BY DEF IInv, RecoverJob
    <1>2. /\ UNCHANGED <<origin, retried, steps, tracked, call, plans, starting, made, faults>>
          /\ queue' \in {[queue EXCEPT !.status = "queued"], [queue EXCEPT !.status = "idle"]}
          /\ queue'.status = "queued" => queue.attempts < MaxAttempts
          /\ work' \in Row /\ work'.plan = work.plan
          /\ work' = work \/ (work.status \notin Ended /\ work'.status = "failed" /\ ~work'.stale
                               /\ queue'.status = "idle")
        <2>1. CASE queue.attempts < MaxAttempts
            BY <1>1, <2>1, Parts DEF RecoverJob, Bounds
        <2>2. CASE ~(queue.attempts < MaxAttempts) /\ work.status \in Ended
            BY <1>1, <2>2, Parts DEF RecoverJob, Bounds
        <2>3. CASE ~(queue.attempts < MaxAttempts) /\ work.status \notin Ended
            <3>1. Writes([work EXCEPT !.status = "failed"])
                BY <2>3 DEF RecoverJob
            <3>2. work' \in Row /\ work'.status = "failed" /\ ~work'.stale /\ work'.plan = work.plan
                     
                BY <1>1, <3>1, RowWritten, Parts DEF Statuses, Ended
            <3> QED
                BY <1>1, <2>3, <3>2, Parts DEF RecoverJob, Bounds
        <2> QED
            BY <2>1, <2>2, <2>3
    <1>3. TypeOK'
        BY <1>1, <1>2, Parts DEF TypeOK
    <1>4. (Calls /\ Job /\ ByOrigin /\ Withdrawn)'
        BY <1>1, <1>2, Parts DEF IInv, Calls, Aimed, Counted, WorkerPcs, Job, ByOrigin, Withdrawn,
           Alone, Ended
    <1>5. (Alone /\ Asks)'
        BY <1>1, <1>2, Parts DEF IInv, Alone, Asks
    <1>6. First'
        <2> SUFFICES ASSUME ~retried PROVE (Plan /\ Asked /\ Planners /\ Runs)'
            BY <1>2 DEF First
        <2>1. (Plan /\ Asked /\ Runs)'
            BY <1>1, <1>2, Parts DEF IInv, First, Plan, Asked, Runs, Ended, Whole, ByOrigin, Calls,
               Aimed
        <2>2. Planners'
            BY <1>1, <1>2, Parts DEF IInv, First, Plan, Planners, ByOrigin, Calls, Aimed, Asking,
               Unanswered, Ended
        <2> QED
            BY <2>1, <2>2
    <1> QED
        BY <1>3, <1>4, <1>5, <1>6 DEF IInv

(* The API stops, and its requests with it.                                *)
LEMMA ApiRestartsKeeps ==
    ASSUME Calm, IInv, ApiRestarts
    PROVE  IInv'
    <1>1. TypeOK
        BY DEF IInv
    <1>2. /\ UNCHANGED <<origin, retried, work, steps, queue, plans, made>>
          /\ starting' \in BOOLEAN /\ tracked' \in BOOLEAN /\ faults' = faults + 1
        BY DEF ApiRestarts, Fault, rows
    <1>3. /\ call' \in [Callers -> Calling] /\ call'[Worker] = call[Worker]
          /\ \A c \in Requests : call'[c].pc = "idle" /\ call'[c].op = "none"
        BY <1>1, Parts DEF ApiRestarts, NoCall, NewWork
    <1>4. TypeOK'
        <2> HIDE DEF Calling
        <2>1. call' \in [Callers -> Calling']
            BY <1>2, <1>3 DEF Calling
        <2> QED
            BY <1>1, <1>2, <2>1 DEF TypeOK, Calling
    <1>5. (Calls /\ Job /\ ByOrigin /\ Withdrawn)'
        BY <1>1, <1>2, <1>3, Parts DEF IInv, Calls, Aimed, Counted, WorkerPcs, Job, ByOrigin,
           Withdrawn
    <1>6. (Alone /\ Asks)'
        BY <1>1, <1>2, <1>3, Parts DEF IInv, Alone, Asks
    <1>7. First'
        <2> SUFFICES ASSUME ~retried PROVE (Plan /\ Asked /\ Planners /\ Runs)'
            BY <1>2 DEF First
        <2>1. (Plan /\ Asked /\ Runs)'
            BY <1>1, <1>2, <1>3, Parts DEF IInv, First, Plan, Asked, Runs, Whole
        <2>2. Planners'
            BY <1>1, <1>2, <1>3, Parts DEF IInv, First, Planners, Asking, Unanswered, PlanOf
        <2> QED
            BY <2>1, <2>2
    <1> QED
        BY <1>4, <1>5, <1>6, <1>7 DEF IInv

(* The API starts, and ends what nobody plans or executes any more.        *)
LEMMA ApiStartedKeeps ==
    ASSUME Calm, IInv, ApiStarted
    PROVE  IInv'
    <1>1. TypeOK /\ starting /\ \A c \in Requests : call[c].pc = "idle"
        BY DEF IInv, Job, ApiStarted
    <1>2. /\ UNCHANGED <<origin, retried, steps, queue, tracked, call, plans, made, faults>>
                 /\ starting' = FALSE
          /\ work' \in Row /\ work'.plan = work.plan
          /\ work' = work \/ (queue.status = "idle" /\ work'.status = "failed" /\ ~work'.stale)
        <2>1. CASE Abandoned
            <3>1. Writes([work EXCEPT !.status = "failed"])
                BY <2>1 DEF ApiStarted, AbandonedBecomes
            <3>2. work' \in Row /\ work'.status = "failed" /\ ~work'.stale /\ work'.plan = work.plan
                     
                BY <1>1, <3>1, RowWritten, Parts DEF Statuses, Ended
            <3> QED
                BY <1>1, <2>1, <3>2, Parts DEF ApiStarted, Abandoned
        <2>2. CASE ~Abandoned
            BY <1>1, <2>2, Parts DEF ApiStarted
        <2> QED
            BY <2>1, <2>2
    <1>3. TypeOK'
        BY <1>1, <1>2, Parts DEF TypeOK
    <1>4. (Calls /\ Job /\ ByOrigin /\ Withdrawn)'
        BY <1>1, <1>2, Parts DEF IInv, Calls, Aimed, Counted, Job, ByOrigin, Withdrawn
    <1>5. (Alone /\ Asks)'
        BY <1>1, <1>2, Parts DEF IInv, Alone, Asks
    <1>6. First'
        <2> SUFFICES ASSUME ~retried PROVE (Plan /\ Asked /\ Planners /\ Runs)'
            BY <1>2 DEF First
        <2>1. (Plan /\ Asked /\ Runs)'
            BY <1>1, <1>2, Parts DEF IInv, First, Plan, Asked, Runs, Whole, Job
        <2>2. Planners'
            BY <1>1, <1>2, Parts DEF IInv, First, Planners, Job, Asking, Unanswered, PlanOf
        <2> QED
            BY <2>1, <2>2
    <1> QED
        BY <1>3, <1>4, <1>5, <1>6 DEF IInv

(* A mission nobody plans any more has been planned for too long.          *)
LEMMA TimePassesKeeps ==
    ASSUME Calm, IInv, TimePasses
    PROVE  IInv'
    <1>1. TypeOK /\ work.status = "planning" /\ \A c \in Callers : call[c].pc \notin Planning
        BY DEF IInv, TimePasses, Calm, BeingPlanned
    <1>2. /\ UNCHANGED <<origin, retried, steps, queue, tracked, call, starting, plans, made, faults>>
          /\ work' \in Row /\ work'.status = "planning" /\ work'.plan = work.plan
                
        BY <1>1, Parts DEF TimePasses, Row
    <1>3. TypeOK'
        BY <1>1, <1>2, Parts DEF TypeOK
    <1>4. (Calls /\ Job /\ ByOrigin /\ Withdrawn)'
        BY <1>1, <1>2, Parts DEF IInv, Calls, Aimed, Counted, Job, ByOrigin, Withdrawn
    <1>5. (Alone /\ Asks)'
        BY <1>1, <1>2, Parts DEF IInv, Alone, Asks
    <1>6. First'
        <2> SUFFICES ASSUME ~retried PROVE (Plan /\ Asked /\ Planners /\ Runs)'
            BY <1>2 DEF First
        <2>1. (Plan /\ Asked /\ Runs)'
            BY <1>1, <1>2, Parts DEF IInv, First, Plan, Asked, Runs, Whole
        <2>2. Planners'
            BY <1>1, <1>2 DEF Planners
        <2> QED
            BY <2>1, <2>2
    <1> QED
        BY <1>3, <1>4, <1>5, <1>6 DEF IInv

-----------------------------------------------------------------------------
(* The invariant.                                                          *)

LEMMA InitInv == Init => IInv
    <1> SUFFICES ASSUME Init PROVE IInv
        OBVIOUS
    <1>1. /\ origin \in Origins /\ origin \in {"person", "schedule"} /\ work = NewWork /\ retried = FALSE /\ steps = {}
          /\ call = [c \in Callers |-> NoCall] /\ plans = 0
          /\ tracked = FALSE /\ starting = FALSE /\ made = 0 /\ faults = 0
          /\ queue.status # "running" /\ queue.attempts = 0
                 /\ (queue.status # "idle" => queue.reason = "scheduled")
          /\ origin = "person" => queue.reason = "none"
          /\ queue \in [status: {"idle", "queued", "running"},
                        reason: {"none", "requested", "retry", "scheduled"},
                            attempts: 0 .. MaxAttempts]
        BY DEF Init
    <1>2. NewWork \in Row /\ NewWork.status = "queued" /\ ~NewWork.plan
              /\ ~NewWork.stale
        BY DEF NewWork, Row, Statuses, Ended
    <1>3. NoCall \in Calling /\ NoCall.pc = "idle" /\ NoCall.op = "none" /\ NoCall.copy = NewWork
        BY <1>1, <1>2 DEF NoCall, Calling
    <1>4. call \in [Callers -> Calling] /\ \A c \in Callers : call[c] = NoCall
        BY <1>1, <1>3
    <1> HIDE DEF NoCall, NewWork
    <1>5. TypeOK
        BY <1>1, <1>2, <1>4 DEF TypeOK, Calling
    <1>6. Calls /\ Job /\ ByOrigin /\ Withdrawn
        BY <1>1, <1>2, <1>3, <1>4 DEF Calls, Aimed, Counted, WorkerPcs, Job, ByOrigin, Withdrawn
    <1>7. Alone  /\ Asks
        BY <1>1, <1>2, <1>3, <1>4 DEF Alone, Asks
    <1>8. First
        BY <1>1, <1>2, <1>3, <1>4 DEF First, Plan, Asked, Planners, Runs
    <1> QED
        BY <1>5, <1>6, <1>7, <1>8 DEF IInv

LEMMA PlanStepKeeps ==
    ASSUME Calm, IInv, NEW c \in Callers, PlanStep(c)
    PROVE  IInv'
    <1>1. CASE ReadForPlan(c)
        BY <1>1, ReadPlanningKeeps, ReadQueuedKeeps, ReadRefusedKeeps
    <1>2. CASE Recheck(c)
        BY <1>2, RecheckKeeps, RecheckLeavesKeeps
    <1> QED
        BY <1>1, <1>2, MarkPlanningKeeps, AskModelKeeps, CreateStepKeeps, FinishPlanKeeps,
           RecordPlanKeeps, PlanThrowsKeeps, RecordPlanFailureKeeps, LosePlanKeeps, PlanLostKeeps
           DEF PlanStep

LEMMA OpenKeeps ==
    ASSUME Calm, IInv, NEW c \in Requests, Open(c)
    PROVE  IInv'
    <1>1. CASE OpenLaunch(c)
        <2>1. PICK o \in Launches : Opens(c, o, "begin") /\ origin = "person"
                                    /\ work.status = "queued" /\ ~work.plan /\ ~tracked
            BY <1>1 DEF OpenLaunch, MayBePlanned, Calm
        <2> QED
            BY <2>1, LaunchOpensKeeps
    <1> QED
        BY <1>1, OpenPlanKeeps, OpenStartKeeps, OpenRetryKeeps, OpenCancelKeeps DEF Open

LEMMA RequestStepKeeps ==
    ASSUME Calm, IInv, NEW c \in Requests, RequestStep(c)
    PROVE  IInv'
    <1>1. CASE BeginPlanning(c)
        BY <1>1, BeginPlanningKeeps, BeginTrackedKeeps, BeginRefusedKeeps
    <1>2. CASE CheckStart(c)
        BY <1>2, CheckStartKeeps, CheckRefusedKeeps
    <1>3. CASE WriteRetried(c)
        BY <1>3, WriteResumedKeeps, WriteReplannedKeeps
    <1>4. CASE WithdrawJob(c)
        BY <1>4, WithdrawJobKeeps, WithdrawRefusedKeeps
    <1> QED
        BY <1>1, <1>2, <1>3, <1>4, AfterPlanKeeps, SettleKeeps, EnqueueKeeps, ListForRetryKeeps,
           WriteCancelledKeeps DEF RequestStep

LEMMA WorkerStepKeeps ==
    ASSUME Calm, IInv, WorkerStep
    PROVE  IInv'
    BY ClaimJobKeeps, ReadRunKeeps, ListRunStepsKeeps, BeginRunKeeps, RunPlannedKeeps,
       EnterRunKeeps, StartRunKeeps, LoadStepsKeeps, EndRunKeeps, RunThrewKeeps, RunGivesUpKeeps,
       RecordRunFailureKeeps, CloseJobKeeps DEF WorkerStep

LEMMA StutterKeeps ==
    ASSUME IInv, UNCHANGED vars
    PROVE  IInv'
    <1>1. UNCHANGED <<origin, retried, work, steps, queue, tracked, call, starting, plans, made, faults>>
        BY DEF vars
    <1>2. TypeOK'
        BY <1>1 DEF IInv, TypeOK
    <1>3. (Calls /\ Job /\ ByOrigin /\ Alone /\ Withdrawn  /\ Asks)'
        BY <1>1 DEF IInv, Calls, Counted, Job, ByOrigin, Alone, Withdrawn, Asks
    <1>4. First'
        BY <1>1 DEF IInv, First, Plan, Asked, Planners, Asking, Unanswered, Runs, Whole
    <1> QED
        BY <1>2, <1>3, <1>4 DEF IInv

LEMMA StepKeeps ==
    ASSUME Calm, IInv, [Next]_vars
    PROVE  IInv'
    BY PlanStepKeeps, OpenKeeps, RequestStepKeeps, WorkerStepKeeps, WorkerDiesKeeps,
       RecoverJobKeeps, ApiRestartsKeeps, ApiStartedKeeps, TimePassesKeeps, StutterKeeps DEF Next

LEMMA Invariance == ASSUME Calm PROVE Spec => []IInv
    BY InitInv, StepKeeps, PTL DEF Spec

-----------------------------------------------------------------------------
(* What follows.                                                           *)

(* A set of one thing at most has one at most.                             *)
LEMMA OneAtMost ==
    ASSUME NEW S, NEW p, S \subseteq {p}
    PROVE  Cardinality(S) <= 1
    <1>1. IsFiniteSet({p}) /\ Cardinality({p}) = 1
        BY FS_Singleton
    <1> QED
        BY <1>1, FS_Subset

LEMMA InvOneWholePlan == IInv => OneWholePlan
    <1> SUFFICES ASSUME IInv PROVE OneWholePlan
        OBVIOUS
    <1>1. TypeOK
        BY DEF IInv
    <1>2. ASSUME ~retried PROVE Cardinality(PlansIn(steps)) <= 1
        <2>1. PICK p \in Nat : steps \subseteq {p} \X (1 .. PlanSize)
            BY <1>2 DEF IInv, First, Plan
        <2>2. PlansIn(steps) \subseteq {p}
            BY <2>1 DEF PlansIn
        <2> QED
            BY <2>2, OneAtMost
    <1>3. ASSUME ~retried PROVE work.plan => Whole(steps)
        BY <1>3 DEF IInv, First, Plan
    <1>4. ASSUME ~retried PROVE RunsWholePlan
        BY <1>4 DEF IInv, First, Plan, Runs, RunsWholePlan
    <1> QED
        BY <1>1, <1>2, <1>3, <1>4 DEF OneWholePlan

(* The steps of a mission nobody retried were written by one planning call *)
(* of planWork, whoever made it: its plan is whole when it says it has one *)
(* and when the worker executes it.                                        *)
THEOREM PlannedOnce == ASSUME Calm PROVE Spec => []OneWholePlan
    BY Invariance, InvOneWholePlan, PTL

(* Nobody is about to write the plan of a cancelled mission, or that there *)
(* is none, unless it is a person's and was retried.                       *)
LEMMA NobodyPlansCancelled ==
    ASSUME IInv, work.status = "cancelled", ~retried \/ origin = "schedule", NEW c \in Callers
    PROVE  call[c].pc \notin Drafting
    <1>1. CASE ~retried
        BY <1>1 DEF IInv, First, Planners
    <1>2. CASE origin = "schedule"
        BY <1>2 DEF IInv, Withdrawn, Job
    <1> QED
        BY <1>1, <1>2

(* When WriteCancelled has cancelled a scheduled run, or any mission       *)
(* nobody retried, at most a planner is left that has written its plan and *)
(* puts it on record, or records that this threw (planWork, from its last  *)
(* event on).                                                              *)
THEOREM CancelledIsNotPlanned ==
    ASSUME Calm
    PROVE  Spec => [](work.status = "cancelled" /\ (~retried \/ origin = "schedule") =>
                        \A c \in Callers :
                            call[c].pc \in Planning => call[c].pc \in {"record", "undo", "lost"})
    <1>1. IInv => (work.status = "cancelled" /\ (~retried \/ origin = "schedule") =>
                        \A c \in Callers :
                            call[c].pc \in Planning => call[c].pc \in {"record", "undo", "lost"})
        BY NobodyPlansCancelled
    <1> QED
        BY <1>1, Invariance, PTL

(* Where missions are not retried, or only schedules make them, a planner  *)
(* that has not written its plan yet (planWork before its last event)      *)
(* writes nothing over a cancelled mission.                                *)
THEOREM NothingOverCancelled ==
    ASSUME Calm, "retry" \notin Ops \/ "person" \notin Origins
    PROVE  Spec => PlannerLeavesCancelled
    <1>1. IInv => (work.status = "cancelled" /\ work' # work =>
                        \A c \in Callers : call[c].pc \in {"mark", "finish", "fail"} =>
                                            call'[c] = call[c])
        <2> SUFFICES ASSUME IInv, work.status = "cancelled" PROVE ~retried \/ origin = "schedule"
            BY NobodyPlansCancelled
        <2> QED
            BY Parts DEF IInv, Asks
    <1> QED
        BY <1>1, Invariance, PTL DEF Spec, PlannerLeavesCancelled

-----------------------------------------------------------------------------
(***************************************************************************)
(* What planning pins: the skills (Skills).  Its variables are not those   *)
(* of a mission, so it is taken in as an instance.                         *)
(*                                                                         *)
(* For any number of rows, authors, steps and changes, a ref and a version *)
(* are one definition, on record when it was pinned, and the only one of   *)
(* its skill that the step follows.  Whoever writes a row writes a number  *)
(* above every number of that skill that anybody holds (NoneAhead),        *)
(* because the update matches the version that was read; whatever else is  *)
(* held was held before.                                                   *)
(***************************************************************************)
CONSTANTS
    Ids, Texts, System, SystemText, Editors, Steps, InWorkspace, None, MaxVersion

VARIABLES
    skills, versions, edit, step

Skill == INSTANCE Skills


(* No definition of a row is newer than the row.                           *)
NoneAhead == \A d \in Skill!Held : \A id \in Ids : d.ref = id => d.version <= skills[id].version

(* Only a step that ran followed something, of the number it pinned.       *)
RanItsNumber ==
    \A t \in Steps : /\ step[t].pc # "ran" => step[t].ran = Skill!NoDef
                     /\ step[t].ran # Skill!NoDef => step[t].ran.version = step[t].pin.version

SkillIInv == Skill!TypeOK /\ Skill!OneDefinition /\ NoneAhead /\ Skill!PinsOnRecord /\ RanItsNumber

-----------------------------------------------------------------------------
(* Types.                                                                  *)

LEMMA ConstantsTyped ==
    ASSUME Skill!SkillsAssumption
    PROVE  /\ Skill!NoRow \in Skill!Rows /\ Skill!NoDef \in Skill!Defs
        /\ Skill!SystemSkills \subseteq Skill!Defs
           /\ \A id \in Ids : \A row \in Skill!Rows : Skill!DefOf(id, row) \in Skill!Defs
BY DEF Skill!SkillsAssumption, Skill!NoRow, Skill!NoDef, Skill!Rows, Skill!Defs, Skill!Statuses,
   Skill!SystemSkills, Skill!DefOf

LEMMA EffectiveHeld ==
    ASSUME NEW t, NEW d \in Skill!Effective(t)
    PROVE  d \in Skill!Held
<1>1. d \in Skill!SystemSkills \cup {Skill!DefOf(id, skills[id])
                                      : id \in {i \in Ids : Skill!Applies(t, i)}}
  BY DEF Skill!Effective
<1>2. CASE d \in Skill!SystemSkills
  BY <1>2 DEF Skill!Held
<1>3. CASE d \in {Skill!DefOf(id, skills[id]) : id \in {i \in Ids : Skill!Applies(t, i)}}
  <2>1. d \in {Skill!DefOf(id, skills[id]) : id \in Ids}
    BY <1>3
  <2> QED BY <2>1 DEF Skill!Held
<1> QED BY <1>1, <1>2, <1>3

LEMMA HeldTyped ==
    ASSUME Skill!SkillsAssumption, Skill!TypeOK
    PROVE  Skill!Held \subseteq Skill!Defs
<1> USE ConstantsTyped DEF Skill!TypeOK
<1>1. {Skill!DefOf(id, skills[id]) : id \in Ids} \subseteq Skill!Defs
  OBVIOUS
<1>2. {Skill!DefOf(edit[e].id, edit[e].next) : e \in {f \in Editors : edit[f].pc = "record"}}
          \subseteq Skill!Defs
  OBVIOUS
<1>3. {step[t].pin : t \in Steps} \subseteq Skill!Defs
          /\ {step[t].ran : t \in Steps} \subseteq Skill!Defs
  OBVIOUS
<1> QED BY <1>1, <1>2, <1>3 DEF Skill!Held

LEMMA RecordTyped ==
    ASSUME NEW d, versions \subseteq Skill!Held, d \in Skill!Held
    PROVE  /\ Skill!WithRecord(d) \subseteq Skill!Held /\ versions \subseteq Skill!WithRecord(d)
           /\ \E on \in Skill!WithRecord(d) : Skill!SameVersion(d, on)
BY DEF Skill!WithRecord, Skill!SameVersion

-----------------------------------------------------------------------------
(* Whatever is held after a step was held before, or is the new row.       *)

LEMMA HeldWithin ==
    ASSUME NEW S, Skill!NoDef \in S, Skill!SystemSkills \subseteq S, versions' \subseteq S,
           \A id \in Ids : Skill!DefOf(id, skills'[id]) \in S,
           \A e \in Editors : edit'[e].pc = "record" => Skill!DefOf(edit'[e].id, edit'[e].next) \in S,
           \A t \in Steps : step'[t].pin \in S /\ step'[t].ran \in S
    PROVE  Skill!Held' \subseteq S
<1>1. {Skill!DefOf(id, skills[id]) : id \in Ids}' \subseteq S
  BY DEF Skill!DefOf
<1>2. {Skill!DefOf(edit[e].id, edit[e].next) : e \in {f \in Editors : edit[f].pc = "record"}}'
          \subseteq S
  BY DEF Skill!DefOf
<1>3. {step[t].pin : t \in Steps}' \subseteq S /\ {step[t].ran : t \in Steps}' \subseteq S
  OBVIOUS
<1>4. Skill!SystemSkills' = Skill!SystemSkills /\ Skill!NoDef' = Skill!NoDef
  BY DEF Skill!SystemSkills, Skill!NoDef
<1> QED BY <1>1, <1>2, <1>3, <1>4 DEF Skill!Held

LEMMA HeldParts ==
    /\ Skill!NoDef \in Skill!Held /\ Skill!SystemSkills \subseteq Skill!Held
           /\ versions \subseteq Skill!Held
    /\ \A id \in Ids : Skill!DefOf(id, skills[id]) \in Skill!Held
    /\ \A e \in Editors : edit[e].pc = "record"
           => Skill!DefOf(edit[e].id, edit[e].next) \in Skill!Held
    /\ \A t \in Steps : step[t].pin \in Skill!Held /\ step[t].ran \in Skill!Held
<1>1. \A id \in Ids : Skill!DefOf(id, skills[id]) \in {Skill!DefOf(i, skills[i]) : i \in Ids}
  OBVIOUS
<1>2. \A e \in Editors : edit[e].pc = "record" => Skill!DefOf(edit[e].id, edit[e].next) \in
          {Skill!DefOf(edit[f].id, edit[f].next) : f \in {g \in Editors : edit[g].pc = "record"}}
  OBVIOUS
<1>3. \A t \in Steps : /\ step[t].pin \in {step[u].pin : u \in Steps}
                       /\ step[t].ran \in {step[u].ran : u \in Steps}
  OBVIOUS
<1> QED BY <1>1, <1>2, <1>3 DEF Skill!Held

(* Nothing new: what was said of the definitions held stays true.          *)
LEMMA NothingNew ==
    ASSUME Skill!OneDefinition, NoneAhead, Skill!Held' \subseteq Skill!Held, skills' = skills
    PROVE  Skill!OneDefinition' /\ NoneAhead'
BY DEF Skill!OneDefinition, NoneAhead, Skill!SameVersion

(* A row written with the next number: nobody holds that number yet.       *)
LEMMA OneNew ==
    ASSUME Skill!SkillsAssumption, Skill!TypeOK, Skill!OneDefinition, NoneAhead,
           NEW id \in Ids, NEW row \in Skill!Rows, row.version = skills[id].version + 1,
           skills' = [skills EXCEPT ![id] = row],
           Skill!Held' \subseteq Skill!Held \cup {Skill!DefOf(id, row)}
    PROVE  Skill!OneDefinition' /\ NoneAhead'
<1>1. \A d \in Skill!Held : d.ref = id => d.version < row.version
  <2> SUFFICES ASSUME NEW d \in Skill!Held, d.ref = id PROVE d.version < row.version
    OBVIOUS
  <2>1. d.version <= skills[id].version
    BY DEF NoneAhead
  <2>2. d.version \in Nat /\ skills[id].version \in Nat
    BY HeldTyped DEF Skill!TypeOK, Skill!Defs, Skill!Rows
  <2> QED BY <2>1, <2>2
<1>2. Skill!DefOf(id, row).ref = id /\ Skill!DefOf(id, row).version = row.version
          /\ row.version \in Nat
  BY DEF Skill!DefOf, Skill!Rows
<1>3. Skill!OneDefinition'
  <2> SUFFICES ASSUME NEW d \in Skill!Held', NEW other \in Skill!Held', Skill!SameVersion(d, other)
          PROVE d = other
    BY DEF Skill!OneDefinition, Skill!SameVersion
  <2>1. CASE d \in Skill!Held /\ other \in Skill!Held
    BY <2>1 DEF Skill!OneDefinition
  <2>2. CASE d = Skill!DefOf(id, row) /\ other \in Skill!Held
    BY <2>2, <1>1, <1>2, HeldTyped DEF Skill!SameVersion, Skill!Defs
  <2>3. CASE d \in Skill!Held /\ other = Skill!DefOf(id, row)
    BY <2>3, <1>1, <1>2, HeldTyped DEF Skill!SameVersion, Skill!Defs
  <2>4. CASE d = Skill!DefOf(id, row) /\ other = Skill!DefOf(id, row)
    BY <2>4
  <2> QED BY <2>1, <2>2, <2>3, <2>4
<1>4. NoneAhead'
  <2> SUFFICES ASSUME NEW d \in Skill!Held', NEW i \in Ids, d.ref = i
          PROVE d.version <= skills'[i].version
    BY DEF NoneAhead
  <2>1. CASE d \in Skill!Held
    <3>1. d.version <= skills[i].version
      BY <2>1 DEF NoneAhead
    <3>2. d.version \in Nat /\ skills[i].version \in Nat
      BY <2>1, HeldTyped DEF Skill!TypeOK, Skill!Defs, Skill!Rows
    <3> QED BY <3>1, <3>2, <1>2 DEF Skill!TypeOK
  <2>2. CASE d = Skill!DefOf(id, row)
    BY <2>2, <1>2 DEF Skill!TypeOK
  <2> QED BY <2>1, <2>2
<1> QED BY <1>3, <1>4

-----------------------------------------------------------------------------
(* The authors' steps.                                                     *)

LEMMA SkillInitSound ==
    ASSUME Skill!SkillsAssumption, Skill!Init
    PROVE  SkillIInv
<1> USE ConstantsTyped DEF Skill!Init
<1>1. Skill!TypeOK
  BY DEF Skill!TypeOK, Skill!Idle
<1>2. \A d \in Skill!Held : d \in Skill!SystemSkills \/ d = Skill!NoDef
          \/ \E id \in Ids : d = Skill!DefOf(id, Skill!NoRow)
  BY DEF Skill!Held, Skill!Idle
<1>3. Skill!OneDefinition
  BY <1>2 DEF Skill!OneDefinition, Skill!SameVersion, Skill!SystemSkills, Skill!NoDef, Skill!DefOf,
     Skill!NoRow, Skill!SkillsAssumption
<1>4. NoneAhead
  BY <1>2 DEF NoneAhead, Skill!SystemSkills, Skill!NoDef, Skill!DefOf, Skill!NoRow,
     Skill!SkillsAssumption
<1>5. Skill!PinsOnRecord /\ RanItsNumber
  BY DEF Skill!PinsOnRecord, RanItsNumber
<1> QED BY <1>1, <1>3, <1>4, <1>5 DEF SkillIInv

(* Steps that leave the steps' side alone and take nothing off the record. *)
LEMMA AuthorKeepsSteps ==
    ASSUME SkillIInv, versions \subseteq versions', step' = step
    PROVE  Skill!PinsOnRecord' /\ RanItsNumber'
BY DEF SkillIInv, Skill!PinsOnRecord, RanItsNumber

LEMMA CreateSound ==
    ASSUME Skill!SkillsAssumption, SkillIInv, NEW e \in Editors, NEW id \in Ids,
        NEW row \in Skill!NewRows,
           Skill!Create(e, id, row)
    PROVE  SkillIInv'
<1> USE ConstantsTyped, HeldParts DEF SkillIInv, Skill!Create
<1>1. row \in Skill!Rows /\ row.version = skills[id].version + 1
  BY DEF Skill!NewRows, Skill!Rows, Skill!Statuses, Skill!NoRow
<1>2. Skill!TypeOK'
  <2>1. edit'[e].pc = "record" /\ edit'[e].id = id
            /\ edit'[e].next.version = edit'[e].copy.version + 1
    BY <1>1 DEF Skill!TypeOK, Skill!NoRow
  <2>2. \A f \in Editors \ {e} : edit'[f] = edit[f]
    BY DEF Skill!TypeOK
  <2> QED BY <1>1, <2>1, <2>2 DEF Skill!TypeOK
<1>3. Skill!Held' \subseteq Skill!Held \cup {Skill!DefOf(id, row)}
  <2>1. \A i \in Ids : Skill!DefOf(i, skills'[i]) \in Skill!Held \cup {Skill!DefOf(id, row)}
    BY DEF Skill!TypeOK
  <2>2. \A f \in Editors : edit'[f].pc = "record" =>
            Skill!DefOf(edit'[f].id, edit'[f].next) \in Skill!Held \cup {Skill!DefOf(id, row)}
    BY DEF Skill!TypeOK
  <2> QED BY <2>1, <2>2, HeldWithin
<1> QED BY <1>1, <1>2, <1>3, OneNew, AuthorKeepsSteps

LEMMA SaveSound ==
    ASSUME Skill!SkillsAssumption, SkillIInv, NEW e \in Editors, Skill!Save(e)
    PROVE  SkillIInv'
<1> USE HeldParts DEF SkillIInv, Skill!Save
<1> DEFINE id == edit[e].id
           row == edit[e].next
<1>1. id \in Ids /\ row \in Skill!Rows /\ row.version = skills[id].version + 1
  BY DEF Skill!TypeOK
<1>2. Skill!TypeOK'
  <2>1. edit' \in [Editors -> [pc: {"idle", "save", "record"}, id: Ids \cup {None},
                               copy: Skill!Rows, next: Skill!Rows]]
    BY DEF Skill!TypeOK
  <2>2. \A f \in Editors : edit'[f].id = edit[f].id /\ edit'[f].next = edit[f].next
                          /\ edit'[f].copy = edit[f].copy
                                 /\ (edit'[f].pc # "idle" => edit[f].pc # "idle")
    BY DEF Skill!TypeOK
  <2>3. skills' \in [Ids -> Skill!Rows]
    BY <1>1 DEF Skill!TypeOK
  <2> QED BY <2>1, <2>2, <2>3 DEF Skill!TypeOK
<1>3. Skill!Held' \subseteq Skill!Held \cup {Skill!DefOf(id, row)}
  <2>1. \A i \in Ids : Skill!DefOf(i, skills'[i]) \in Skill!Held \cup {Skill!DefOf(id, row)}
    BY <1>1 DEF Skill!TypeOK
  <2>2. \A f \in Editors : edit'[f].pc = "record" =>
            Skill!DefOf(edit'[f].id, edit'[f].next) \in Skill!Held \cup {Skill!DefOf(id, row)}
    BY DEF Skill!TypeOK
  <2>3. /\ Skill!NoDef \in Skill!Held \cup {Skill!DefOf(id, row)}
        /\ Skill!SystemSkills \subseteq Skill!Held \cup {Skill!DefOf(id, row)}
        /\ versions' \subseteq Skill!Held \cup {Skill!DefOf(id, row)}
        /\ \A t \in Steps : /\ step'[t].pin \in Skill!Held \cup {Skill!DefOf(id, row)}
                            /\ step'[t].ran \in Skill!Held \cup {Skill!DefOf(id, row)}
    OBVIOUS
  <2> HIDE DEF id, row, Skill!Save, SkillIInv
  <2> QED BY <2>1, <2>2, <2>3, HeldWithin
<1>4. skills' = [skills EXCEPT ![id] = row]
  OBVIOUS
<1> HIDE DEF id, row
<1> QED BY <1>1, <1>2, <1>3, <1>4, OneNew, AuthorKeepsSteps DEF Skill!Save

(* A request reads a row, is refused, or ends: nothing new is held.        *)
LEMMA RequestMovesSound ==
    ASSUME Skill!SkillsAssumption, SkillIInv, NEW e \in Editors, NEW x,
           edit' = [edit EXCEPT ![e] = x], x.pc # "record",
           edit' \in [Editors -> [pc: {"idle", "save", "record"}, id: Ids \cup {None},
                                  copy: Skill!Rows, next: Skill!Rows]],
           x.pc # "idle" => x.id \in Ids /\ x.next.version = x.copy.version + 1,
           versions \subseteq versions', versions' \subseteq Skill!Held, UNCHANGED <<skills, step>>
    PROVE  SkillIInv'
<1> USE HeldParts DEF SkillIInv
<1>1. edit'[e] = x /\ \A f \in Editors \ {e} : edit'[f] = edit[f]
  BY DEF Skill!TypeOK
<1>2. Skill!TypeOK'
  <2>1. versions' \subseteq Skill!Defs
    BY HeldTyped
  <2> QED BY <1>1, <2>1 DEF Skill!TypeOK
<1>3. Skill!Held' \subseteq Skill!Held
  BY <1>1, HeldWithin
<1> QED BY <1>2, <1>3, NothingNew, AuthorKeepsSteps

LEMMA OpenSound ==
    ASSUME Skill!SkillsAssumption, SkillIInv, NEW e \in Editors, NEW id \in Ids,
           NEW next \in [scope: {skills[id].scope}, version: {skills[id].version + 1},
                         status: Skill!Statuses, text: Texts], Skill!Open(e, id, next)
    PROVE  SkillIInv'
<1> DEFINE x == [pc |-> "save", id |-> id, copy |-> skills[id], next |-> next]
<1>1. skills[id] \in Skill!Rows /\ next \in Skill!Rows /\ next.version = skills[id].version + 1
  BY DEF SkillIInv, Skill!TypeOK, Skill!Rows
<1>2. edit' = [edit EXCEPT ![e] = x] /\ UNCHANGED <<skills, versions, step>>
  BY DEF Skill!Open
<1>3. edit' \in [Editors -> [pc: {"idle", "save", "record"}, id: Ids \cup {None},
                             copy: Skill!Rows, next: Skill!Rows]]
  BY <1>1, <1>2 DEF SkillIInv, Skill!TypeOK
<1>4. x.pc = "save" /\ x.id = id /\ x.next.version = x.copy.version + 1
  BY <1>1
<1> HIDE DEF x
<1> QED BY <1>2, <1>3, <1>4, RequestMovesSound, HeldParts

LEMMA RequestEndsSound ==
    ASSUME Skill!SkillsAssumption, SkillIInv, NEW e \in Editors,
           Skill!SaveRefused(e) \/ Skill!Remember(e) \/ Skill!CutEdit(e)
    PROVE  SkillIInv'
<1>1. edit' = [edit EXCEPT ![e] = Skill!Idle] /\ UNCHANGED <<skills, step>>
  BY DEF Skill!SaveRefused, Skill!Remember, Skill!CutEdit
<1>2. versions \subseteq versions' /\ versions' \subseteq Skill!Held
  BY RecordTyped, HeldParts DEF Skill!SaveRefused, Skill!Remember, Skill!CutEdit
<1>3. Skill!Idle.pc = "idle"
  BY DEF Skill!Idle
<1>4. edit' \in [Editors -> [pc: {"idle", "save", "record"}, id: Ids \cup {None},
                             copy: Skill!Rows, next: Skill!Rows]]
  BY <1>1, ConstantsTyped DEF SkillIInv, Skill!TypeOK, Skill!Idle
<1> QED BY <1>1, <1>2, <1>3, <1>4, RequestMovesSound

-----------------------------------------------------------------------------
(* The steps' side: nothing it holds is new.                               *)

LEMMA StepMovesSound ==
    ASSUME Skill!SkillsAssumption, SkillIInv, NEW t \in Steps,
           step' \in [Steps -> [pc: {"planning", "chosen", "pinned", "ready", "lookup", "ran"},
                               pin: Skill!Defs, ran: Skill!Defs]],
           \A u \in Steps \ {t} : step'[u] = step[u],
           step'[t].pin \in Skill!Held, step'[t].ran \in Skill!Held,
           versions \subseteq versions', versions' \subseteq Skill!Held, UNCHANGED <<skills, edit>>,
           step'[t].pc \in {"pinned", "ready", "lookup", "ran"}
               => step'[t].pin \in versions' \cup {Skill!NoDef},
           step'[t].pc # "ran" => step'[t].ran = Skill!NoDef,
           step'[t].ran # Skill!NoDef => step'[t].ran.version = step'[t].pin.version
    PROVE  SkillIInv'
<1> USE HeldParts DEF SkillIInv
<1>1. Skill!TypeOK'
  <2>1. versions' \subseteq Skill!Defs
    BY HeldTyped
  <2> QED BY <2>1 DEF Skill!TypeOK
<1>2. Skill!Held' \subseteq Skill!Held
  BY HeldWithin
<1>3. Skill!PinsOnRecord' /\ RanItsNumber'
  BY DEF Skill!PinsOnRecord, RanItsNumber
<1> QED BY <1>1, <1>2, <1>3, NothingNew

(* A step's own step, its three fields at once.                            *)
LEMMA FieldsMoveSound ==
    ASSUME Skill!SkillsAssumption, SkillIInv, NEW t \in Steps,
           NEW p \in {"planning", "chosen", "pinned", "ready", "lookup", "ran"},
           NEW d \in Skill!Held, NEW r \in Skill!Held,
           \/ step' = [step EXCEPT ![t].pc = p, ![t].pin = d] /\ r = step[t].ran
           \/ step' = [step EXCEPT ![t].pc = p, ![t].ran = r] /\ d = step[t].pin
           \/ step' = [step EXCEPT ![t].pc = p] /\ d = step[t].pin /\ r = step[t].ran,
           versions \subseteq versions', versions' \subseteq Skill!Held, UNCHANGED <<skills, edit>>,
           p \in {"pinned", "ready", "lookup", "ran"} => d \in versions' \cup {Skill!NoDef},
           p # "ran" => r = Skill!NoDef,
           r # Skill!NoDef => r.version = d.version
    PROVE  SkillIInv'
<1>1. step \in [Steps -> [pc: {"planning", "chosen", "pinned", "ready", "lookup", "ran"},
                          pin: Skill!Defs, ran: Skill!Defs]]
  BY DEF SkillIInv, Skill!TypeOK
<1>2. d \in Skill!Defs /\ r \in Skill!Defs
  BY HeldTyped DEF SkillIInv
<1>3. \A u \in Steps \ {t} : step'[u] = step[u]
  BY <1>1
<1>4. step'[t].pc = p /\ step'[t].pin = d /\ step'[t].ran = r
  BY <1>1
<1>5. step' \in [Steps -> [pc: {"planning", "chosen", "pinned", "ready", "lookup", "ran"},
                           pin: Skill!Defs, ran: Skill!Defs]]
  BY <1>1, <1>2
<1> QED BY <1>3, <1>4, <1>5, StepMovesSound

LEMMA NotYetRan ==
    ASSUME SkillIInv, NEW t \in Steps, step[t].pc # "ran"
    PROVE  step[t].ran = Skill!NoDef
BY DEF SkillIInv, RanItsNumber

LEMMA PlanningSound ==
    ASSUME Skill!SkillsAssumption, SkillIInv, NEW t \in Steps,
           Skill!Choose(t) \/ Skill!Pin(t) \/ Skill!CreateStep(t) \/ Skill!PlanEnds(t)
    PROVE  SkillIInv'
<1> USE HeldParts
<1>1. step[t].ran = Skill!NoDef /\ UNCHANGED <<skills, edit>>
  BY NotYetRan DEF Skill!Choose, Skill!Pin, Skill!CreateStep, Skill!PlanEnds
<1>2. CASE Skill!Choose(t)
  <2>1. PICK d \in Skill!Effective(t) \cup {Skill!NoDef}
            : step' = [step EXCEPT ![t].pc = "chosen", ![t].pin = d]
    BY <1>2 DEF Skill!Choose
  <2>2. d \in Skill!Held /\ versions' = versions
    BY <1>2, EffectiveHeld DEF Skill!Choose
  <2> QED BY <1>1, <2>1, <2>2, FieldsMoveSound
<1>3. CASE Skill!Pin(t)
  <2>1. PICK on \in versions' : step' = [step EXCEPT ![t].pc = "pinned", ![t].pin = on]
    BY <1>3 DEF Skill!Pin
  <2>2. versions \subseteq versions' /\ versions' \subseteq Skill!Held
    BY <1>3, RecordTyped DEF Skill!Pin
  <2> QED BY <1>1, <2>1, <2>2, FieldsMoveSound
<1>4. CASE Skill!CreateStep(t)
  <2>1. versions' = versions
    BY <1>4 DEF Skill!CreateStep
  <2>2. CASE step[t].pc = "pinned" /\ step' = [step EXCEPT ![t].pc = "ready"]
    <3>1. step[t].pin \in versions \cup {Skill!NoDef}
      BY <2>2 DEF SkillIInv, Skill!PinsOnRecord
    <3> QED BY <1>1, <2>1, <2>2, <3>1, FieldsMoveSound
  <2>3. CASE step' = [step EXCEPT ![t].pc = "ready", ![t].pin = Skill!NoDef]
    BY <1>1, <2>1, <2>3, FieldsMoveSound
  <2> QED BY <1>4, <2>2, <2>3 DEF Skill!CreateStep
<1>5. CASE Skill!PlanEnds(t)
  BY <1>1, <1>5, FieldsMoveSound DEF Skill!PlanEnds
<1> QED BY <1>2, <1>3, <1>4, <1>5

LEMMA RunningSound ==
    ASSUME Skill!SkillsAssumption, SkillIInv, NEW t \in Steps, Skill!Load(t) \/ Skill!Lookup(t)
        \/ Skill!Again(t)
    PROVE  SkillIInv'
<1> USE HeldParts
<1>1. UNCHANGED <<skills, versions, edit>> /\ step[t].pc \in {"ready", "lookup", "ran"}
  BY DEF Skill!Load, Skill!Lookup, Skill!Again
<1>2. step[t].pin \in versions \cup {Skill!NoDef}
  BY <1>1 DEF SkillIInv, Skill!PinsOnRecord
<1>3. ASSUME NEW d \in Skill!Held, Skill!Ran(t, d), d = Skill!NoDef \/ d.version = step[t].pin.version
      PROVE  SkillIInv'
  <2>1. step' = [step EXCEPT ![t].pc = "ran", ![t].ran = d]
    BY <1>3 DEF Skill!Ran
  <2> QED BY <1>1, <1>2, <1>3, <2>1, FieldsMoveSound
<1>4. CASE Skill!Load(t)
  <2>1. step[t].ran = Skill!NoDef
    BY <1>4, NotYetRan DEF Skill!Load
  <2>2. CASE Skill!Ran(t, Skill!NoDef)
    BY <2>2, <1>3
  <2>3. CASE \E live \in Skill!Effective(t) : live.version = step[t].pin.version /\ Skill!Ran(t, live)
    BY <2>3, <1>3, EffectiveHeld
  <2>4. CASE step' = [step EXCEPT ![t].pc = "lookup"]
    BY <1>1, <1>2, <2>1, <2>4, FieldsMoveSound
  <2> QED BY <1>4, <2>2, <2>3, <2>4 DEF Skill!Load
<1>5. CASE Skill!Lookup(t)
  BY <1>5, <1>3 DEF Skill!Lookup, Skill!SameVersion
<1>6. CASE Skill!Again(t)
  BY <1>1, <1>2, <1>6, FieldsMoveSound DEF Skill!Again
<1> QED BY <1>4, <1>5, <1>6

-----------------------------------------------------------------------------
LEMMA SkillNextSound ==
    ASSUME Skill!SkillsAssumption, SkillIInv, [Skill!Next]_Skill!vars
    PROVE  SkillIInv'
<1>1. ASSUME NEW e \in Editors, Skill!Author(e)
      PROVE  SkillIInv'
  BY <1>1, CreateSound, OpenSound, SaveSound, RequestEndsSound DEF Skill!Author
<1>2. ASSUME NEW t \in Steps, Skill!OfStep(t)
      PROVE  SkillIInv'
  BY <1>2, PlanningSound, RunningSound DEF Skill!OfStep
<1>3. CASE UNCHANGED Skill!vars
  <2>1. Skill!Held' = Skill!Held
    BY <1>3 DEF Skill!vars, Skill!Held, Skill!DefOf, Skill!SystemSkills
  <2> QED BY <1>3, <2>1 DEF Skill!vars, SkillIInv, Skill!TypeOK, Skill!OneDefinition, NoneAhead,
          Skill!SameVersion, Skill!PinsOnRecord, RanItsNumber
<1> QED BY <1>1, <1>2, <1>3 DEF Skill!Next

(* The definitions somebody holds, the pins and what was followed keep the *)
(* inductive invariant, whatever the constants.                            *)
THEOREM SkillsSound ==
    ASSUME Skill!SkillsAssumption
    PROVE  Skill!Spec => []SkillIInv
<1>1. Skill!Init => SkillIInv
  BY SkillInitSound
<1>2. SkillIInv /\ [Skill!Next]_Skill!vars => SkillIInv'
  BY SkillNextSound
<1> QED BY <1>1, <1>2, PTL DEF Skill!Spec

(* The variables keep their types (the rows of skills and skill_versions,  *)
(* requests and steps).                                                    *)
THEOREM SkillTypesHold ==
    ASSUME Skill!SkillsAssumption
    PROVE  Skill!Spec => []Skill!TypeOK
<1>1. SkillIInv => Skill!TypeOK
  BY DEF SkillIInv
<1> QED BY <1>1, SkillsSound, PTL

(* A ref and a version name one definition for all time (skill.ts, "this   *)
(* identifies exactly one immutable definition"): the compare-and-swap of  *)
(* SkillRepository.update and the insert-only record keep it.              *)
THEOREM OneDefinitionEach ==
    ASSUME Skill!SkillsAssumption
    PROVE  Skill!Spec => []Skill!OneDefinition
<1>1. SkillIInv => Skill!OneDefinition
  BY DEF SkillIInv
<1> QED BY <1>1, SkillsSound, PTL

(* A step that looks for the version it pinned finds it on record          *)
(* (SkillService.pin before the step is written, no deletion after).       *)
THEOREM PinsAreOnRecord ==
    ASSUME Skill!SkillsAssumption
    PROVE  Skill!Spec => []Skill!PinsOnRecord
<1>1. SkillIInv => Skill!PinsOnRecord
  BY DEF SkillIInv
<1> QED BY <1>1, SkillsSound, PTL

(* What a step follows is of the number it pinned, and if it is the skill  *)
(* it pinned, it is that very definition (task-execution-service.ts,       *)
(* skillFor): later changes of a skill do not reach steps planned before.  *)
THEOREM VersionsAreKept ==
    ASSUME Skill!SkillsAssumption
    PROVE  Skill!Spec => []Skill!KeepsItsVersion
<1>1. SkillIInv => Skill!KeepsItsVersion
  <2> SUFFICES ASSUME SkillIInv, NEW t \in Steps, step[t].ran # Skill!NoDef
               PROVE  /\ step[t].ran.version = step[t].pin.version
                      /\ step[t].ran.ref = step[t].pin.ref => step[t].ran = step[t].pin
    BY DEF Skill!KeepsItsVersion
  <2>1. step[t].ran.version = step[t].pin.version
    BY DEF SkillIInv, RanItsNumber
  <2>2. step[t].ran \in Skill!Held /\ step[t].pin \in Skill!Held
    BY HeldParts
  <2> QED BY <2>1, <2>2 DEF SkillIInv, Skill!OneDefinition, Skill!SameVersion
<1> QED BY <1>1, SkillsSound, PTL
====================================================================================
