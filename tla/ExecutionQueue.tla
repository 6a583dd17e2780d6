---------------------------- MODULE ExecutionQueue ----------------------------
(***************************************************************************)
(* The durable execution queue: the execution_jobs table, the API calls    *)
(* that put a mission on it and take it off, and the worker processes that *)
(* claim its jobs, heartbeat them, settle them and recover the jobs of     *)
(* workers that stopped.                                                   *)
(*                                                                         *)
(* One action is one database statement: that is the atomicity the code    *)
(* has.  What a process read earlier and acts on later is kept in its own  *)
(* variables (seen, flight, caller).  A mission's rows are abstracted to   *)
(* "which claim wrote them last"; module MissionLifecycle opens them up.   *)
(***************************************************************************)
EXTENDS Naturals, FiniteSets

CONSTANTS
    Works,           \* missions
    Jobs,            \* identifiers for rows of execution_jobs
    Workers,         \* worker identifiers (claimed_by)
    Callers,         \* API requests and schedulers that enqueue
    Reasons,         \* why a job is enqueued ("requested", "retry", ...)
    None,            \* SQL null
    MaxAttempts,     \* max_attempts of every job (the column's default)
    Concurrency,     \* jobs one worker executes at a time
    CandidateLimit,  \* rows one claim looks at
    MaxBeats,        \* bound: lease writes of one claim
    MaxFaults        \* bound: crashes, stops and transport errors of a behaviour

ASSUME QueueAssumption ==
    /\ MaxAttempts \in Nat \ {0}
    /\ Concurrency \in Nat \ {0}
    /\ CandidateLimit \in Nat \ {0}
    /\ MaxBeats \in Nat
    /\ MaxFaults \in Nat
    /\ None \notin Works \cup Workers

VARIABLES
    job,        \* the rows of execution_jobs
    caller,     \* caller -> what its enqueueWork has left to do
    pc,         \* worker -> where its loop is
    took,       \* worker -> has this tick claimed anything
    seen,       \* worker -> rows it read and has not acted on yet
    flight,     \* attempts some process is executing
    turn,       \* mission -> claims made for it so far (history)
    written,    \* mission -> the claim that last wrote its rows (history)
    faults      \* faults so far

workerVars == <<pc, took, seen>>
writeVars  == <<turn, written>>
vars == <<job, caller, pc, took, seen, flight, turn, written, faults>>

Settled  == {"completed", "failed", "cancelled"}
Active   == {"queued", "running"}
Statuses == {"absent"} \cup Active \cup Settled

(* lease_expires_at is a stamp, renewed by every lease write, and whether  *)
(* the clock has passed it; run_at is whether the clock has passed it.     *)
Row == [status: Statuses, work: Works \cup {None}, reason: Reasons \cup {None},
        attempts: Nat, holder: Workers \cup {None}, due: BOOLEAN,
        lease: Nat, lapsed: BOOLEAN]

AbsentRow == [status |-> "absent", work |-> None, reason |-> None, attempts |-> 0,
              holder |-> None, due |-> FALSE, lease |-> 0, lapsed |-> FALSE]

Attempt == [worker: Workers, job: Jobs, work: Works, attempt: Nat, turn: Nat,
            phase: {"claimed", "executing"}]

Sighting == [job: Jobs, attempts: Nat, lease: Nat]

ActiveJobs(w) == {j \in Jobs : job[j].work = w /\ job[j].status \in Active}

IdleCaller == [pc |-> "idle", work |-> None, reason |-> None]

Init ==
    /\ job = [j \in Jobs |-> AbsentRow]
    /\ caller = [c \in Callers |-> IdleCaller]
    /\ pc = [k \in Workers |-> "down"]
    /\ took = [k \in Workers |-> FALSE]
    /\ seen = [k \in Workers |-> {}]
    /\ flight = {}
    /\ turn = [w \in Works |-> 0]
    /\ written = [w \in Works |-> 0]
    /\ faults = 0

-----------------------------------------------------------------------------
(* Enqueueing: a read, then an insert the partial unique index decides.    *)

(* enqueueWork looks for an active job.  Finding one answers the request   *)
(* with it and changes nothing; finding none leaves the insert to be made. *)
FindNoActiveJob(c) ==
    /\ caller[c] = IdleCaller
    /\ \E w \in Works, r \in Reasons :
        /\ ActiveJobs(w) = {}
        /\ caller' = [caller EXCEPT ![c] = [pc |-> "insert", work |-> w, reason |-> r]]
    /\ UNCHANGED <<job, workerVars, flight, writeVars, faults>>

(* Mutant: the partial unique index is missing.                            *)
MutNoUniqueIndex(w) == TRUE

UniqueIndexAdmits(w) == ActiveJobs(w) = {}

NewRow(w, r) == [AbsentRow EXCEPT !.status = "queued", !.work = w, !.reason = r,
                                  !.due = TRUE]

Insert(c) ==
    /\ caller[c].pc = "insert"
    /\ UniqueIndexAdmits(caller[c].work)
    /\ \E j \in Jobs :
        /\ job[j].status = "absent"
        /\ job' = [job EXCEPT ![j] = NewRow(caller[c].work, caller[c].reason)]
    /\ caller' = [caller EXCEPT ![c] = IdleCaller]
    /\ UNCHANGED <<workerVars, flight, writeVars, faults>>

InsertRejected(c) ==
    /\ caller[c].pc = "insert"
    /\ ~UniqueIndexAdmits(caller[c].work)
    /\ caller' = [caller EXCEPT ![c].pc = "reread"]
    /\ UNCHANGED <<job, workerVars, flight, writeVars, faults>>

(* The loser of the index is answered with the winner's job, or with an    *)
(* error when that job settled meanwhile.  Either way it changes nothing.  *)
Reread(c) ==
    /\ caller[c].pc = "reread"
    /\ caller' = [caller EXCEPT ![c] = IdleCaller]
    /\ UNCHANGED <<job, workerVars, flight, writeVars, faults>>

(* What going back on the queue and settling do to a row.                  *)
(* Mutant: going back on the queue starts the count over.                  *)
MutAttemptsReset(row, due) == [row EXCEPT !.status = "queued", !.holder = None,
                                          !.due = due, !.lapsed = FALSE, !.attempts = 0]

Released(row, due) == [row EXCEPT !.status = "queued", !.holder = None, !.due = due,
                                  !.lapsed = FALSE, !.lease = 0]
Closed(row, status) == [row EXCEPT !.status = status, !.lapsed = FALSE, !.lease = 0]

(* Withdrawing a job nobody has claimed: the same guard claiming uses.     *)
Cancel(j) ==
    /\ job[j].status = "queued"
    /\ job' = [job EXCEPT ![j] = Closed(@, "cancelled")]
    /\ UNCHANGED <<caller, workerVars, flight, writeVars, faults>>

-----------------------------------------------------------------------------
(* The worker's loop.                                                      *)

FlightOf(k) == {x \in flight : x.worker = k}

Goto(k, label, claimed, rows) ==
    /\ pc' = [pc EXCEPT ![k] = label]
    /\ took' = [took EXCEPT ![k] = claimed]
    /\ seen' = [seen EXCEPT ![k] = rows]

Start(k) ==
    /\ pc[k] = "down"
    /\ Goto(k, "recover", FALSE, {})
    /\ UNCHANGED <<job, caller, flight, writeVars, faults>>

Sight(S) == {[job |-> j, attempts |-> job[j].attempts, lease |-> job[j].lease] : j \in S}

LapsedJobs == {j \in Jobs : job[j].status = "running" /\ job[j].lapsed}
DueJobs    == {j \in Jobs : job[j].status = "queued" /\ job[j].due}

ReadLapsed(k) ==
    /\ pc[k] = "recover"
    /\ Goto(k, "recovering", FALSE, Sight(LapsedJobs))
    /\ UNCHANGED <<job, caller, flight, writeVars, faults>>

(* Mutant: recovery does not match the lease it observed.                  *)
MutLeaseIgnored(s) ==
    job[s.job].status = "running" /\ job[s.job].attempts = s.attempts

(* The compare-and-swap of recovery: the attempt and the lease it saw.     *)
LeaseUnchanged(s) ==
    /\ job[s.job].status = "running"
    /\ job[s.job].attempts = s.attempts
    /\ job[s.job].lease = s.lease
    /\ job[s.job].lapsed

AttemptsRemain(n) == n < MaxAttempts

Recover(k) ==
    /\ pc[k] = "recovering"
    /\ \E s \in seen[k] :
        /\ Goto(k, "recovering", FALSE, seen[k] \ {s})
        /\ job' = IF LeaseUnchanged(s)
                  THEN [job EXCEPT ![s.job] = IF AttemptsRemain(s.attempts)
                                              THEN Released(@, TRUE)
                                              ELSE Closed(@, "failed")]
                  ELSE job
    /\ UNCHANGED <<caller, flight, writeVars, faults>>

Recovered(k) ==
    /\ pc[k] = "recovering"
    /\ seen[k] = {}
    /\ Goto(k, "claim", FALSE, {})
    /\ UNCHANGED <<job, caller, flight, writeVars, faults>>

(* The rows claimNext reads: the runnable ones, up to the limit.           *)
Candidates ==
    {S \in SUBSET DueJobs :
        Cardinality(S) = IF Cardinality(DueJobs) <= CandidateLimit
                         THEN Cardinality(DueJobs) ELSE CandidateLimit}

ReadQueue(k) ==
    /\ pc[k] = "claim"
    /\ Cardinality(FlightOf(k)) < Concurrency
    /\ \E S \in Candidates : Goto(k, "claiming", took[k], Sight(S))
    /\ UNCHANGED <<job, caller, flight, writeVars, faults>>

(* The compare-and-swap of a claim: still queued at the attempt it saw.    *)
Claimable(s) == job[s.job].status = "queued" /\ job[s.job].attempts = s.attempts

Taken(row, k, n) == [row EXCEPT !.status = "running", !.attempts = n, !.holder = k,
                                !.lease = row.lease + 1, !.lapsed = FALSE]

ClaimOf(k, s) ==
    /\ Claimable(s)
    /\ LET w == job[s.job].work IN
       /\ job' = [job EXCEPT ![s.job] = Taken(@, k, s.attempts + 1)]
       /\ turn' = [turn EXCEPT ![w] = @ + 1]
       /\ flight' = flight \cup
            {[worker |-> k, job |-> s.job, work |-> w, attempt |-> s.attempts + 1,
              turn |-> turn[w] + 1, phase |-> "claimed"]}
    /\ Goto(k, "claim", TRUE, {})

ClaimMissed(k, s) ==
    /\ ~Claimable(s)
    /\ Goto(k, "claiming", took[k], seen[k] \ {s})
    /\ UNCHANGED <<job, turn, flight>>

TryClaim(k) ==
    /\ pc[k] = "claiming"
    /\ \E s \in seen[k] : ClaimOf(k, s) \/ ClaimMissed(k, s)
    /\ UNCHANGED <<caller, written, faults>>

(* No slot is free, or no candidate is left: the tick awaits what runs.    *)
StopClaiming(k) ==
    /\ \/ pc[k] = "claim" /\ Cardinality(FlightOf(k)) >= Concurrency
       \/ pc[k] = "claiming" /\ seen[k] = {}
    /\ Goto(k, "await", took[k], {})
    /\ UNCHANGED <<job, caller, flight, writeVars, faults>>

(* Mutant: recovery only runs when the worker starts.                      *)
MutRecoverAtStartOnly(k) ==
    /\ pc[k] = "await"
    /\ FlightOf(k) = {}
    /\ Goto(k, "claim", FALSE, {})
    /\ UNCHANGED <<job, caller, flight, writeVars, faults>>

(* A tick that claimed nothing is followed by recovery, another one by the *)
(* next tick.                                                              *)
TickEnds(k) ==
    /\ pc[k] = "await"
    /\ FlightOf(k) = {}
    /\ Goto(k, IF took[k] THEN "claim" ELSE "recover", FALSE, {})
    /\ UNCHANGED <<job, caller, flight, writeVars, faults>>

Fault == faults < MaxFaults /\ faults' = faults + 1

(* A repository call of the loop throws: the loop sleeps and ticks again,  *)
(* with whatever it had claimed still in flight.                           *)
LoopError(k) ==
    /\ pc[k] \notin {"down", "recover"}
    /\ Goto(k, "claim", FALSE, {})
    /\ Fault
    /\ UNCHANGED <<job, caller, flight, writeVars>>

(* stop() lets the tick end and waits for what is in flight.               *)
Stop(k) ==
    /\ pc[k] = "claim"
    /\ ~took[k]
    /\ FlightOf(k) = {}
    /\ Goto(k, "down", FALSE, {})
    /\ Fault
    /\ UNCHANGED <<job, caller, flight, writeVars>>

Crash(k) ==
    /\ pc[k] # "down"
    /\ Goto(k, "down", FALSE, {})
    /\ flight' = flight \ FlightOf(k)
    /\ Fault
    /\ UNCHANGED <<job, caller, writeVars>>

-----------------------------------------------------------------------------
(* One attempt.  Losing the claim aborts it: it is no longer in flight.    *)

(* Mutant: the guard only asks whether the job is running.                 *)
MutAnyRunning(x) == job[x.job].status = "running"

(* assert_execution_job_claim, alone or inside the guard trigger.          *)
Owns(x) ==
    /\ job[x.job].status = "running"
    /\ job[x.job].attempts = x.attempt
    /\ job[x.job].holder = x.worker

(* Mutant: settle() forgets the attempt among what it matches.             *)
MutAnyAttempt(x) == job[x.job].status = "running"

(* What settle() matches: the running attempt the caller observed.         *)
Current(x) == job[x.job].status = "running" /\ job[x.job].attempts = x.attempt

Drop(x) == flight' = flight \ {x}

(* assertClaim opens the attempt and precedes every provider request.      *)
AssertClaim(x) ==
    /\ IF Owns(x) THEN flight' = (flight \ {x}) \cup {[x EXCEPT !.phase = "executing"]}
                  ELSE Drop(x)
    /\ UNCHANGED <<job, caller, workerVars, writeVars, faults>>

(* One statement on a guarded table.                                       *)
Write(x) ==
    /\ x.phase = "executing"
    /\ IF Owns(x) THEN /\ written' = [written EXCEPT ![x.work] = x.turn]
                       /\ UNCHANGED flight
                  ELSE Drop(x) /\ UNCHANGED written
    /\ UNCHANGED <<job, caller, workerVars, turn, faults>>

Renewed(row) == [row EXCEPT !.lease = row.lease + 1, !.lapsed = FALSE]

Heartbeat(x) ==
    /\ IF Owns(x) THEN /\ job[x.job].lease < MaxBeats
                       /\ job' = [job EXCEPT ![x.job] = Renewed(@)]
                       /\ UNCHANGED flight
                  ELSE Drop(x) /\ UNCHANGED job
    /\ UNCHANGED <<caller, workerVars, writeVars, faults>>

Settle(x, row) ==
    /\ job' = IF Current(x) THEN [job EXCEPT ![x.job] = row] ELSE job
    /\ Drop(x)
    /\ UNCHANGED <<caller, workerVars, writeVars, faults>>

Complete(x) ==
    /\ x.phase = "executing"
    /\ Settle(x, Closed(job[x.job], "completed"))

(* The mission ended as failed, or an error came when no attempt is left.  *)
Fail(x) ==
    /\ x.phase = "executing" \/ ~AttemptsRemain(x.attempt)
    /\ Settle(x, Closed(job[x.job], "failed"))

(* An error with attempts left goes back on the queue, after a backoff.    *)
Requeue(x) ==
    /\ AttemptsRemain(x.attempt)
    /\ Settle(x, Released(job[x.job], FALSE))

(* The settlement itself throws: the attempt ends and the row still says   *)
(* running.                                                                *)
SettlementLost(x) ==
    /\ Drop(x)
    /\ Fault
    /\ UNCHANGED <<job, caller, workerVars, writeVars>>

-----------------------------------------------------------------------------
(* Time.                                                                   *)

LeaseLapses(j) ==
    /\ job[j].status = "running"
    /\ ~job[j].lapsed
    /\ job' = [job EXCEPT ![j].lapsed = TRUE]
    /\ UNCHANGED <<caller, workerVars, flight, writeVars, faults>>

BackoffElapses(j) ==
    /\ job[j].status = "queued"
    /\ ~job[j].due
    /\ job' = [job EXCEPT ![j].due = TRUE]
    /\ UNCHANGED <<caller, workerVars, flight, writeVars, faults>>

-----------------------------------------------------------------------------
CallerStep(c) == FindNoActiveJob(c) \/ Insert(c) \/ InsertRejected(c) \/ Reread(c)

LoopStep(k) ==
    \/ Start(k) \/ ReadLapsed(k) \/ Recover(k) \/ Recovered(k)
    \/ ReadQueue(k) \/ TryClaim(k) \/ StopClaiming(k) \/ TickEnds(k)

LoopFault(k) == LoopError(k) \/ Stop(k) \/ Crash(k)

EndAttempt(x) == Complete(x) \/ Fail(x) \/ Requeue(x)

AttemptStep(x) ==
    \/ AssertClaim(x) \/ Write(x) \/ Heartbeat(x) \/ EndAttempt(x) \/ SettlementLost(x)

ClockStep(j) == LeaseLapses(j) \/ BackoffElapses(j)

Next ==
    \/ \E c \in Callers : CallerStep(c)
    \/ \E j \in Jobs : Cancel(j) \/ ClockStep(j)
    \/ \E k \in Workers : LoopStep(k) \/ LoopFault(k)
    \/ \E x \in flight : AttemptStep(x)

Spec == Init /\ [][Next]_vars

(* The worker loop is a timer loop, an attempt is bounded by its task      *)
(* timeouts and the clock moves.  Users and faults are not owed anything.  *)
Fairness ==
    /\ \A k \in Workers : WF_vars(LoopStep(k))
    /\ \A k \in Workers, j \in Jobs :
        WF_vars(\E x \in flight : /\ x.worker = k /\ x.job = j
                                  /\ EndAttempt(x) \/ (x.phase = "claimed" /\ AssertClaim(x)))
    /\ \A j \in Jobs : WF_vars(ClockStep(j))

FairSpec == Spec /\ Fairness

-----------------------------------------------------------------------------
(* Properties.                                                             *)

TypeOK ==
    /\ job \in [Jobs -> Row]
    /\ caller \in [Callers -> [pc: {"idle", "insert", "reread"}, work: Works \cup {None},
                               reason: Reasons \cup {None}]]
    /\ pc \in [Workers -> {"down", "recover", "recovering", "claim", "claiming", "await"}]
    /\ took \in [Workers -> BOOLEAN]
    /\ seen \in [Workers -> SUBSET Sighting]
    /\ flight \subseteq Attempt
    /\ turn \in [Works -> Nat]
    /\ written \in [Works -> Nat]
    /\ faults \in Nat
    /\ \A c \in Callers : caller[c].pc # "idle" => caller[c].work \in Works
    /\ \A j \in Jobs : job[j].status # "absent" => job[j].work \in Works

(* A mission has at most one queued or running job, whatever requests,     *)
(* retries and approvals enqueue at once (execution_jobs_one_active_...).  *)
OneActiveJob ==
    \A i, j \in Jobs :
        (job[i].status \in Active /\ job[j].status \in Active /\ job[i].work = job[j].work)
            => i = j

(* A job is never run more often than max_attempts, although a claim does  *)
(* not look at the limit: whatever puts a job back on the queue must.      *)
AttemptBudget ==
    \A j \in Jobs :
        /\ job[j].attempts <= MaxAttempts
        /\ job[j].status = "queued" => job[j].attempts < MaxAttempts

(* Of all the attempts that still execute for a mission - the live one and *)
(* those whose worker lost its claim without having noticed - at most one  *)
(* can get a write past the guard trigger.                                 *)
OneWriter ==
    \A x, y \in flight : (Owns(x) /\ Owns(y) /\ x.work = y.work) => x = y

(* Why it holds: every attempt in flight stems from a claim of its own,    *)
(* its attempt number is never ahead of the row, and the one the row still *)
(* names is the last claim made for the mission.                           *)
FlightInv ==
    /\ \A x \in flight :
        /\ job[x.job].status # "absent"
        /\ job[x.job].work = x.work
        /\ x.attempt <= job[x.job].attempts
        /\ x.turn <= turn[x.work]
        /\ Current(x) => job[x.job].holder = x.worker /\ x.turn = turn[x.work]
    /\ \A x, y \in flight : (x.job = y.job /\ x.attempt = y.attempt) => x = y

WrittenInv == \A w \in Works : written[w] <= turn[w]

QueueInv == TypeOK /\ OneActiveJob /\ AttemptBudget /\ FlightInv /\ WrittenInv

(* A mission's rows are written in the order its claims were made: once a  *)
(* later claim has written, nothing of an earlier one lands.               *)
WritesInClaimOrder == [][\A w \in Works : written'[w] >= written[w]]_vars

(* A worker still executing loses its job only after its lease has run     *)
(* out; a heartbeat that lands between recovery's read and its update      *)
(* saves the job.                                                          *)
LiveLeaseKept ==
    [][\A x \in flight \cap flight' :
        (Current(x) /\ ~Current(x)') => job[x.job].lapsed]_vars

(* A running job is taken off by the attempt running it or by recovery of  *)
(* a lapsed lease; an attempt that outlived its claim settles nothing, and *)
(* a settled job stays as it was settled.                                  *)
SettledByItsHolder ==
    [][\A j \in Jobs :
        /\ (job[j].status = "running" /\ job'[j].status # "running") =>
            \/ job[j].lapsed
            \/ \E x \in flight \ flight' : x.job = j /\ Owns(x)
        /\ job[j].status \in Settled => job'[j] = job[j]]_vars

(* Every request to run a mission comes to an end - completed, failed or   *)
(* withdrawn - whichever workers crash on the way.                         *)
EveryJobSettles == \A j \in Jobs : job[j].status = "queued" ~> job[j].status \in Settled

(* The queue as a mission sees it: its active job, if any.                 *)
SlotOf(w) ==
    IF ActiveJobs(w) = {} THEN [state |-> "idle", attempts |-> 0, holder |-> None]
    ELSE LET j == CHOOSE i \in ActiveJobs(w) : TRUE
         IN [state |-> job[j].status, attempts |-> job[j].attempts, holder |-> job[j].holder]

Promise == INSTANCE MissionQueue WITH slot <- [w \in Works |-> SlotOf(w)]

(* The queue implements its abstract specification.                        *)
ImplementsMissionQueue == Promise!QSpec
=============================================================================
