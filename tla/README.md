# UniOffice: formal models and proofs

UniOffice plans a company's objectives ("missions", rows of `works`) into steps (rows
of `tasks`), puts each mission on a durable queue and lets worker processes execute it
under governance, stopping wherever a person has to decide. This directory holds TLA+
models of the parts in which several processes write the same rows (and of the
calendar arithmetic, which is hard for other reasons), the TLC configurations that check
them on small instances, and TLAPS proofs of what must hold for every size. Paths below are relative to the repository.

`PROJECT.json` links every definition that models code to its lines, and lists the
components, the runs, the hazards, the findings and the main theorems.

    tlc -workers 2 -config QueueSafety.cfg MCExecutionQueue.tla
    tlapm ExecutionQueueProofs.tla

Contents: 1 the system; 2 the modules; 3 what the runs show; 4 what is proved;
5 where code and documentation disagree; 6 what is not modelled; 7 the plan.

## 1. The system

Three kinds of process share one Postgres database (Supabase): the API
(`apps/api/src/server.ts`), any number of workers (`apps/worker`, whose loop is
`apps/api/src/execution-worker.ts`), and the web application, which only calls the API.
They share nothing but rows. Every repository call is one statement (or one SQL
function, which is a transaction), and nearly everything else reads rows, decides, and
writes whole rows back several statements later.

| Part | State | Operations | Talks to |
| --- | --- | --- | --- |
| **Execution queue** (`execution-queue-service.ts`, `execution-worker.ts`, `supabase-execution-job-repository.ts`, attempt-guard SQL) | `execution_jobs`: status, attempts, lease, holder; a worker's loop and its attempts in flight | enqueue, claim, heartbeat, complete, fail, requeue, cancel, recover lapsed leases | called by start, approve, retry and the scheduler; runs the job runner |
| **Mission lifecycle** (`execution-job-runner.ts`, `work-execution-service.ts`, `task-execution-service.ts`, `work-approval-service.ts`, `work-recovery-service.ts`, `work-cancellation-service.ts`) | `works`, `tasks`, `approval_requests` of a mission; the copies a runner or a request holds | run the steps in dependency order, ask for a decision, start, approve, reject, retry, cancel, close abandoned missions | uses the queue; asks governance and the engine |
| **Continuous missions** (`continuous-mission-*.ts`, `start_continuous_mission_run`) | `continuous_missions`, `continuous_mission_runs`; what a tick has read | tick: queue stranded runs, find due, skip, stop, start; pause, resume, cancel, run now | creates missions and enqueues them |
| **Planning and launching** (`work-service.ts`, `mission-launcher.ts`, `stale-run-reconciler.ts`) | `works.status = planning`, `metadata.plan`, the steps written so far, the launcher's set of missions under way | begin planning, ask the model, create steps, put back to queued; launch, prepare, plan, start, retry, cancel | precedes the lifecycle; a scheduled run is planned by its worker |
| **Governance** (policy engine, gates, tool guard) | `policies`, and the copy a change was read from | evaluate a step, evaluate a call, create, change, archive | asked by lifecycle and tool executor |
| **Tools and agents** (tool executor, agent runtime, execution engine) | a run's turns and the calls it has made | ask the model, check, run, count, finish | called by a step |
| **Schedule arithmetic** (`packages/core/src/entities/continuous-mission.ts`) | `next_run_at` | next occurrence after an instant, in a timezone | asked by the scheduler, create and resume |
| **Connections** (`connections/`) | `connections`, sealed credentials, the refreshes a process shares | connect, refresh, set capabilities, disconnect, use | called by tools and by the settings page |
| **Members and access** (`access/`) | `organization_members`, invitations, workspace grants, Postgres row locks | invite, change role, suspend, remove, grant, sign in, claim ownership | asked by every route |
| **Skills** (`skills/`) | `skills`, `skill_versions` | draft, publish, pin, resolve | planning pins, execution resolves |
| **Company knowledge** | `memories` | capture, recall, curate | after a step, best effort |
| **Execution stream** (`execution-stream.ts`) | one tail per company: cursor, seen ids, listeners | subscribe, read, deliver, close | reads `events` |
| **Read models, templates, web** | none | read only | - |

What is hard, and where (the full list, with lines, is `hazards` in `PROJECT.json`):

* *Look, then write.* Enqueueing looks for an active job and inserts later; a run is
  started after looking at the latest run; a cancellation looks for the job once. The
  partial unique index, compare-and-swap updates and the unique constraint on
  `(mission, scheduled_for)` close some of those gaps and not others.
* *Stale copies written whole.* `tasks.update` and `works.update` write every column of
  a copy read earlier, by the runner and by requests. Nothing but the order of the
  code keeps an old copy from undoing a decision.
* *Attempts that outlive their lease.* A slow worker goes on after another has taken
  its job; the attempt-guard trigger must stop its writes.
* *Crashes* between any two statements, with the lease as the only witness; *lost
  writes* that the same attempt then misreads.
* *A person in the loop*: decisions, retries and cancellations arrive at any point of
  a run, and a decision about what a step does can outlive what it does.
* *Shared work in a process*: the launcher's missions under way, one refresh for several
  tool calls, one tail for everybody who watches a company.
* *Clocks*: stamps of several processes, a lookback, wall-clock times that do not exist
  or happen twice.
* *Progress*: every job settles, an approved step goes on, a due occurrence is answered,
  a plan and a run of the agent end.

What makes each part correct: the queue runs a mission at most once at a time, at most
`max_attempts` times, in claim order, and settles every job; the lifecycle runs a step
only after its dependencies and its decision, never throws away a completed step that others build on, and
always leaves somebody (a job or a person) who can take the mission on; a schedule
runs each occurrence at most once, one run at a time, and stops when it should;
planning writes one plan, and nothing runs on part of it; a write outside the company
starts only where a person approved it and no policy in force denies it; a company has
one live connection per scope and never loses its last owner; whoever watches is told
every event once; the next run is at the chosen time and none is passed over.

## 2. The modules

One action is one repository call, because that is the atomicity the code has. What a
process has read and will act on is part of the state. Words, reports, event records
and timestamps that nothing decides on are left out.

| Module | What it is |
| --- | --- |
| `MissionQueue` | What a mission may rely on: one slot per mission that is requested, claimed, written through, released, retired |
| `ExecutionQueue` | The table, the callers of enqueueWork, the worker loop, the attempts in flight, the clock; implements `MissionQueue` |
| `MissionLifecycle` | One planned mission: the attempt that runs it, the five requests, the fault and clean-up paths |
| `MissionPlanning` | One mission from its creation to the run that first executes its plan |
| `ContinuousMissions` | One instruction: scheduler ticks, people's requests, its runs |
| `ScheduleClock` | nextOccurrence, and the row that carries its answer through create, pause, resume and late looks |
| `GovernedStep` | One step under policies that change: gate, approval, the agent's turns, the guard at each call |
| `Connections` | One provider in one scope: round trips, changes, disconnects, uses, shared refreshes |
| `Members` | The members of one organization: requests, sign-ins, the owner claim, row locks and triggers |
| `Skills` | The skills of one slug: authors, the versions on record, the steps that pin one and follow it later |
| `LiveFeed`, `ExecutionStream` | What a watcher is promised, and the shared tail that implements it |
| `MC...` | Symmetry, plans, rules and timezones for TLC |
| `ExecutionQueueProofs`, `MissionLifecycleProofs`, `MissionPlanningProofs`, `ContinuousMissionsProofs`, `GovernedStepProofs`, `ConnectionsProofs`, `MembersProofs`, `ExecutionStreamProofs` | Theorems and their proofs; those about `ScheduleClock` are in `ContinuousMissionsProofs` (as `Cal!`), those about `Skills`, which planning pins, in `MissionPlanningProofs` (as `Skill!`) |

Composition: `MissionLifecycle` does not repeat the queue. Its variable `slot` is the
slot of `MissionQueue`, with one job active at a time and an attempt that lost its
claim unable to write; that is what `ExecutionQueue` is proved to implement. So the
lifecycle has one attempt at a time, and a worker that loses its claim simply ends
(`WorkerDies`, `StoreError`). `MissionPlanning` ends where `MissionLifecycle` begins (its
worker reads the steps and ends); `GovernedStep` opens one step of it: what the lifecycle
leaves to the choices `Asks` and `MayBeRefused` and to `EngineEnds` is there decided by
policies, floors and the agent's turns, while how the approval and the step's row are
written one after the other stays in the lifecycle. `ContinuousMissions` reduces a
mission to "queued", "going" or how it settled and the calendar to a period;
`ScheduleClock` has the calendar and nothing else.

### ExecutionQueue

| Code | Here |
| --- | --- |
| row of `execution_jobs` | `job[j]`; `lease` is a stamp that every lease write renews, `lapsed` and `due` say whether the clock has passed `lease_expires_at` and `run_at` |
| `enqueue` | `FindNoActiveJob`, `Insert`, `InsertRejected` (unique violation), `Reread` |
| `claimNext` | `ReadQueue` (the candidates), `TryClaim` / `ClaimMissed` (compare-and-swap on status and attempts), `StopClaiming` |
| worker loop | `pc`: recover, claim until full, wait; `Start`, `TickEnds`, `LoopError`, `Stop`, `Crash` |
| an attempt | `flight`: `AssertClaim`, `Write` (behind the trigger, `Owns`), `Heartbeat`, `Complete`, `Fail`, `Requeue`, `SettlementLost` |
| `recoverExpired` | `ReadLapsed` then `Recover` per row, matching status, attempts and lease |
| `cancel` | `Cancel`, queued rows only |

`turn` and `written` are history: the number of claims made for a mission, and the
claim that last wrote its rows. An attempt is not removed from `flight` when it loses
its job: that it goes on is the hazard.

### MissionLifecycle

The attempt's control point is `pc`: `ReadOrphans`/`ReclaimOrphan` (a step left running
goes back to pending), `ReadWork`/`StartWork`, then turns of `Load`, marking each
eligible step (`DenyTask`, `MarkReady`, `SkipAsked`, `RaiseApproval` then `HoldTask`),
`Reload`, and a batch of up to `MaxConcurrentTasks` steps executed together, each with
its own control point and copy in `exec[t]`: `Begin` (drift of the action, fitness of
the agent), `StopForNewApproval`, `AgentUnfit`, `ClaimTask` (the only compare-and-swap
on a task), `EngineEnds` (the row), then `StepRecorded` or `RecordThrows` (the event, in the
same try: a failing one makes the completed row failed), `EngineResultLost`. It ends by writing the mission waiting,
completed or failed and then settling the job. `StoreError`, `RequeueJob`, `FailJob`,
`ReadForFailure` and `RecordFailure` are the failure path of the runner; `WorkerDies`,
`Recover`, `FailExpired` and `Reconcile` are deaths and the two clean-ups in SQL.

A request is `req[c]`: what it has left to do and the copies it holds. Start checks and
enqueues; approve and reject read, resolve the approval by compare-and-swap, write the
task, write the mission, and (approve) enqueue; retry lists the tasks, resets them one
by one, writes the mission, enqueues; cancel reads the job, withdraws it, closes the
open decisions one by one, cancels the tasks one by one, writes the mission.

Data kept: a task row is its status, decision, the approval it names and the hash
(fingerprint) of the action that was decided; what a step would do now is the number
`version[t]`, which `ActionChanges` moves on when an agent, a tool grant or a skill is
edited. The answers of the policy engine and of delegation are choices: a step in
`Asks` goes before a person, a step in `MayBeRefused` may be denied or have no fit
agent.

### ContinuousMissions

`tick[s]` is one worker's scheduler: `BeginTick`, `QueueStranded`, `FindDue`,
`Consider`, then `Skip`, `Stop`, or `StartScheduled` and `QueueScheduled`. `Transition`
is the compare-and-swap on the instruction's status, `Admits` and `StartRun` are
`start_continuous_mission_run`. People pause, resume, cancel and run now; `CutTick`
and `CutRequest` stop a tick or a request after any of its steps. Time is a coarse
clock and a schedule is a period.

### MissionPlanning

Every caller (`Requests` and the worker) has a control point and the copy of the mission
it read. `beginPlanning` is the only compare-and-swap; `planWork` is `AskModel`, one
`CreateStep` per step, the last write from the copy read first (`FinishPlan`), and the
record of it (`RecordPlan`), after which only the launcher enqueues. `PlanThrows` reaches the
catch, whose write of "failed" is from that copy as well (`RecordPlanFailure`); `LosePlan` is
what throws outside the try or in the catch, and writes nothing. Requests launch,
prepare, plan, start, retry and cancel; `tracked` is the launcher's set, lost when the
API restarts; `starting`/`ApiStarted` is the reconciliation at startup, which closes what
is old enough. The worker plans a scheduled run itself and must cope with what a dead
predecessor left. `Throws` says where inside the try planning may fail. `retried` is history.

### GovernedStep

`edit[a]` is a change of a policy between its read and its write, `policy[p]` the row.
`step` is the step's row, `run` the attempt: the gate's question, its decision written
from what was answered before, then turns of the model, each answering or calling a tool;
a call passes the checks of the executor in their order (registered, once-per-run,
approved, the guard's question), is counted before it starts, and may fail after having
taken effect. `Effects` is the policy engine's matching, `Strongest` its verdict,
`WithFloors` the two floors. `standing` is history: the policies that were in force,
unchanged, from a question to what followed it.

### ScheduleClock

`Walk`, `InstantOf` (two passes over the guessed offset) and `Later` are the source's
functions; a day is a number, a timezone an offset before and after one jump. The
properties are stated against `Times`, `Meant` and `Chosen`, which say what a schedule
means from the two readings of a clock and use none of the arithmetic.

### Connections

A row is written whole from a copy, its credentials apart; `token[g]` is a grant, from
the state the browser brings back to what the provider still honours. A call of
`req[r]` connects, changes, disconnects or uses, in a process; `InFlight` and `Joined`
are the resolver's map of refreshes. Whatever throws between the exchange and the answer,
the audit event after the row is stored included (`Recorded`), takes a round trip to
`Drop`, which ends what it was granted. `ProcessStops` drops the calls of a process.

### Members

A request reads its caller's row and the member's row and later writes role and status
from that copy. An update or delete takes the row's lock, runs the trigger (which locks
the organization and counts the other owners among committed rows) and commits; a grant
holds the organization by its foreign key. Two statements that wait for each other are a
state of the model (`Circle`), out of which Postgres ends one of them (`BreakDeadlock`).
`Waits` says what a statement waits for.

### ExecutionStream

A read is `Fetch` then `Deliver`, or `Fail`; events carry stamps off the clock by one of
`Drifts`. `Fresh` are the rows that are not remembered, in the order they were read. Tails are numbered, because a listener that closes a second time closes the
tail it came for, which may be gone. `from` and `told` are history; `Feed!Spec` is the
promise: told to whoever was there, once.

### Skills

`skills[id]` is a row, `versions` the table of definitions on record, `edit[e]` a request
between what it read and what it writes, `step[t]` a step from the choice of its skill to
each time it runs. A text stands for all a skill says. `Effective` is `resolveSkills`,
`Free` the unique index of live slugs, `WithRecord` the insert that keeps what is there.
`CutEdit` ends a request between its row and the record of it.

## 3. What the runs show

| Run | Configuration | States | Shows |
| --- | --- | --- | --- |
| `queue_safety` | one mission, 2 requests, 2 jobs, 2 workers, 1 fault | 843,074 | one writer, claim order, leases |
| `queue_liveness` | two missions, one worker with 2 attempts at a time, 1 fault | 212,228 | every queued job settles; the refinement |
| `lifecycle_calm` | two steps in a chain, the second asks, the first may be refused; 4 requests, 3 faults, 1 completed step not recorded, a start or retry cut short | 201,819 | decisions, dependencies, cancellation, jobs, progress |
| `lifecycle_exact` | the same plan, 6 requests of which any one is cut short, 1 lost write, 1 completed step not recorded, 2 changes of what a step does | 1,015,182 | completion, drift, stuck runs, kept results |
| `planning_launch` | 2 requests and the worker, plans of 2 steps, 2 faults, any statement may throw | 130,671 | one whole plan, cancelled missions left alone, planning ends |
| `continuous_schedule` | 2 workers, 1 request, all operations, 2 events, clock to 4 | 649,297 | occurrences, order, stops, progress |
| `schedule_world` | 7 timezones, 10 schedules, half-hour ticks, a little under a week, looks up to 25 hours late | 107,054 | the chosen time, once, none passed over |
| `governed_run` | 4 rules, 2 policies, 2 changes, a read and a write tool, 2 turns, 1 fault | 738,426 | writes approved, standing denies hold, runs end |
| `connections_shared` | 3 calls at a time in 2 processes, 5 in all, 2 rows, 2 grants, 1 stop | 928,595 | one of each, revoked for good, kept tokens last |
| `members_access` | 3 rows, 3 people, 2 calls at a time, 3 in all | 251,479 | an owner stays, invitations accepted once, which waits close a circle |
| `stream_feed` | 2 listeners, 2 clocks, 4 events, batches of 3 | 139,755 | every event once, to whoever watches |
| `skills_adapted` | the company's two rows of a slug the product ships, 2 authors, 1 step, versions to 3 | violation | section 5 |

Some properties are conjunctions: what belongs together is checked, and broken by a
changed definition, as one.

**Queue.** `QueueInv` (one active job per mission; no more claims than `max_attempts`;
every attempt in flight stems from a claim of its own); `OneWriter` (of all attempts
still executing for a mission, including those that do not know they lost it, at most
one can get a write past the trigger); `WritesInClaimOrder` (a write of an earlier claim
never lands after one of a later claim); `LiveLeaseKept` (recovery takes a job only after
its lease has run out, although it reads before it writes); `SettledByItsHolder` (and a
settled job stays as it was settled); `EveryJobSettles`; `ImplementsMissionQueue` (the
refinement, checked where a worker executes two attempts side by side and both outlive
their claims; section 4 proves it for any number of workers).

**Lifecycle.** `NothingRunsUndecided` is the central one: a step that needs a decision
is made ready, run or completed only on an approval that was raised for it and granted,
although at that moment copies from before the decision are held by the runner and by
requests. `RunsWhatWasApproved` relates what the engine was handed to what the approval
described. `EngineRunsInTurn` (dependencies completed, nobody rewrites the row the engine
has), `EndedIsWhole` (completed: every step is; cancelled: nothing left open),
`CancelledForGood`, `CompletedStepsKept` (a completed step is put back by nothing but the
call that completed it, when that cannot record so, and then no step that depends on it is
ready, running or completed), `StuckMeansUnresolved`, `QueuedMissionsHaveJobs`, `JobAgreesWithMission` relate the mission, its steps, its
decisions and its job; `SomeoneToAsk`, `JobsSettle` and `GrantedStepsGoOn` say the
mission is never left to nobody.

**Planning.** `OneWholePlan`: the steps of a mission nobody retried come from one
planning call, it says it has a plan only when all of it is written, and the worker runs
nothing less. `PlannerLeavesCancelled`: a planner that has yet to write its plan, or its
failure to, writes nothing over a cancellation. `PlanningEnds`: a mission stays in planning
for ever only if the API was restarted while it was too young for the reconciliation, or a
statement outside `planWork`'s try, or the write of its failure, was refused. What both leave
out is in section 5 (`CancelStands`, `FailedPlanIsRecorded`).

**Continuous missions.** `ScheduleIsKept` (occurrences in order and each once, the
schedule's own runs one at a time, all runs one at a time unless `Races`, at most one run
started after the owner lost access),
`StartsOnlyWhenItMay` (nothing once finished or paused, nothing on repeated failures),
`DueIsAnswered`, `StartedRunsAreQueued`.

**Schedule.** `AsChosen`, `OnceEach`, `NonePassedOver` (the walk of nine days or 49 hours
always finds the next run, it is ahead however late the look, and no time named lies
between). In the repeated hour an hourly schedule skips the second pass of its minute,
which `OnceEach` allows and `Meant` counts as the same time.

**Governed step.** `WritesWereApproved`, `StandingDeniesHold` (a deny in force from the
question to the call, or to the write of the decision, is obeyed; one written in between
may come too late), `RunsEnd`.

**Connections.** `OneOfEach` (one live connection of a scope, each state exchanged once,
one refresh of a row per process and nobody waiting for a refresh that is not under way);
`RevokedForGood`; `KeptTokensLast` (at GitHub a token a connection has is ended by a
disconnect only, or by the round trip that stored it and then failed; no round trip ends
what another put in its place).

**Members.** `OwnerKept`, `AcceptedOnce`; `OnlyOwnersCircle`: the one way calls come to wait
for each other is a grant to an active owner meeting that owner's removal. Any other removal
asks for nothing but its row, and without that circle some call under way waits for nobody.
The circle itself is reached; the program has no order of locks that would avoid it and no
retry after Postgres fails one of the two.

**Stream.** `EveryEventOnce` is the refinement of `LiveFeed` with its fairness;
`ListenersAreRead`. The first read after a subscription also tells events up to one
lookback older than the subscription; `LiveFeed` allows it.

### Bounds, and what they hide

| Bound | Meaning | Why it is enough |
| --- | --- | --- |
| `MaxBeats` 2 | lease writes of one claim | the claim itself and a renewal: enough for the one race, a renewal between recovery's read and its write |
| `MaxFaults` (queue) 1 | crashes, stops and lost answers | with one, an attempt outlives its claim, and a job is claimed twice |
| `MaxAttempts` 2 | the column's default is 3 | the first, a retry, and the refusal of another |
| `Concurrency`, `CandidateLimit` | attempts a worker runs, rows a claim looks at | 2 in the liveness run; 1 where two workers already race |
| `MaxRequests` 4 or 6 | requests of a behaviour | start, reject, retry, approve; and a cancellation or another round |
| `MaxFaults` (lifecycle) 3 | deaths and thrown errors | more than `MaxAttempts`, so that a job uses up its attempts by faults alone |
| `MaxLostWrites` | final task writes the database refuses | see below |
| `MaxUnrecorded` 1 | completed steps whose event is refused | the step fails; its retry has the next |
| `MaxChanges` 2 | changes of what a step does | before and after a decision |
| eight approvals | | never used up in the passing runs |
| two steps | | a dependency, a step that asks and one that does not; a batch of two in the runs without dependency |
| `MaxTime` 4, `Period` 2 | two occurrences | an occurrence late by a whole period while the next comes |
| `MaxCuts` 1, `Cuttable` | requests cut short after any statement | a second cut leaves what another first cut would |
| `MaxEvents` 2 | requests, cancelled or retried runs, cuts, losses of access | any two of them in any order |
| `PlanSize` 2, `MaxRequests` 3 (planning) | steps of a plan, requests | half a plan exists; launch, cancel and retry meet |
| `Horizon`, `MaxLate` | a week around the jump, a look a day late | every kind of day, before, on and after the jump; a look after the day's own time |
| `MaxToolCalls` 2, `MaxEdits` 2 | turns, changes of policies | a failed call and its repetition; a deny written and taken back, or one before each question |
| `MaxCalls` 5 / 3 | calls of a behaviour (connections / members) | two round trips, a change, a disconnect and a use; two owners and a third person |
| `MaxVersion` 3 (skills) | changes of one skill | created, changed while it is pinned, and changed or archived after |
| `Lookback` 1, `MaxInWindow` 2 of `BatchLimit` 3 | see below | an event behind the newest, and one at it |

Some properties hold only where the races of section 5 are kept out, and these
switches say so rather than hide it:

* `Patient` = TRUE: a person decides, or retries, only once no job of the mission is
  active (the interface allows more). With FALSE, `GrantedStepsGoOn` fails (section 5),
  and so do `QueuedMissionsHaveJobs` (a retry lands
  between the failed mission and its failed job and is handed the old job) and
  `CompletedStepsKept` (with `Deps <- NoDeps`: a retry writes back a copy of a step another
  branch has completed meanwhile). One request is in flight at a time in the passing runs; with
  two, `CancelledForGood` fails (section 5). Section 4 calls the two together `Alone`.
* `MaxLostWrites` = 0 in `LifecycleCalm.cfg`: with 1, `JobAgreesWithMission` fails. The
  database refuses a step's last write, the step stays running, the same attempt takes
  it for somebody else's and completes the job over a mission that still reads
  executing. `LifecycleExact.cfg` has the lost write, and what it checks holds with it.
* `Races` and `Ties` = FALSE in `ContinuousSchedule.cfg`: a run by hand is not asked
  for while a tick starts one (else `OneRunAtATime` fails, section 5),
  nor in the very millisecond of an occurrence. With `Ties` = TRUE, `DueIsAnswered`
  fails: the manual run takes the occurrence's place in the unique constraint, every
  scheduled start after that answers nothing, and the instruction stays due.
* `Cuttable` has starts and retries in `LifecycleCalm.cfg`: with approvals or
  cancellations, `SomeoneToAsk` fails. An approval resolved and not written on its step,
  or a cancellation cut short after it closed the decisions, leaves a mission waiting
  with nothing anybody can decide; it can still be cancelled. `LifecycleExact.cfg` cuts
  all five; there a retry cut before its enqueue may leave a queued mission without a
  job, for a person to start.
* `Apart` = TRUE in `PlanningLaunch.cfg`: people leave the planning of scheduled runs to
  the worker (the page does not offer it; the routes accept it). With FALSE,
  `OneWholePlan` fails: a launch and the worker plan side by side. `SlowPlans` = FALSE:
  no plan takes longer than `planningStaleAfterMs`; with TRUE a start or a restart takes
  a mission away from a planner still at work, and `PlannerLeavesCancelled` fails.
  `Patient` there means that nobody cancels while an unanswered request may be planning;
  with FALSE `PlannerLeavesCancelled` fails (section 5).
* `MaxInWindow` < `BatchLimit` in `StreamFeed.cfg`: with as many events in a lookback as
  a read returns, `EveryEventOnce` fails (section 5). `DriftAssumption` is the documented
  reason for the lookback.

`NothingRunsUndecided` needs none of these switches: section 4 proves it without. For the
other properties of the lifecycle it proves which of them each needs.

`LifecycleExact.cfg` sets no worker deaths, because one between creating an approval and
naming it on the step breaks `RunsWhatWasApproved`. The passing lifecycle plan has one
step that asks, because two that wait together break `StuckMeansUnresolved`, and nothing depends on it,
because such a worker would break `EngineRunsInTurn`. All three are in section 5.

Deadlock is checked in the two queue runs, where the clock and the workers always have
something to do. It is off elsewhere: a mission, a company or a connection at rest with
its requests used up has stopped, and so has a clock at its bound. `Members` is the one model
with locks; `OnlyOwnersCircle` says there which waits can close.

### Fairness

* Queue: weak fairness of each worker's loop (a timer loop that catches its errors and
  goes on), of ending each attempt that is in flight (task timeouts bound it), and of
  the clock. No fairness of requests, crashes, heartbeats or writes. A crashed worker
  starts again, because its loop is fair from "down" too: the deployment restarts it.
* Lifecycle: weak fairness of the attempt, of the queue's side (claim, recovery) and of
  finishing a request that was begun. Nobody has to make a request, and faults need not
  happen.
* Planning: weak fairness of each planning call, of each request begun, of the worker, of
  the recovery of its job and of the API's startup. A model call ends or throws: the
  client has a timeout.
* Governed step: weak fairness of the attempt. `within` ends each call and each question
  to the model after a time.
* Stream: weak fairness of the timer's read, strong fairness of delivering, because reads
  may fail but not for ever.
* Connections, members, skills and the calendar have safety properties only.
* Continuous missions: weak fairness of each tick, of finishing requests, and of the
  clock. A run's mission need not ever finish; a going run is a reason to skip.

## 4. What is proved

For every value of the constants, under the assumptions named in the modules
(bounds are natural numbers, the limits positive, dependencies are between steps, rules
are about tools, offsets are at most fourteen hours, the null value is neither an
identifier nor a number).

**`ExecutionQueueProofs`.** `TypeCorrect`; `QueueInvariant` (`Spec => []QueueInv`), and
from it `OneActiveJobAlways`, `AttemptBudgetAlways`, `OneWriterAlways` and
`WritesInOrder`. `OneWriter` is not inductive: it speaks of attempts whose number
matches the row, and says nothing about where the row's number came from. `FlightInv`
is the strengthening: every attempt in flight stems from a claim of its own (no two
have the same job and number), its number never exceeds the row's, and one that still
matches is the last claim made for its mission. A claim raises the number, which
overtakes all older attempts of the job; another job of the same mission can be claimed
only when no other is active, so older attempts of other jobs match nothing. Claiming
needs `OneActiveJob`, which in turn only inserting can threaten. `WrittenInv` adds that
the writer on record is no later than the last claim, from which `WritesInOrder`
follows: a write passes only if its attempt is the last claim. `RowMoves` says
what one step may do to a running row (leave it, renew its lease, give it up because the
lease ran out, settle it by its holder) and that a settled one is left alone;
`LeasesAreKept` and `SettledByHolders` are read off it.

`KeepsItsPromise` is the refinement: `Spec => ImplementsMissionQueue`, for any
number of missions, jobs, workers and attempts. Each statement is one step of one
mission's slot or a stutter, and three parts of `QueueInv` are why. With `OneActiveJob` the
slot is a view of a single row, so that what happens to a row happens to one slot. With
`AttemptBudget` a claim meets the limit `MissionQueue` puts on it, although the claim in the
code looks only at the number it read. With `FlightInv` an attempt whose write the trigger
lets through is the latest claim of its mission.

**`MissionLifecycleProofs`.** `TypeCorrect` and `TypesHold`: typing, together with
`Named`, that an approval about to be put on a step or decided exists. Then
`DecidedFirst`: `Spec => []NothingRunsUndecided`, for any plan, any number of requests
at once, any faults, any lost writes, any request cut short, `Patient` or not.
It is not inductive, because the row a step gets is copied from somewhere. The invariant `Sound` closes over all the
places a row can be: in the table, in the runner's snapshot, in the copy of each
executing step and in the copies of each request, a row that says "granted" names an
approval that was granted for that very step, and a row in motion (ready, running,
completed) of a step that asks is granted. Such a row stays sound whenever it is
written back, however late, because an approval that was granted stays granted
(approvals are only ever resolved from pending). `CopiesStaySound` is that invariant.
So the property the code relies on without stating it is that a decision is monotonic:
stale copies can lose a grant, which costs a step its progress, but not invent one.

The other properties of the lifecycle are not true of copies that old; section 5 has the
interleavings. They are proved for behaviours in which requests do not interleave, with
one another or with a job whose rows they would overwrite. `Alone` says that of a state (at
most one request is under way, and one that has come to its writes finds no job active),
and `OneAtATime` that it is what `Patient` and one request come to, `Spec => []Alone`: a
cancellation need not be patient, because it withdraws the job first. Of the faults each
theorem allows as many as are true of it:

| Theorem: `Spec /\ []Alone =>` | Holds if | Any number of |
| --- | --- | --- |
| `CancellingIsTerminal`: `CancelledForGood` | | all faults |
| `JobsAgree`: `JobAgreesWithMission` | no task write is lost | deaths, errors, cuts, changes |
| `SomeoneIsAsked`: `[]SomeoneToAsk` | no decision or cancellation is cut short | deaths, errors, lost writes, changes |
| `RunsInTurn`: `[]EngineRunsInTurn` | no step depends on one that asks, or no death or error | lost writes, cuts, changes; deaths and errors in the first case |
| `ApprovedAsDescribed`: `[]RunsWhatWasApproved` | no death or error of the worker | lost writes, cuts, changes |
| `CompletedForGood`: `CompletedStepsKept` | the same | the same |
| `EndsWhole`: `[]EndedIsWhole` | the same | the same |
| `QueuedHaveJobs`: `[]QueuedMissionsHaveJobs` | the same | the same |
| `StuckIsUnresolved`: `[]StuckMeansUnresolved` | the same, and every step that asks comes before or after every other (`InLine`; section 5 has what happens otherwise) | the same |

Any number of completed steps may fail to be recorded (`MaxUnrecorded`) in all of them.
`CalmMission` and `ExactMission` put these together under exactly what
`LifecycleCalm.cfg` and `LifecycleExact.cfg` assume, but for any plan (of the one kind
where `EngineRunsInTurn` or `StuckMeansUnresolved` needs it), any number of approvals,
attempts, requests and faults.

`Base` is the invariant all of them rest on (`CopiesStayFresh`): when a copy is written
back, it says what its row says, but for a status that clean-up closed in between. So each
step of the system is, seen from the rows, one of a few (`AttemptWrites`, `RequestWrites`): a
status moves, a completed step is undone by the call that completed it (`Undoes`), a step is
held, a grant is superseded, a decision is written. `Exact` adds,
where no death or error falls between two writes, that every open decision is the one its
step names (`PendingNamed`), that what a decision is about to be written on still waits for
it (`DecidesNow`), and that a granted row carries the fingerprint the granted approval
described (`RowsAgree`), which the engine's copy has when it begins (`CallsAgree`). That is
what errors break: an approval nobody's row names can be decided later, and its decision
is written over whatever the step has become. `InOrder` is why undoing a completed step pulls
nothing from under another: what is ready, running or completed stands on completed steps
(`StandsOnDone`), and nothing stands on a step whose call is under way or still recording
(`Unbuilt`), because a batch is over before the next step is made ready. The rest is where the runner stands and
what that says of the mission (`TurnFits`, `WorkAt`), what a cancellation has
passed (`Closing`), who will answer a step on hold (`HoldsAwait`, `MissionAwaits`) and
who will take up a mission that reads as queued (`QueuedGoes`: its job, the attempt that
claimed it, the request about to enqueue it or to cancel it).

`Asking` is why a run that stops with "No task is ready" has passed nothing over
(`StuckIsUnresolved`). The runner marks everything eligible except a step whose approval is
still open; so an open approval must mean a step on hold (`AskedWait`). It stays so unless a
retry resets a held step, and a retry needs a failed mission: the proof is that a mission
never fails over an open decision (`NoneLeftAsked`). That follows from the plan:
a step that got anywhere has its dependencies completed (`Passed`), so of two steps in line
one is completed before the other comes to its turn, and two never wait, or wait and fail,
together (`InLineApart`). TLC checked `Asking` on the run's plan and on the chain in which both
steps ask before it was proved.

**`ContinuousMissionsProofs`.** `KeepsTheSchedule` and `StartsWhenItMay`, for any number of
workers and requests, any period and failure limit, with `Races` and `Ties` or without.
A tick decides on rows it read earlier, and the database compares little when it starts
the run: the status and that the occurrence is still due. The proof is that this is enough.
The next occurrence only ever moves on, a resume, an advance and a start all move it, and
in between a pause or a cancellation shows in the status; so if the occurrence a tick read
is still the next one, nothing that could forbid the run has happened since (`StartsWell`):
the latest run was free and still is, the latest `FailureLimit` runs are not all failures
of the schedule's own, and the schedule has started none without the owner's permission. `InTurn` carries
"the run before was free" along the table (`Free` includes runs a person cancelled or
retried, and with `Races` those started by hand); `NoRace` says what the bound `Races` =
FALSE keeps out; `OneLost` that of the schedule's runs one at most was started after the
owner's loss. They were checked by TLC with `Races` FALSE and TRUE before they were proved.

**`MissionPlanningProofs`.** `PlannedOnce`, `CancelledIsNotPlanned` and
`NothingOverCancelled`, for any requests, any number of steps, attempts, faults, restarts
and any choice of where planning throws, under `Calm`: the three switches the run sets
(`Apart`, `Patient`, no `SlowPlans`; section 3 says what each keeps out). `OneWholePlan`
speaks of the steps, the mission's plan and the worker about to run; nothing in it says
why a second planner cannot be half-way through. `IInv` does: of a mission nobody retried,
whoever plans it is the only one (`Alone`, `ByOrigin`: the launcher's set for a person's
mission, the job for a scheduled one), found it without steps, and the steps there are
exactly those it has made (`Planners`); and whoever holds a copy that it will write whole
holds one that says of the plan what the row says (`Copies`, `Asked`, `Runs`), which is
what the copies read before the model was asked make doubtful. A planner that has written its
plan and is still at the record of it is the exception throughout: the mission is no longer its
own. So `CancelledIsNotPlanned` says that whoever still plans a cancelled mission has only a
record left to make, of the plan or of its failure, and `NothingOverCancelled` that no planner
before that point writes over a cancellation. `Withdrawn` is why a
cancelled scheduled run stays cancelled: its job went first, so no worker comes for it.
TLC checked the invariant on the run's bounds and with three calls at a time and five
requests before it was proved.

`NothingOverCancelled` (`PlannerLeavesCancelled`) has one hypothesis more: nothing is
retried, or missions come from schedules. It is needed, and the attempt to do without it
is how that was found. With five requests, three at a time and a person's mission, TLC
refutes `PlannerLeavesCancelled` although `Calm` holds: a launch fails, two retries are
opened on the failed mission, the first ends and the mission is launched again, the second
writes "queued" from its old copy (`work-recovery-service.ts:81`) over the planning that
was just begun. The planner reads a waiting mission, which a cancellation may take, and
writes "planning" over the cancellation (`work-service.ts:149`). Three requests, the run's
bound, are too few for that.

**`ExecutionStreamProofs`.** `WatchersAreRead` (`ListenersAreRead`), `ToldAtMostOnce` and
`ReaderIsAFeed`, for any listeners, batches, failed reads and clocks that differ by no more
than a lookback. `Tails` is why a listener that closes twice does no harm: a tail is opened
only when there is none, and one that is closed named a tail before. The other two need
`Remembers`: the reader remembers at least 2 * `MaxInWindow` - 1 events. An event can be
read again while it is no older than a lookback before the newest; everything remembered
after it is no older than a lookback before it (`Memory`: a batch is in order and begins a
lookback before the cursor at most) and no newer than a lookback after it, so it lies in two
windows that share the event itself (`TwoWindows`), and pruning the oldest cannot have
reached it (`Recent`). The bound is exact: with two remembered and two in a window TLC
finds an event told twice, with three it does not. The code remembers 600
(`SEEN_CAPACITY`), enough for 300 events in five seconds; a read is full at 200, and from
there on section 5 has the reader stop, so the memory is never what fails first.

`ReaderIsAFeed` is the safety half of the refinement: `Spec => Feed!Init /\
[][Feed!Next]_<<Len(stamps), from, told>>`. Subscribing is `Come`, closing `Go`, recording
`Record`, delivering a `Tell` of the new rows to exactly those the feed counts as present
(`from` is `Away` for everybody else, by `Tails`), and at most once by `Once`; the fetch, a
failed read and the clock are stutters. That everything owed is told is fairness, and TLC's.

**`GovernedStepProofs`.** `TypesHold`, `WritesApproved`, `DeniesHold`,
`ReadyWasDecided`, `WritesOnceInARun`, `RequiredCallsHold`, for any rules, tools, policies
and authors. `RunKeeps` ties the run's copy of the approval to the step's row (a run whose
copy names tools belongs to a step that is running and approved), a call under way to
what the run has counted, and what was begun to what was counted: calls are counted
before they start, which is why a call that failed is not begun again. `AnswersKeep`
carries a question's answer to its use: `standing` only shrinks, so what it denied at the
question it denies at the call.

**`ConnectionsProofs`.** `OneOfEachAlways`, `RevokedStays` and `KeptTokensAlwaysLast`, for any
rows, grants, calls and processes. Each step is looked at four times: for what it may do to
a row (`RowStep`), to a grant and its holder (`GrantStep`), to the refreshes under way
(`RefreshStep`) and to who has which grant (`KeptStep`).
`Fit` is what makes the types inductive: a call that will write a row holds a copy that was
live when it was read, so what it writes onto a row with credentials is a live status. A
revoked row has no credentials, and the table refuses a live status without them; that
constraint, and not an order of the calls, is why old copies cannot bring a connection
back. `GrantsApart` adds that a grant in anybody's hands has been asked for and used, and is
in one call's hands: that makes an exchange the only one. `GrantsKept` is why a token that
is ended is in no row: no two rows have the same grant, a grant a call is about to store
is in none, and a grant that was replaced has left its row and nobody stores it again. A round trip about
to drop its grant may have stored it; it stores nothing any more, and drops no grant but its own.

**`MembersProofs`.** `TypesHold`, `PersonOnce`, `AccessOfMembers`, `AcceptedForGood`,
`AnOwnerStays` and `CirclesAreOfOwners`. `OwnerKept` needs the locks: `LocksHeld` (a statement past its row's lock
holds it and the row exists) and `LosersHold` (who is about to commit the loss of an
owner holds the organization, and another owner is there). Two losers cannot both hold
the organization, and the other owner's row is held by nobody who is about to take it
away. `PeopleBehind` (who would write a status other than invited read a row with a
person) is what makes the types inductive. `CirclesAreOfOwners` says which waits
can close a circle, without ENABLED: by `HoldersRun` every row's lock and the organization's
belong to a call that is past its own wait for them, and by `AskersLose` only a statement that
takes an active owner away asks for the organization. The last in a chain of waits is then a
commit, which waits for nobody, or a grant and an owner's removal that wait for each other.

**The calendar** (in `ContinuousMissionsProofs`, whose occurrences it finds).
`ScheduleTypesHold`, `DueAsChosen`, `NextRunIsAhead` and `FirstTimeWest`, for every timezone
of one jump and every fineness of the clock. They are about an instance of `ScheduleClock`
with constants of its own, so what the module assumes of its constants is each theorem's
hypothesis (`Cal!ClockAssumption`; TLC evaluates it on `ScheduleWorld.cfg`).
`DueIsNamed` (the due instant is `InstantOf` a wall-clock time the schedule names) reduces
the first to arithmetic about the two passes: the lemmas distinguish where the two guesses
land around the jump. `FirstTimeWest` proves the documented "first time" where the offset
before the jump is not ahead of UTC or the clocks go forward; section 5 shows the rest.

**Skills** (in `MissionPlanningProofs`, since planning pins them; an instance, as above).
`OneDefinitionEach`, `PinsAreOnRecord`, `VersionsAreKept`, for any
rows, texts, authors and steps, assuming `SkillsAssumption` (the null value and the
product's ref are no row's, and the product's skill says one of the texts or is absent).
That a ref and a version name one text is what makes "the stored one wins" safe when a
record is repeated. It needs `NoneAhead`: no definition of a row's ref that anybody holds
has a version above the row's, so the version a save takes is new; and the save's match
on the version keeps a second author from taking the same one. `RanItsNumber` ties what a
step followed to its pin. They were model-checked before they were proved, with two
authors on one row and with one author on two.

TLC checks what is proved as well: `QueueInv`, `OneWriter`, `WritesInClaimOrder`,
`LiveLeaseKept`, `SettledByItsHolder`, `ImplementsMissionQueue`, `OneOfEach`,
`RevokedForGood`, `KeptTokensLast`, `ScheduleIsKept`, `StartsOnlyWhenItMay`, `NothingRunsUndecided`, `WritesWereApproved`, `StandingDeniesHold`, `OwnerKept`,
`AcceptedOnce`, `OnlyOwnersCircle`, `AsChosen`, `OneWholePlan`, `PlannerLeavesCancelled`, `ListenersAreRead` and
the nine of the table above are properties of the runs, with changed definitions that
break them. `TypesHold` and the theorems without a run (`OnceInARun`,
`RequiredCallsMade`, `ReadyStepsAreDecided`, `OneMembershipEach`, `GrantsOfMembers`,
`NextIsAhead`) were model-checked before they were proved and rest on the proofs now.

**Only model-checked**: liveness (`EveryJobSettles`, `JobsSettle`, `GrantedStepsGoOn`,
`PlanningEnds`, `DueIsAnswered`, `StartedRunsAreQueued`, `RunsEnd`, and of `EveryEventOnce`
that every event is told), which is beyond the prover. `OnceEach` and `NonePassedOver` are not proved either, for another reason:
they are not true of every timezone `ClockAssumption` admits. `NonePassedOver` needs that the clocks
jump by no more than a day, and `OnceEach` that a jump does not carry a skipped time into
another day (where the clocks go forward at 23:00, a time of the last hour of a day is taken
on the next). The run's timezones jump by an hour or less and within a day, or not at all; a
theorem would have to say which jumps are sound, and how far the walk then reaches.

## 5. Where code and documentation disagree

One is kept as a run that TLC ends with a counterexample. The others are properties kept
in their modules, which the passing configurations keep out by the named bounds; changing
those shows them (with `Cuttable` cut down to `Ops` where `Ops` is smaller).

**`skills_adapted`** (`FollowsItsPin`). `docs/skills/README.md:104`: a step runs the version
of a skill it was planned around, not whatever the skill says today. `skillFor` takes the
live skill of the slug when its number is the pinned one (`task-execution-service.ts:528`)
and never compares the ref. Every system skill is version 1, and so is the company's own
skill of that slug when somebody adapts it: a step that pinned `system:<slug>` version 1
follows the company's version 1, though the pinned one is on record. A decision about the
step describes the pin, so it goes on covering the step.

| Property | Configuration that shows it | Said | Done |
| --- | --- | --- | --- |
| `TakenTheFirstTime` | `ScheduleWorld.cfg` with `Zones <- Berlin`, `Schedules <- HalfPastTwo` | `continuous-mission.ts:205` and `:313`: a time that happens twice is taken the first time | Ahead of UTC the second time: both guesses of the offset are made at the wall-clock time read as UTC, which lies after the jump (`:310`). The test looks at New York, where the rule holds |
| `ReplacedIsNotFollowed` | `SkillsAdapted.cfg`, as its PROPERTY | `docs/skills/README.md:114`: a skill archived or replaced since is not run | Any live skill of the slug will do: with another number there, the replaced skill is run from the record (`task-execution-service.ts:537`) |
| `GrantedStepsGoOn` | `LifecycleCalm.cfg` with `Patient = FALSE`, no faults, `Ops = {"start", "approve"}`, `MaxRequests = 2` | `server.ts:1071`: an approved step is executed once a worker starts | A decision made before the asking run has let go of its job enqueues nothing (`execution-queue-service.ts:50` hands back the active job); that job then completes and nobody runs the step |
| `StuckMeansUnresolved` | `LifecycleExact.cfg` with `Deps <- NoDeps`, `Asks = {first, second}`, no lost write, cut or change, `Ops` without cancel, `MaxRequests = 4` | `docs/workflows/workflow-model.md:4`: each step runs when its dependencies have finished and governance allows it | With two steps waiting, rejecting one and retrying leaves the other pending while its approval is open; it is not held again (`work-approval-service.ts:69`), and the run fails with "No task is ready" |
| `CancelledForGood` | `LifecycleCalm.cfg` with two requests, `Ops = {"start", "cancel"}`, no faults, `Patient = FALSE` | `work-cancellation-service.ts:21`: cancelling is terminal | A start that enqueues after the cancellation looked for the job has the mission executed; an attempt that finds it cancelled writes it failed (`execution-job-runner.ts:268`) |
| `RunsWhatWasApproved` | `LifecycleExact.cfg` with `MaxFaults = 1`, `MaxLostWrites = 0`, `Ops = {"start", "approve"}`, `MaxRequests = 3` | `docs/governance/README.md:47`: a decision does not cover an action that changed | A worker that dies between creating an approval and naming it on the step leaves two open approvals; granting the older runs the newer action (`work-approval-service.ts:80`) |
| `EngineRunsInTurn` | `LifecycleCalm.cfg` with `Asks = {first}`, `MaxAttempts = 1`, `MaxRequests = 6`, `MaxCuts = 0` | `docs/workflows/workflow-model.md:4`: each step runs when its dependencies have finished | The approval such a worker leaves behind can be decided after the step is completed; the decision puts the step back to pending (`work-approval-service.ts:226`), and a dependent that another error had left ready runs before it |
| `OneRunAtATime` | `ContinuousSchedule.cfg` with `Races = TRUE`, `Ops = {"run"}` | `continuous-mission-service.ts:355`: one run at a time | A manual run and a scheduled one both read the latest run as settled |
| `FailuresCountedAfresh` | `ContinuousSchedule.cfg` with `Races = TRUE`, `Ops = {"pause", "resume"}`, `FailureLimit = 2`, `MaxTime = 6` | `continuous-mission-service.ts:309`: failures are counted afresh from a resume | A tick that read the instruction before it was paused and resumed stops it on the old failures (`continuous-mission-scheduler.ts:195`) |
| `RunsWholePlan` | `PlanningLaunch.cfg` with one request, `Ops = {"launch", "retry"}`, `Throws = {"create"}`, `MaxRequests = 2` | `work-recovery-service.ts:20`: a retry resumes a plan that survived | Planning that throws after its first step leaves that step; the retry takes it for the plan (`:58`) and the mission completes on part of it |
| `PlannerLeavesCancelled` | `PlanningLaunch.cfg` with `Ops = {"launch", "cancel"}`, `Patient = FALSE` | `work-service.ts:98`: a cancellation and the plan cannot race | A cancellation that read the mission as waiting lands while it is planned; the plan's last write (`:492`) puts it back to waiting |
| `CancelStands` | `PlanningLaunch.cfg`, as its PROPERTY | `work-service.ts:98`: a mission being planned cannot be cancelled, so the two cannot race | The plan's last write (`:492`) makes the mission queued, and a cancellation is accepted, while the planner has its event to record (`:516`) inside the try. When that throws, the catch (`:532`) writes the row failed, from the copy read when planning began, over the cancellation |
| `FailedPlanIsRecorded` | `PlanningLaunch.cfg`, as its PROPERTY | `mission-launcher.ts:86`, `execution-job-runner.ts:158`: planning records its own failure on the mission | The record that planning began (`work-service.ts:155`) comes after the mission is marked and before the try, and the catch's own write (`:535`) may be refused: nothing is written, and the mission stays in planning until the API starts again |
| `InvitationsHaveNoUser` | `MembersAccess.cfg` with two rows and two people | `20260914000000_organization_members.sql:11`: an invitation has no user yet | A role change that read the invitation writes its status back over the accepted row (`member-service.ts:131`); no sign-in accepts it again |
| `TurnedOffStaysOff` | `ConnectionsShared.cfg` with two calls | `connection-resolver.ts:44`: a capability turned off applies to the very next call | A refused use, or a reconnect, writes the whole row from its copy and turns it on again (`:214`) |
| `NothingWasKept` | `ConnectionsShared.cfg`, as its INVARIANT | `connection-service.ts:384`: nothing was kept, so the token just issued must not outlive the request | The try covers all of `store`: when the row's update (`:407`) or the audit event (`:425`, `:456`) throws, the credentials are stored already (`:400`, `:433`), and the connection stays, active, with a token the catch has revoked (`:386`) |
| `KeptGrantsLast` | `ConnectionsShared.cfg` with two calls | `connection-service.ts:418`: a Google revoke ends the whole grant, so a replaced token is left to lapse | A round trip that fails after its exchange revokes what it was granted (`:386`), and with it the kept connection's grant of the same account |
| `EveryEventOnce` | `StreamFeed.cfg` with `MaxInWindow = 3` | `event-tail-repository.ts:20`: the inclusive read, de-duplicated by id, loses nothing | As many events in five seconds as a read returns (200): the same rows are read again, the cursor stays, later events are never told (`execution-stream.ts:176`) |
| `ApprovedOnce` | `GovernedRun.cfg` with `MaxEdits = 0` | `README.md:277`: each approved write runs at most once in its step (`approval-briefing.ts:164` says so to the person) | Once per run; a retry, or an attempt after a lost worker, keeps the approval and may write again |
| `ArchivedForGood` | `GovernedRun.cfg` with `Authors = {a1, a2}`, `MaxEdits = 3` | a policy's versioned update | The update writes the row from the copy read first, comparing nothing: an edit that read it before it was archived makes it active again |

Three more things the models make visible and no document denies: a step whose completion
cannot be recorded is written failed over its result (`task-execution-service.ts:353`, `:368`,
`:432`), so a retry, which keeps completed steps in order "to avoid re-running work that already
succeeded" (`work-recovery-service.ts:121`), runs it again; the API restarted soon after it
stopped leaves a mission it was planning in `planning`, because it is not yet old enough for
the reconciliation that runs once at startup; and a step a dead worker left `ready` starts in
the next attempt without governance being asked about it again (each of its calls is).

## 6. What is not modelled

* Event records, logs, notifications, the wake-up message between processes, and the
  wording of reasons: nothing decides on them.
* In `Skills` the matching of steps with skills, who holds one (a choice) and the
  validation of a draft. In `MissionLifecycle` what a step would do is a version number,
  and a skill that asks for approval is a choice in `GovernedStep`.
* Delegation and the choice of agents: a ranking made once, while planning; its result
  matters here as an agent that is fit or not.
* Company knowledge: captured best-effort after a step, never failing it.
* Read models (mission control, rooms, world, attention, readiness, intelligence),
  templates and the web application: two thirds of the code by lines. They read rows and
  write none, or call the routes whose effects are modelled where they are handled.
* The SSE channel on top of the execution stream, with its heartbeat.
* In `Connections` the rate limiter and scopes; in `Members` token
  checking, which is the auth provider's; in `GovernedStep` scopes by agent, capability
  and workspace (a policy that leaves this step out never matches) and knowledge policies. An attempt that loses its claim ends at once in
  `GovernedStep`; in the code it goes on until its next heartbeat is refused
  (`execution-worker.ts:206`), and calls made in between are not covered.
* Model clients, connector wire formats, rendering and the web application: input and
  output without shared state.
* Knowledge ranking and extraction: floating-point scores and a model's text.

## 7. The plan

1. **`Skills`** composed with `ActionChanges` of the lifecycle: when what a step follows
   changes between its approval and its run, which changes the fingerprint notices.
2. **The SSE channel** over `LiveFeed`: access narrowed while somebody watches.
3. When the code closes a gap of section 5, the bound that keeps it out of the passing
   configuration goes, and the property joins that run.
