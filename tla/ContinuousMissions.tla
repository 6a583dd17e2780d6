-------------------------- MODULE ContinuousMissions --------------------------
(***************************************************************************)
(* One continuous mission: the instruction's row, the runs it has started, *)
(* the scheduler ticks of the workers and the requests of people who       *)
(* pause, resume and cancel it or ask for a run now.                       *)
(*                                                                         *)
(* One action is one repository call.  A tick and a request decide from    *)
(* what they read and act on it later; what keeps them apart is the        *)
(* compare-and-swap of transition and advance and the transaction of       *)
(* start_continuous_mission_run.  A run's mission is reduced to where it   *)
(* stands (MissionLifecycle has the rest): "going" is every status between *)
(* queued and settled.                                                     *)
(*                                                                         *)
(* Time is a coarse clock.  An occurrence falls on every multiple of       *)
(* Period, which is all the scheduler knows of a schedule: the first       *)
(* occurrence strictly after an instant.                                   *)
(***************************************************************************)
EXTENDS Naturals, Sequences, FiniteSets

CONSTANTS
    Schedulers,    \* workers, each ticking the scheduler on its own loop
    Requests,      \* requests for a run now that can be in flight together
    Ops,           \* what people ask for
    None,          \* SQL null
    Period,        \* time from one occurrence to the next
    FailureLimit,  \* REPEATED_FAILURE_LIMIT
    Ties,          \* bound: whether a run may be asked for at an occurrence's instant
    MaxTime,       \* bound: the clock stops here
    Races,         \* bound: whether a run may be asked for while a tick starts one
    MaxEvents      \* bound: requests, runs cancelled or retried, steps cut short and
                   \* losses of access, all together

ASSUME ContinuousAssumption ==
    /\ Ops \subseteq {"pause", "resume", "cancel", "run", "cancel work", "retry work"}
    /\ None \notin Nat \cup {"person", "owner_access", "repeated_failures"}
    /\ Period \in Nat \ {0} /\ FailureLimit \in Nat \ {0}
    /\ Ties \in BOOLEAN /\ Races \in BOOLEAN
    /\ MaxTime \in Nat /\ MaxEvents \in Nat

VARIABLES
    mission,  \* the continuous_missions row
    runs,     \* continuous_mission_runs by sequence, each with its mission's status
    mayRun,   \* whether the owner may start missions there
    now,      \* the clock
    tick,     \* scheduler -> where its tick is and what it read
    req,      \* request -> what it has left to do
    events    \* what has happened of the kinds MaxEvents bounds

vars == <<mission, runs, mayRun, now, tick, req, events>>

Statuses == {"queued", "going", "completed", "failed", "cancelled"}

NoTick    == [pc |-> "idle", at |-> 0, due |-> 0, from |-> 0, reason |-> None,
              run |-> 0, left |-> {}]
NoRequest == [pc |-> "idle", at |-> 0, run |-> 0]

(* The first occurrence strictly after an instant.                         *)
(* Mutant: the latest occurrence not after it.                             *)
MutSameOccurrence(after) == (after \div Period) * Period

NextOccurrence(after) == (after \div Period + 1) * Period

Init ==
    /\ mission = [status |-> "active", reason |-> None, next |-> NextOccurrence(0), from |-> 0]
    /\ runs = <<>>
    /\ mayRun = TRUE
    /\ now = 0
    /\ tick = [s \in Schedulers |-> NoTick]
    /\ req = [c \in Requests |-> NoRequest]
    /\ events = 0

IsSettled(status) == status \in {"completed", "failed", "cancelled"}

LatestGoing == runs # <<>> /\ ~IsSettled(runs[Len(runs)].work)

Event == events < MaxEvents /\ events' = events + 1

-----------------------------------------------------------------------------
(* Writes to the instruction and its runs.                                 *)

(* start_continuous_mission_run, under the row's lock.                     *)
(* Mutant: any occurrence that has come is started.                        *)
MutAdmitsOverdue(trigger, due, at) ==
    /\ \A i \in DOMAIN runs : runs[i].for # due
    /\ IF trigger = "schedule" THEN mission.status = "active" /\ due <= at
       ELSE mission.status # "cancelled"

(* Mutant: a run asked for by hand is started whatever the status.         *)
MutAdmitsCancelled(trigger, due, at) ==
    /\ \A i \in DOMAIN runs : runs[i].for # due
    /\ trigger = "schedule" =>
          /\ mission.status = "active"
          /\ mission.next = due /\ due <= at /\ NextOccurrence(at) > due

Admits(trigger, due, at) ==
    /\ \A i \in DOMAIN runs : runs[i].for # due
    /\ IF trigger = "schedule"
       THEN /\ mission.status = "active"
            /\ mission.next = due /\ due <= at /\ NextOccurrence(at) > due
       ELSE mission.status # "cancelled"

StartRun(trigger, due, at) ==
    /\ runs' = Append(runs, [for |-> due, trigger |-> trigger, created |-> at,
                             work |-> "queued", job |-> FALSE,
                             touched |-> FALSE, permitted |-> mayRun])
    /\ mission' = [mission EXCEPT !.next =
                     IF trigger = "schedule" THEN NextOccurrence(at) ELSE @]

(* enqueueWork: the mission has a job afterwards, whoever put it there.    *)
Enqueue(i) == runs' = [runs EXCEPT ![i].job = TRUE]

(* transition: only from one of the given statuses.                        *)
Transition(from, to, reason, next, counted) ==
    mission' = IF mission.status \in from
               THEN [status |-> to, reason |-> reason, next |-> next, from |-> counted]
               ELSE mission

-----------------------------------------------------------------------------
(* ContinuousMissionScheduler.tick.                                        *)

In(c, p)     == req[c].pc = p
At(s, p)     == tick[s].pc = p
Goto(s, p)   == tick' = [tick EXCEPT ![s].pc = p]
EndTick(s)   == tick' = [tick EXCEPT ![s] = NoTick]
TickOnly     == UNCHANGED <<mission, runs, mayRun, now, req, events>>
TickAndRows  == UNCHANGED <<mayRun, now, req, events>>

(* Runs whose mission was written a while ago (a unit of the clock, here)  *)
(* and still reads as queued.                                              *)
(* Mutant: nobody looks for them.                                          *)
MutNoneAwaiting == {}

AwaitingQueue == {i \in DOMAIN runs : runs[i].work = "queued" /\ runs[i].created < now}

BeginTick(s) ==
    /\ At(s, "idle") /\ AwaitingQueue # {}
    /\ tick' = [tick EXCEPT ![s] = [NoTick EXCEPT !.pc = "strand", !.left = AwaitingQueue]]
    /\ TickOnly

QueueStranded(s) ==
    /\ At(s, "strand")
    /\ \E i \in tick[s].left :
        /\ \A j \in tick[s].left : i <= j
        /\ Enqueue(i)
        /\ tick' = [tick EXCEPT ![s].left = @ \ {i}]
    /\ UNCHANGED mission /\ TickAndRows

FindDue(s) ==
    /\ \/ At(s, "idle") /\ AwaitingQueue = {}
       \/ At(s, "strand") /\ tick[s].left = {}
    /\ Races \/ \A c \in Requests : ~In(c, "start")
    /\ IF mission.status = "active" /\ mission.next <= now
       THEN tick' = [tick EXCEPT ![s] = [NoTick EXCEPT !.pc = "consider", !.at = now,
                       !.due = mission.next, !.from = mission.from]]
       ELSE EndTick(s)
    /\ TickOnly

OwnerMayStillRun == mayRun

Stops(s, reason) == tick' = [tick EXCEPT ![s].pc = "stop", ![s].reason = reason]

(* The latest FailureLimit runs all failed, and all began since the        *)
(* mission was last resumed.                                               *)
FailingRepeatedly(from) ==
    /\ Len(runs) >= FailureLimit
    /\ \A i \in Len(runs) + 1 - FailureLimit .. Len(runs) :
          runs[i].work = "failed" /\ runs[i].created >= from

(* The checks before a run, in their order.  The owner's permission is     *)
(* read just before the runs; reading both at once loses nothing, because  *)
(* a permission lost in between might as well be lost just after.          *)
Consider(s) ==
    /\ At(s, "consider")
    /\ CASE ~OwnerMayStillRun -> Stops(s, "owner_access")
         [] OwnerMayStillRun /\ LatestGoing -> Goto(s, "skip")
         [] OwnerMayStillRun /\ ~LatestGoing /\ FailingRepeatedly(tick[s].from) ->
              Stops(s, "repeated_failures")
         [] OTHER -> Goto(s, "start")
    /\ TickOnly

(* advance: only if the occurrence read is still the one due.              *)
Skip(s) ==
    /\ At(s, "skip")
    /\ mission' = IF mission.status = "active" /\ mission.next = tick[s].due
                  THEN [mission EXCEPT !.next = NextOccurrence(tick[s].at)] ELSE mission
    /\ EndTick(s)
    /\ UNCHANGED runs /\ TickAndRows

Stop(s) ==
    /\ At(s, "stop")
    /\ Transition({"active"}, "paused", tick[s].reason, None, mission.from)
    /\ EndTick(s)
    /\ UNCHANGED runs /\ TickAndRows

StartScheduled(s) ==
    /\ At(s, "start")
    /\ IF Admits("schedule", tick[s].due, tick[s].at)
       THEN /\ StartRun("schedule", tick[s].due, tick[s].at)
            /\ tick' = [tick EXCEPT ![s] = [NoTick EXCEPT !.pc = "queue", !.run = Len(runs) + 1]]
       ELSE EndTick(s) /\ UNCHANGED <<mission, runs>>
    /\ TickAndRows

QueueScheduled(s) ==
    /\ At(s, "queue")
    /\ Enqueue(tick[s].run)
    /\ EndTick(s)
    /\ UNCHANGED mission /\ TickAndRows

(* A statement throws or the worker stops: the tick ends where it is.      *)
CutTick(s) ==
    /\ ~At(s, "idle")
    /\ Event
    /\ EndTick(s)
    /\ UNCHANGED <<mission, runs, mayRun, now, req>>

-----------------------------------------------------------------------------
(* ContinuousMissionService.                                               *)

Answer(c)     == req' = [req EXCEPT ![c] = NoRequest]
RequestAndRows == UNCHANGED <<mayRun, now, tick, events>>

Asked(op) == op \in Ops /\ Event

Change == UNCHANGED <<runs, mayRun, now, tick, req>>

Pause ==
    /\ Asked("pause") /\ Change
    /\ Transition({"active"}, "paused", "person", None, mission.from)

Resume ==
    /\ Asked("resume") /\ Change
    /\ Transition({"paused"}, "active", None, NextOccurrence(now), now)

Cancel ==
    /\ Asked("cancel") /\ Change
    /\ Transition({"active", "paused"}, "cancelled", None, None, mission.from)

(* The reads of runNow: the instruction and its latest run.                *)
RunNow(c) ==
    /\ Asked("run") /\ req[c] = NoRequest
    /\ mission.status # "cancelled" /\ ~LatestGoing
    /\ Ties \/ now % Period # 0
    /\ \/ Races
       \/ /\ \A s \in Schedulers : tick[s].pc \in {"idle", "strand", "queue"}
          /\ \A d \in Requests : ~In(d, "start")
    /\ req' = [req EXCEPT ![c] = [pc |-> "start", at |-> now, run |-> 0]]
    /\ UNCHANGED <<mission, runs, mayRun, now, tick>>

StartManual(c) ==
    /\ In(c, "start")
    /\ IF Admits("manual", req[c].at, req[c].at)
       THEN /\ StartRun("manual", req[c].at, req[c].at)
            /\ req' = [req EXCEPT ![c].pc = "queue", ![c].run = Len(runs) + 1]
       ELSE Answer(c) /\ UNCHANGED <<mission, runs>>
    /\ RequestAndRows

QueueManual(c) ==
    /\ In(c, "queue")
    /\ Enqueue(req[c].run)
    /\ Answer(c)
    /\ UNCHANGED mission /\ RequestAndRows

CutRequest(c) ==
    /\ ~In(c, "idle")
    /\ Event
    /\ Answer(c)
    /\ UNCHANGED <<mission, runs, mayRun, now, tick>>

-----------------------------------------------------------------------------
(* The runs' missions, the clock and the company.                          *)

RunsOnly == UNCHANGED <<mission, mayRun, now, tick, req>>

WorkGoes(i) ==
    /\ runs[i].job /\ runs[i].work = "queued"
    /\ runs' = [runs EXCEPT ![i].work = "going"]
    /\ RunsOnly /\ UNCHANGED events

WorkEnds(i) ==
    /\ runs[i].job /\ runs[i].work = "going"
    /\ \E status \in {"completed", "failed"} :
        runs' = [runs EXCEPT ![i].work = status, ![i].job = FALSE]
    /\ RunsOnly /\ UNCHANGED events

(* A job whose mission has ended meanwhile: over a cancelled mission its   *)
(* last attempt records a failure.                                         *)
WorkOver(i) ==
    /\ runs[i].job /\ IsSettled(runs[i].work)
    /\ runs' = [runs EXCEPT ![i].job = FALSE,
                            ![i].work = IF @ = "cancelled" THEN "failed" ELSE @]
    /\ RunsOnly /\ UNCHANGED events

Touch(op, i, r) ==
    /\ Asked(op)
    /\ runs' = [runs EXCEPT ![i] = [r EXCEPT !.touched = TRUE]]
    /\ RunsOnly

(* A going run can be cancelled too: it may be waiting for a decision.     *)
WorkCancelled(i) ==
    /\ runs[i].work \in {"queued", "going"}
    /\ Touch("cancel work", i, [runs[i] EXCEPT !.work = "cancelled", !.job = FALSE])

(* A retry enqueues a mission that has steps; one without is to be planned *)
(* again, and left for whoever does that.                                  *)
WorkRetried(i) ==
    /\ runs[i].work = "failed"
    /\ \E resumes \in BOOLEAN :
        Touch("retry work", i, [runs[i] EXCEPT !.work = "queued", !.job = @ \/ resumes])

Clock ==
    /\ now < MaxTime
    /\ now' = now + 1
    /\ UNCHANGED <<mission, runs, mayRun, tick, req, events>>

OwnerLosesAccess ==
    /\ mayRun
    /\ mayRun' = FALSE
    /\ Event
    /\ UNCHANGED <<mission, runs, now, tick, req>>

-----------------------------------------------------------------------------
TickStep(s) ==
    \/ BeginTick(s) \/ QueueStranded(s) \/ FindDue(s) \/ Consider(s)
    \/ Skip(s) \/ Stop(s) \/ StartScheduled(s) \/ QueueScheduled(s)

RequestStep(c) == StartManual(c) \/ QueueManual(c)

WorkStep(i) == WorkGoes(i) \/ WorkEnds(i) \/ WorkOver(i) \/ WorkCancelled(i) \/ WorkRetried(i)

Next ==
    \/ \E s \in Schedulers : TickStep(s) \/ CutTick(s)
    \/ \E c \in Requests : RunNow(c) \/ RequestStep(c) \/ CutRequest(c)
    \/ Pause \/ Resume \/ Cancel
    \/ \E i \in DOMAIN runs : WorkStep(i)
    \/ Clock \/ OwnerLosesAccess

Spec == Init /\ [][Next]_vars

(* Workers that are up tick on, requests under way go on, and time passes. *)
(* Neither people nor the missions the runs started have to do anything.   *)
Fairness ==
    /\ \A s \in Schedulers : WF_vars(TickStep(s))
    /\ \A c \in Requests : WF_vars(RequestStep(c))
    /\ WF_vars(Clock)

FairSpec == Spec /\ Fairness

-----------------------------------------------------------------------------
Instant == Nat \cup {None}

RunRow == [for: Nat, trigger: {"schedule", "manual"}, created: Nat, work: Statuses,
           job: BOOLEAN, touched: BOOLEAN, permitted: BOOLEAN]

TickRow == [pc: {"idle", "strand", "consider", "skip", "stop", "start", "queue"},
            at: Nat, due: Nat, from: Nat,
            reason: {None, "owner_access", "repeated_failures"}, run: Nat, left: SUBSET Nat]

(* Every variable has its type, and the instruction keeps the table's      *)
(* checks: a next occurrence exactly while it is active, a reason exactly  *)
(* while it is paused.                                                     *)
TypeOK ==
    /\ mission \in [status: {"active", "paused", "cancelled"}, next: Instant, from: Nat,
                    reason: {None, "person", "owner_access", "repeated_failures"}]
    /\ (mission.status = "active") = (mission.next # None)
    /\ (mission.status = "paused") = (mission.reason # None)
    /\ runs \in Seq(RunRow)
    /\ mayRun \in BOOLEAN
    /\ now \in Nat
    /\ tick \in [Schedulers -> TickRow]
    /\ req \in [Requests -> [pc: {"idle", "start", "queue"}, at: Nat, run: Nat]]
    /\ events \in Nat

Scheduled == {i \in DOMAIN runs : runs[i].trigger = "schedule"}
Unsettled == {i \in DOMAIN runs : runs[i].work \in {"queued", "going"}}

(* Every occurrence is run at most once, never early, and in order,        *)
(* however many workers look at it and however long each takes.            *)
OccurrencesInOrder ==
    \A i \in Scheduled :
        /\ runs[i].for <= runs[i].created
        /\ \A j \in Scheduled : j < i => runs[j].for < runs[i].for

(* The schedule never starts a run on top of one that is going, also when  *)
(* a tick read the runs long before: such a run is one a person cancelled  *)
(* or retried, or there is one asked for by hand from it on, which was     *)
(* started while the tick was.                                             *)
ScheduleRunsOneAtATime ==
    \A i \in Unsettled, j \in Unsettled \cap Scheduled :
        i < j => \/ runs[i].touched \/ runs[j].touched
                 \/ \E k \in i .. j - 1 : runs[k].trigger = "manual"

(* One run at a time, by hand or by schedule: no two runs that nobody      *)
(* retried are going at once.                                              *)
OneRunAtATime ==
    \A i, j \in Unsettled : i < j => runs[i].touched \/ runs[j].touched

(* A schedule does not outlive the permission it was created under: when   *)
(* the owner's access is lost, no more than the run already being started  *)
(* is still started.                                                       *)
AtMostOneAfterLoss == Cardinality({i \in Scheduled : ~runs[i].permitted}) <= 1

(* All this at every moment, over rows that have their types; and where no *)
(* run is asked for while a tick starts one, one run at a time altogether. *)
ScheduleIsKept ==
    /\ TypeOK
    /\ OccurrencesInOrder
    /\ ScheduleRunsOneAtATime
    /\ Races \/ OneRunAtATime
    /\ AtMostOneAfterLoss

AllFailed(from) ==
    /\ Len(runs) >= FailureLimit
    /\ \A i \in Len(runs) + 1 - FailureLimit .. Len(runs) :
          /\ runs[i].work = "failed" /\ runs[i].created >= from

(* A cancelled mission is finished with: it starts no more runs.  The      *)
(* schedule starts none while the mission is paused, and none on top of    *)
(* FailureLimit of its own runs that failed since it was last resumed.     *)
StartsOnlyWhenItMay ==
    [][/\ mission.status = "cancelled" =>
             mission'.status = "cancelled" /\ Len(runs') = Len(runs)
       /\ Len(runs') > Len(runs) /\ runs'[Len(runs')].trigger = "schedule" =>
             /\ mission.status # "paused"
             /\ \/ ~AllFailed(mission.from)
                \/ \E i \in Len(runs) + 1 - FailureLimit .. Len(runs) :
                      runs[i].trigger = "manual" \/ runs[i].touched]_<<mission, runs>>

(* A mission stops itself for failures only while its latest runs, counted *)
(* from when it was last resumed, all failed.                              *)
FailuresCountedAfresh ==
    [][mission.status = "active" /\ mission'.reason = "repeated_failures" =>
          AllFailed(mission.from)]_mission

(* An occurrence that is due is answered: a run is started, the occurrence *)
(* is skipped, or the mission no longer runs.                              *)
Due == mission.status = "active" /\ mission.next <= now

DueIsAnswered == []<>~Due

(* A run whose mission was written is put on the queue, although the tick  *)
(* or the request that started it was cut short.                           *)
NeverQueued == {i \in DOMAIN runs : /\ runs[i].created < MaxTime
                                    /\ runs[i].work = "queued" /\ ~runs[i].job}

StartedRunsAreQueued == []<>(NeverQueued = {})
=============================================================================
