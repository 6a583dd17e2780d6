----------------------- MODULE ContinuousMissionsProofs -----------------------
(***************************************************************************)
(* What ContinuousMissions keeps for any number of workers and requests    *)
(* and any schedule: its types, occurrences in order and run once, runs    *)
(* that do not overlap, at most one run without the owner's permission,    *)
(* and no run the instruction's status or failures forbid.                 *)
(*                                                                         *)
(* A tick decides on what it read and acts later.  That is sound because   *)
(* its run is started only while the occurrence it read is still the next  *)
(* one, and the next occurrence only ever moves on: StartsWell says what   *)
(* is still true then of everything the tick saw.                          *)
(***************************************************************************)
EXTENDS ContinuousMissions, Integers, SequenceTheorems, FiniteSetTheorems, WellFoundedInduction, TLAPS

Mission == [status: {"active", "paused", "cancelled"}, next: Instant, from: Nat,
            reason: {None, "person", "owner_access", "repeated_failures"}]

Request == [pc: {"idle", "start", "queue"}, at: Nat, run: Nat]

Late == {"consider", "skip", "stop", "start"}

Active == mission.status = "active"

(* Nothing happened before it could, and the next occurrence is after      *)
(* every one that was run.                                                 *)
RunInTime(r) == r.for <= r.created /\ r.created <= now

RunsInTime ==
    /\ mission.from <= now
    /\ \A i \in DOMAIN runs :
          /\ RunInTime(runs[i])
          /\ runs[i].work = "cancelled" => runs[i].touched
          /\ mayRun => runs[i].permitted
    /\ Active => \A i \in Scheduled : runs[i].for < mission.next

(* What a tick read is from the past, and what a request will ask for.     *)
TickInTime(t) ==
    /\ t.pc = "stop" => t.reason # None
    /\ t.pc = "strand" => t.left \subseteq DOMAIN runs
    /\ t.pc = "queue" => t.run \in DOMAIN runs
    /\ t.pc \in Late =>
          /\ t.due <= t.at /\ t.at <= now
          /\ t.from <= mission.from
          /\ Active => t.due <= mission.next

RequestInTime(r) ==
    /\ r.pc = "start" => r.at <= now
    /\ r.pc = "queue" => r.run \in DOMAIN runs

InTime ==
    /\ RunsInTime
    /\ \A s \in Schedulers : TickInTime(tick[s])
    /\ \A c \in Requests : RequestInTime(req[c])

(* A run that another may be started after.                                *)
Free(r) == IsSettled(r.work) \/ r.touched \/ (Races /\ r.trigger = "manual")

LatestFree == runs # <<>> => Free(runs[Len(runs)])

(* The run before one of the schedule's was free.                          *)
InTurn ==
    \A i \in DOMAIN runs :
        i < Len(runs) /\ (runs[i + 1].trigger = "schedule" \/ ~Races) => Free(runs[i])

(* Without races one tick or request at a time is about to start a run.    *)
NoRace ==
    ~Races =>
        /\ \A s \in Schedulers, c \in Requests : tick[s].pc \in Late => ~In(c, "start")
        /\ \A c, d \in Requests : In(c, "start") /\ In(d, "start") => c = d
        /\ \A c \in Requests : In(c, "start") => LatestFree

(* One of the latest FailureLimit runs is not a failure of the schedule's  *)
(* own since the mission was resumed, and will not become one.             *)
Window == Len(runs) + 1 - FailureLimit .. Len(runs)

Excused(r) ==
    r.trigger = "manual" \/ r.touched \/ r.work = "completed" \/ r.created < mission.from

NotFailing == Len(runs) < FailureLimit \/ \E i \in Window : Excused(runs[i])

(* No scheduled run was started since the owner lost access.               *)
NoneLost == \A i \in Scheduled : runs[i].permitted

OneLost == \A i, j \in Scheduled : ~runs[i].permitted /\ ~runs[j].permitted => i = j

(* A tick whose run would be started now.                                  *)
WouldStart(t) == t.pc = "start" /\ Active /\ mission.next = t.due

StartsWell ==
    \A s \in Schedulers : WouldStart(tick[s]) => LatestFree /\ NotFailing /\ NoneLost

IInv ==
    /\ TypeOK /\ InTime /\ OccurrencesInOrder
    /\ InTurn /\ NoRace /\ OneLost /\ StartsWell

-----------------------------------------------------------------------------
(* The schedule and the list of runs.                                      *)

(* The next occurrence is after the instant.                               *)
LEMMA NextIsAfter ==
    ASSUME NEW a \in Nat
    PROVE  NextOccurrence(a) \in Nat /\ NextOccurrence(a) > a
    <1>1. Period \in Nat \ {0}
        BY ContinuousAssumption
    <1> QED
        BY <1>1 DEF NextOccurrence

(* What an idle tick and an idle request are.                              *)
LEMMA IdleRows ==
    /\ NoTick \in TickRow /\ NoTick.pc = "idle"
    /\ NoRequest \in Request /\ NoRequest.pc = "idle"
    BY DEF NoTick, NoRequest, TickRow, Request

(* The places of the list are the numbers up to its length.                *)
LEMMA Places ==
    ASSUME runs \in Seq(RunRow)
    PROVE  /\ Len(runs) \in Nat /\ DOMAIN runs = 1 .. Len(runs)
           /\ runs = <<>> <=> Len(runs) = 0
           /\ \A i \in DOMAIN runs : runs[i] \in RunRow
    BY LenProperties, EmptySeq, ElementOfSeq

(* A run that is added is the latest, and the others stay where they are.  *)
LEMMA Added ==
    ASSUME runs \in Seq(RunRow), NEW row \in RunRow, runs' = Append(runs, row)
    PROVE  /\ runs' \in Seq(RunRow)
           /\ Len(runs') = Len(runs) + 1 /\ DOMAIN runs' = 1 .. Len(runs) + 1
           /\ \A i \in DOMAIN runs : i \in DOMAIN runs' /\ runs'[i] = runs[i]
           /\ runs'[Len(runs) + 1] = row
    <1>1. Len(runs) \in Nat /\ DOMAIN runs = 1 .. Len(runs)
        BY Places
    <1>2. /\ runs' \in Seq(RunRow) /\ Len(runs') = Len(runs) + 1
          /\ \A i \in 1 .. Len(runs) : runs'[i] = runs[i]
          /\ runs'[Len(runs) + 1] = row
        BY AppendProperties
    <1>3. DOMAIN runs' = 1 .. Len(runs')
        BY <1>2, LenProperties
    <1> QED
        BY <1>1, <1>2, <1>3

(* A run's row as it is when its mission or its job has moved.             *)
Later(r, new) ==
    /\ new \in RunRow
    /\ new.for = r.for /\ new.trigger = r.trigger
    /\ new.created = r.created /\ new.permitted = r.permitted
    /\ r.touched => new.touched
    /\ r.work = "completed" => new.work = "completed"
    /\ IsSettled(r.work) => IsSettled(new.work) \/ new.touched
    /\ new.work = "cancelled" => new.touched \/ r.work = "cancelled"

RunsMoveOn ==
    /\ runs' \in Seq(RunRow)
    /\ Len(runs') = Len(runs) /\ DOMAIN runs' = DOMAIN runs
    /\ \A i \in DOMAIN runs : Later(runs[i], runs'[i])

(* Nothing happens to a run that is left alone.                            *)
LEMMA StaysAsItIs ==
    ASSUME NEW r \in RunRow
    PROVE  Later(r, r)
    BY DEF Later

(* Writing one run's row leaves the others.                                *)
LEMMA OneRunMoves ==
    ASSUME runs \in Seq(RunRow), NEW i \in DOMAIN runs, NEW new,
           Later(runs[i], new), runs' = [runs EXCEPT ![i] = new]
    PROVE  RunsMoveOn
    <1>1. new \in RunRow
        BY DEF Later
    <1>2. DOMAIN runs = 1 .. Len(runs) /\ \A j \in DOMAIN runs : runs[j] \in RunRow
        BY Places
    <1>3. runs' \in Seq(RunRow) /\ Len(runs') = Len(runs) /\ DOMAIN runs' = DOMAIN runs
        BY <1>1, <1>2, ExceptSeq, LenProperties
    <1>4. \A j \in DOMAIN runs : runs'[j] = IF j = i THEN new ELSE runs[j]
        OBVIOUS
    <1> QED
        BY <1>2, <1>3, <1>4, StaysAsItIs DEF RunsMoveOn

LEMMA NoRunMoves ==
    ASSUME runs \in Seq(RunRow), runs' = runs
    PROVE  RunsMoveOn
    BY Places, StaysAsItIs DEF RunsMoveOn

-----------------------------------------------------------------------------
(* What a step can be: a tick that thinks, rows written, the instruction   *)
(* written, a run started, a request made, or time and access that pass.   *)

(* A tick that has nothing of the instruction in hand, and such a request. *)
TickRests(t) ==
    \/ t.pc = "idle"
    \/ t.pc = "strand" /\ t.left \subseteq DOMAIN runs'
    \/ t.pc = "queue" /\ t.run \in DOMAIN runs'

RequestRests(r) ==
    \/ r.pc = "idle"
    \/ r.pc = "queue" /\ r.run \in DOMAIN runs'

TicksRest ==
    /\ tick' \in [Schedulers -> TickRow]
    /\ \A s \in Schedulers : tick'[s] = tick[s] \/ TickRests(tick'[s])

RequestsRest ==
    /\ req' \in [Requests -> Request]
    /\ \A c \in Requests : req'[c] = req[c] \/ RequestRests(req'[c])

(* The tick has found the occurrence due.                                  *)
Found(t) ==
    /\ t.pc = "consider"
    /\ t.at = now /\ t.due = mission.next /\ t.from = mission.from
    /\ Active /\ mission.next <= now
    /\ Races \/ \A c \in Requests : ~In(c, "start")

(* The tick has looked at the owner and the runs.                          *)
Decided(old, t) ==
    /\ old.pc = "consider" /\ t.pc \in {"skip", "stop", "start"}
    /\ t.at = old.at /\ t.due = old.due /\ t.from = old.from
    /\ t.pc = "stop" => t.reason # None
    /\ t.pc = "start" => mayRun /\ ~LatestGoing /\ ~FailingRepeatedly(old.from)

Thinks ==
    /\ UNCHANGED <<mission, runs, mayRun, now, req>>
    /\ tick' \in [Schedulers -> TickRow]
    /\ \A s \in Schedulers :
          \/ tick'[s] = tick[s] \/ TickRests(tick'[s])
          \/ Found(tick'[s]) \/ Decided(tick[s], tick'[s])

WritesRows ==
    /\ UNCHANGED <<mission, mayRun, now>>
    /\ RunsMoveOn /\ TicksRest /\ RequestsRest

WritesMission ==
    /\ UNCHANGED <<runs, mayRun, now, req>>
    /\ TicksRest
    /\ mission' \in Mission
    /\ \/ mission' = mission
       \/ /\ mission'.status # "active" /\ mission'.next = None
          /\ mission.status # "cancelled"
          /\ mission'.status = "paused" <=> mission'.reason # None
          /\ mission'.from = mission.from
       \/ /\ mission' = [status |-> "active", reason |-> None,
                         next |-> NextOccurrence(now), from |-> now]
          /\ mission.status = "paused"
       \/ /\ mission' = [mission EXCEPT !.next = mission'.next]
          /\ Active /\ mission'.next \in Nat /\ mission'.next > mission.next

(* A run is added by the tick whose occurrence it is, or by a request.     *)
AddsRun(row) ==
    /\ row \in RunRow /\ runs' = Append(runs, row)
    /\ row.work = "queued" /\ ~row.touched /\ row.permitted = mayRun
    /\ row.for <= row.created /\ row.created <= now

StartsScheduled(s, row) ==
    /\ row.trigger = "schedule" /\ row.for = mission.next
    /\ WouldStart(tick[s])
    /\ tick'[s].pc = "queue"
    /\ \A z \in Schedulers \ {s} : tick'[z] = tick[z]
    /\ mission' = [mission EXCEPT !.next = mission'.next]
    /\ mission'.next \in Nat /\ mission'.next > row.for
    /\ req' = req

StartsManual(c, row) ==
    /\ row.trigger = "manual"
    /\ mission.status # "cancelled" /\ mission' = mission
    /\ In(c, "start") /\ req'[c].pc = "queue"
    /\ \A d \in Requests \ {c} : req'[d] = req[d]
    /\ tick' = tick

Starts ==
    /\ UNCHANGED <<mayRun, now>>
    /\ TicksRest /\ RequestsRest
    /\ \E row \in RunRow :
          /\ AddsRun(row)
          /\ \/ \E s \in Schedulers : StartsScheduled(s, row)
             \/ \E c \in Requests : StartsManual(c, row)

(* A request is about to start a run now.                                  *)
Asks(r) ==
    /\ r.pc = "start" /\ r.at = now
    /\ ~LatestGoing
    /\ \/ Races
       \/ /\ \A s \in Schedulers : tick[s].pc \notin Late
          /\ \A d \in Requests : ~In(d, "start")

Requested ==
    /\ UNCHANGED <<mission, runs, mayRun, now, tick>>
    /\ req' \in [Requests -> Request]
    /\ \E c \in Requests :
          /\ \A d \in Requests \ {c} : req'[d] = req[d]
          /\ RequestRests(req'[c]) \/ Asks(req'[c])

Passes ==
    /\ UNCHANGED <<mission, runs, tick, req>>
    /\ now' \in {now, now + 1}
    /\ mayRun' \in BOOLEAN /\ (mayRun' => mayRun)

Kinds ==
    /\ events' \in Nat
    /\ Thinks \/ WritesRows \/ WritesMission \/ Starts \/ Requested \/ Passes

LEMMA Parts ==
    ASSUME TypeOK
    PROVE  /\ mission \in Mission /\ runs \in Seq(RunRow) /\ mayRun \in BOOLEAN /\ now \in Nat
           /\ tick \in [Schedulers -> TickRow] /\ req \in [Requests -> Request]
           /\ events \in Nat /\ MaxEvents \in Nat
    BY ContinuousAssumption DEF TypeOK, Mission, Request

LEMMA Counted ==
    ASSUME TypeOK
    PROVE  /\ Event => events' \in Nat
           /\ \A op : Asked(op) => events' \in Nat
    BY Parts DEF Event, Asked

(* Writing one tick leaves the others.                                     *)
LEMMA OneTick ==
    ASSUME TypeOK, NEW s \in Schedulers, NEW t \in TickRow, tick' = [tick EXCEPT ![s] = t]
    PROVE  /\ tick' \in [Schedulers -> TickRow] /\ tick'[s] = t
           /\ \A z \in Schedulers \ {s} : tick'[z] = tick[z]
    BY Parts

LEMMA OneRequest ==
    ASSUME TypeOK, NEW c \in Requests, NEW r \in Request, req' = [req EXCEPT ![c] = r]
    PROVE  /\ req' \in [Requests -> Request] /\ req'[c] = r
           /\ \A d \in Requests \ {c} : req'[d] = req[d]
    BY Parts

(* Ending a tick or a request leaves it at rest.                           *)
LEMMA EndsAtRest ==
    ASSUME TypeOK
    PROVE  /\ \A s \in Schedulers : EndTick(s) => TicksRest /\ tick'[s] = NoTick
           /\ \A c \in Requests : Answer(c) =>
                 /\ RequestsRest /\ RequestRests(req'[c])
                 /\ \A d \in Requests \ {c} : req'[d] = req[d]
    <1>1. ASSUME NEW s \in Schedulers, EndTick(s)
          PROVE  TicksRest /\ tick'[s] = NoTick
        BY <1>1, OneTick, IdleRows DEF EndTick, TicksRest, TickRests
    <1>2. ASSUME NEW c \in Requests, Answer(c)
          PROVE  /\ RequestsRest /\ RequestRests(req'[c])
                 /\ \A d \in Requests \ {c} : req'[d] = req[d]
        <2>1. /\ req' \in [Requests -> Request] /\ req'[c] = NoRequest
              /\ \A d \in Requests \ {c} : req'[d] = req[d]
            BY <1>2, OneRequest, IdleRows DEF Answer
        <2> QED
            BY <2>1, IdleRows DEF RequestsRest, RequestRests
    <1> QED
        BY <1>1, <1>2

LEMMA AllRest ==
    ASSUME TypeOK
    PROVE  /\ tick' = tick => TicksRest
           /\ req' = req => RequestsRest
    BY Parts DEF TicksRest, RequestsRest

-----------------------------------------------------------------------------
(* Every action is of one of these kinds.                                  *)

LEMMA TicksThink ==
    ASSUME TypeOK, InTime, NEW s \in Schedulers,
           BeginTick(s) \/ FindDue(s) \/ Consider(s) \/ CutTick(s)
    PROVE  Kinds
    <1> DEFINE t == tick'[s]
    <1>1. \A x \in TickRow : tick' = [tick EXCEPT ![s] = x] =>
             /\ tick' \in [Schedulers -> TickRow] /\ t = x
             /\ \A z \in Schedulers \ {s} : tick'[z] = tick[z]
        BY OneTick
    <1>2. tick[s] \in TickRow /\ now \in Nat /\ mission \in Mission
        BY Parts
    <1>3. ASSUME UNCHANGED <<mission, runs, mayRun, now, req>>, events' \in Nat,
                 tick' \in [Schedulers -> TickRow],
                 \A z \in Schedulers \ {s} : tick'[z] = tick[z],
                 TickRests(t) \/ Found(t) \/ Decided(tick[s], t)
          PROVE  Kinds
        BY <1>3 DEF Kinds, Thinks
    <1>4. CASE BeginTick(s)
        <2> DEFINE x == [NoTick EXCEPT !.pc = "strand", !.left = AwaitingQueue]
        <2>1. AwaitingQueue \subseteq DOMAIN runs /\ DOMAIN runs \subseteq Nat
            BY Parts, Places DEF AwaitingQueue
        <2>2. x \in TickRow /\ x.pc = "strand" /\ x.left = AwaitingQueue
            BY <2>1, IdleRows DEF TickRow
        <2> HIDE DEF x
        <2>3. tick' = [tick EXCEPT ![s] = x] /\ TickOnly
            BY <1>4 DEF BeginTick, x
        <2>4. TickRests(t)
            BY <2>1, <2>2, <2>3, <1>1 DEF TickRests, TickOnly
        <2> QED
            BY <2>2, <2>3, <2>4, <1>1, <1>3, Parts DEF TickOnly
    <1>5. CASE FindDue(s)
        <2>1. TickOnly
            BY <1>5 DEF FindDue
        <2>2. CASE Active /\ mission.next <= now
            <3> DEFINE x == [NoTick EXCEPT !.pc = "consider", !.at = now, !.due = mission.next,
                                           !.from = mission.from]
            <3>1. mission.next \in Nat /\ mission.from \in Nat
                BY <2>2 DEF TypeOK, Active, Instant
            <3>2. /\ x \in TickRow /\ x.pc = "consider" /\ x.at = now
                  /\ x.due = mission.next /\ x.from = mission.from
                BY <3>1, <1>2, IdleRows DEF TickRow
            <3> HIDE DEF x
            <3>3. tick' = [tick EXCEPT ![s] = x]
                BY <1>5, <2>2 DEF FindDue, x, Active
            <3>4. Found(t)
                BY <3>2, <3>3, <1>1, <2>2, <1>5 DEF Found, FindDue
            <3> QED
                BY <3>2, <3>3, <3>4, <1>1, <1>3, <2>1, Parts DEF TickOnly
        <2>3. CASE ~(Active /\ mission.next <= now)
            <3>1. tick' = [tick EXCEPT ![s] = NoTick]
                BY <1>5, <2>3 DEF FindDue, EndTick, Active
            <3> QED
                BY <3>1, <1>1, <1>3, <2>1, IdleRows, Parts DEF TickOnly, TickRests
        <2> QED
            BY <2>2, <2>3
    <1>6. CASE Consider(s)
        <2>1. /\ At(s, "consider") /\ TickOnly
              /\ \/ ~mayRun /\ Stops(s, "owner_access")
                 \/ Goto(s, "skip")
                 \/ Stops(s, "repeated_failures")
                 \/ mayRun /\ ~LatestGoing /\ ~FailingRepeatedly(tick[s].from) /\ Goto(s, "start")
            BY <1>6, Parts DEF Consider, OwnerMayStillRun
        <2>2. ASSUME NEW p \in {"skip", "start"}, Goto(s, p)
              PROVE  /\ tick' \in [Schedulers -> TickRow] /\ t.pc = p
                     /\ t.at = tick[s].at /\ t.due = tick[s].due /\ t.from = tick[s].from
                     /\ \A z \in Schedulers \ {s} : tick'[z] = tick[z]
            <3> DEFINE x == [tick[s] EXCEPT !.pc = p]
            <3>1. /\ x \in TickRow /\ x.pc = p
                  /\ x.at = tick[s].at /\ x.due = tick[s].due /\ x.from = tick[s].from
                BY <1>2 DEF TickRow
            <3>2. tick' = [tick EXCEPT ![s] = x]
                BY <2>2 DEF Goto
            <3> HIDE DEF x
            <3> QED
                BY <3>1, <3>2, <1>1
        <2>3. ASSUME NEW r \in {"owner_access", "repeated_failures"}, Stops(s, r)
              PROVE  /\ tick' \in [Schedulers -> TickRow] /\ t.pc = "stop" /\ t.reason = r
                     /\ t.at = tick[s].at /\ t.due = tick[s].due /\ t.from = tick[s].from
                     /\ \A z \in Schedulers \ {s} : tick'[z] = tick[z]
            <3> DEFINE x == [[tick[s] EXCEPT !.pc = "stop"] EXCEPT !.reason = r]
            <3>1. /\ x \in TickRow /\ x.pc = "stop" /\ x.reason = r
                  /\ x.at = tick[s].at /\ x.due = tick[s].due /\ x.from = tick[s].from
                BY <1>2 DEF TickRow
            <3>2. tick' = [tick EXCEPT ![s] = x]
                BY <2>3, Parts DEF Stops
            <3> HIDE DEF x
            <3> QED
                BY <3>1, <3>2, <1>1
        <2>4. CASE Goto(s, "skip")
            BY <2>1, <2>2, <2>4, <1>3, Parts DEF TickOnly, Decided, At
        <2>5. CASE Stops(s, "owner_access") \/ Stops(s, "repeated_failures")
            BY <2>1, <2>3, <2>5, <1>3, Parts, ContinuousAssumption DEF TickOnly, Decided, At
        <2>6. CASE /\ mayRun /\ ~LatestGoing /\ ~FailingRepeatedly(tick[s].from)
                   /\ Goto(s, "start")
            BY <2>1, <2>2, <2>6, <1>3, Parts DEF TickOnly, Decided, At
        <2> QED
            BY <2>1, <2>4, <2>5, <2>6
    <1>7. CASE CutTick(s)
        <2>1. tick' = [tick EXCEPT ![s] = NoTick] /\ UNCHANGED <<mission, runs, mayRun, now, req>>
            BY <1>7 DEF CutTick, EndTick
        <2>2. events' \in Nat
            BY <1>7, Counted DEF CutTick
        <2> QED
            BY <2>1, <2>2, <1>1, <1>3, IdleRows DEF TickRests
    <1> QED
        BY <1>4, <1>5, <1>6, <1>7

(* Enqueueing a run leaves everything about it but the job.                *)
LEMMA Enqueued ==
    ASSUME TypeOK, NEW i \in DOMAIN runs, Enqueue(i)
    PROVE  RunsMoveOn
    <1> DEFINE new == [runs[i] EXCEPT !.job = TRUE]
    <1>1. runs \in Seq(RunRow) /\ runs[i] \in RunRow
        BY Parts, Places
    <1>2. Later(runs[i], new)
        BY <1>1 DEF Later, RunRow
    <1>3. runs' = [runs EXCEPT ![i] = new]
        BY DEF Enqueue
    <1> HIDE DEF new
    <1> QED
        BY <1>1, <1>2, <1>3, OneRunMoves

LEMMA TickQueues ==
    ASSUME TypeOK, InTime, NEW s \in Schedulers, QueueStranded(s) \/ QueueScheduled(s)
    PROVE  Kinds
    <1>1. ASSUME RunsMoveOn, TicksRest, UNCHANGED <<mission, mayRun, now, req, events>>
          PROVE  Kinds
        BY <1>1, AllRest, Parts DEF Kinds, WritesRows
    <1>2. tick[s] \in TickRow /\ TickInTime(tick[s])
        BY Parts DEF InTime
    <1>3. CASE QueueStranded(s)
        <2>1. PICK i \in tick[s].left : /\ Enqueue(i)
                                        /\ tick' = [tick EXCEPT ![s].left = @ \ {i}]
            BY <1>3 DEF QueueStranded
        <2>2. tick[s].pc = "strand" /\ tick[s].left \subseteq DOMAIN runs
            BY <1>2, <1>3 DEF QueueStranded, At, TickInTime
        <2>3. RunsMoveOn
            BY <2>1, <2>2, Enqueued
        <2> DEFINE x == [tick[s] EXCEPT !.left = tick[s].left \ {i}]
        <2>4. x \in TickRow /\ x.pc = "strand" /\ x.left \subseteq DOMAIN runs
            BY <1>2, <2>2 DEF TickRow
        <2>5. tick' = [tick EXCEPT ![s] = x]
            BY <2>1, Parts
        <2> HIDE DEF x
        <2>6. /\ tick' \in [Schedulers -> TickRow] /\ tick'[s] = x
              /\ \A z \in Schedulers \ {s} : tick'[z] = tick[z]
            BY <2>4, <2>5, OneTick
        <2>7. DOMAIN runs' = DOMAIN runs
            BY <2>3 DEF RunsMoveOn
        <2>8. TickRests(tick'[s])
            BY <2>4, <2>6, <2>7 DEF TickRests
        <2>9. TicksRest
            BY <2>6, <2>8 DEF TicksRest
        <2> QED
            BY <2>3, <2>9, <1>1, <1>3 DEF QueueStranded, TickAndRows
    <1>4. CASE QueueScheduled(s)
        <2>1. tick[s].run \in DOMAIN runs /\ Enqueue(tick[s].run) /\ EndTick(s)
            BY <1>2, <1>4 DEF QueueScheduled, At, TickInTime
        <2> QED
            BY <2>1, Enqueued, EndsAtRest, <1>1, <1>4 DEF QueueScheduled, TickAndRows
    <1> QED
        BY <1>3, <1>4

LEMMA RequestQueues ==
    ASSUME TypeOK, InTime, NEW c \in Requests, QueueManual(c)
    PROVE  Kinds
    <1>1. req[c].run \in DOMAIN runs /\ Enqueue(req[c].run) /\ Answer(c)
        BY DEF QueueManual, In, InTime, RequestInTime
    <1>2. UNCHANGED <<mission, mayRun, now, tick, events>>
        BY DEF QueueManual, RequestAndRows
    <1> QED
        BY <1>1, <1>2, Enqueued, EndsAtRest, AllRest, Parts DEF Kinds, WritesRows

LEMMA WorkMoves ==
    ASSUME TypeOK, NEW i \in DOMAIN runs, WorkStep(i)
    PROVE  Kinds
    <1>1. runs \in Seq(RunRow) /\ runs[i] \in RunRow
        BY Parts, Places
    <1>2. ASSUME NEW new, Later(runs[i], new), runs' = [runs EXCEPT ![i] = new],
                 RunsOnly, events' \in Nat
          PROVE  Kinds
        <2>1. RunsMoveOn
            BY <1>1, <1>2, OneRunMoves
        <2> QED
            BY <2>1, <1>2, AllRest DEF Kinds, WritesRows, RunsOnly
    <1>3. CASE WorkGoes(i)
        <2> DEFINE new == [runs[i] EXCEPT !.work = "going"]
        <2>1. Later(runs[i], new)
            BY <1>1, <1>3 DEF Later, RunRow, WorkGoes, IsSettled, Statuses
        <2>2. runs' = [runs EXCEPT ![i] = new] /\ RunsOnly /\ events' \in Nat
            BY <1>3, Parts DEF WorkGoes
        <2> HIDE DEF new
        <2> QED
            BY <2>1, <2>2, <1>2
    <1>4. CASE WorkEnds(i)
        <2>1. PICK status \in {"completed", "failed"} :
                 runs' = [runs EXCEPT ![i].work = status, ![i].job = FALSE]
            BY <1>4 DEF WorkEnds
        <2> DEFINE new == [[runs[i] EXCEPT !.work = status] EXCEPT !.job = FALSE]
        <2>2. Later(runs[i], new)
            BY <1>1, <1>4 DEF Later, RunRow, WorkEnds, IsSettled, Statuses
        <2>3. runs' = [runs EXCEPT ![i] = new] /\ RunsOnly /\ events' \in Nat
            BY <2>1, <1>1, <1>4, Parts, Places DEF WorkEnds
        <2> HIDE DEF new
        <2> QED
            BY <2>2, <2>3, <1>2
    <1>5. CASE WorkOver(i)
        <2> DEFINE work == IF runs[i].work = "cancelled" THEN "failed" ELSE runs[i].work
                   new == [[runs[i] EXCEPT !.job = FALSE] EXCEPT !.work = work]
        <2>1. Later(runs[i], new)
            BY <1>1, <1>5 DEF Later, RunRow, WorkOver, IsSettled, Statuses
        <2>2. runs' = [runs EXCEPT ![i] = new] /\ RunsOnly /\ events' \in Nat
            BY <1>1, <1>5, Parts, Places DEF WorkOver
        <2> HIDE DEF new
        <2> QED
            BY <2>1, <2>2, <1>2
    <1>6. CASE WorkCancelled(i)
        <2> DEFINE old == [[runs[i] EXCEPT !.work = "cancelled"] EXCEPT !.job = FALSE]
                   new == [old EXCEPT !.touched = TRUE]
        <2>1. Later(runs[i], new)
            BY <1>1, <1>6 DEF Later, RunRow, WorkCancelled, IsSettled, Statuses
        <2>2. runs' = [runs EXCEPT ![i] = new] /\ RunsOnly /\ events' \in Nat
            BY <1>6, Counted DEF WorkCancelled, Touch
        <2> HIDE DEF new
        <2> QED
            BY <2>1, <2>2, <1>2
    <1>7. CASE WorkRetried(i)
        <2>0. PICK resumes \in BOOLEAN :
                Touch("retry work", i, [runs[i] EXCEPT !.work = "queued", !.job = @ \/ resumes])
            BY <1>7 DEF WorkRetried
        <2> DEFINE old == [runs[i] EXCEPT !.work = "queued", !.job = @ \/ resumes]
                   new == [old EXCEPT !.touched = TRUE]
        <2>1. Later(runs[i], new)
            BY <1>1, <1>7, <2>0 DEF Later, RunRow, WorkRetried, IsSettled, Statuses
        <2>2. runs' = [runs EXCEPT ![i] = new] /\ RunsOnly /\ events' \in Nat
            BY <2>0, Counted DEF Touch
        <2> HIDE DEF new
        <2> QED
            BY <2>1, <2>2, <1>2
    <1> QED
        BY <1>3, <1>4, <1>5, <1>6, <1>7 DEF WorkStep

(* What an instruction's row has.                                          *)
LEMMA MissionParts ==
    ASSUME TypeOK
    PROVE  /\ mission.status \in {"active", "paused", "cancelled"}
           /\ mission.from \in Nat
           /\ Active => mission.next \in Nat
           /\ ~Active => mission.next = None
           /\ mission = [status |-> mission.status, next |-> mission.next,
                         from |-> mission.from, reason |-> mission.reason]
    BY DEF TypeOK, Active, Instant

(* A transition that stops the schedule, and the one that takes it up.     *)
LEMMA Transitions ==
    ASSUME TypeOK, UNCHANGED <<runs, mayRun, now, req>>, TicksRest, events' \in Nat,
           \/ \E r \in {"person", "owner_access", "repeated_failures"} :
                 Transition({"active"}, "paused", r, None, mission.from)
           \/ Transition({"active", "paused"}, "cancelled", None, None, mission.from)
           \/ Transition({"paused"}, "active", None, NextOccurrence(now), now)
    PROVE  Kinds
    <1>1. mission \in Mission /\ mission.from \in Nat /\ now \in Nat
        BY Parts, MissionParts
    <1>2. ASSUME mission' \in Mission,
                 \/ mission' = mission
                 \/ /\ mission'.status # "active" /\ mission'.next = None
                    /\ mission.status # "cancelled"
                    /\ mission'.status = "paused" <=> mission'.reason # None
                    /\ mission'.from = mission.from
                 \/ /\ mission' = [status |-> "active", reason |-> None,
                                   next |-> NextOccurrence(now), from |-> now]
                    /\ mission.status = "paused"
          PROVE  Kinds
        BY <1>2 DEF Kinds, WritesMission
    <1>3. CASE mission' = mission
        BY <1>1, <1>2, <1>3
    <1>4. CASE mission' # mission
        <2>1. CASE \E r \in {"person", "owner_access", "repeated_failures"} :
                      Transition({"active"}, "paused", r, None, mission.from)
            <3>1. PICK r \in {"person", "owner_access", "repeated_failures"} :
                     /\ mission' = [status |-> "paused", reason |-> r, next |-> None,
                                    from |-> mission.from]
                     /\ mission.status = "active"
                BY <1>4, <2>1 DEF Transition
            <3>2. r # None
                BY ContinuousAssumption
            <3> QED
                BY <1>1, <1>2, <3>1, <3>2 DEF Mission, Instant
        <2>2. CASE Transition({"active", "paused"}, "cancelled", None, None, mission.from)
            <3>1. /\ mission' = [status |-> "cancelled", reason |-> None, next |-> None,
                                 from |-> mission.from]
                  /\ mission.status \in {"active", "paused"}
                BY <1>4, <2>2 DEF Transition
            <3> QED
                BY <1>1, <1>2, <3>1 DEF Mission, Instant
        <2>3. CASE Transition({"paused"}, "active", None, NextOccurrence(now), now)
            <3>1. /\ mission' = [status |-> "active", reason |-> None,
                                 next |-> NextOccurrence(now), from |-> now]
                  /\ mission.status = "paused"
                BY <1>4, <2>3 DEF Transition
            <3>2. mission' \in Mission
                BY <1>1, <3>1, NextIsAfter DEF Mission, Instant
            <3> QED
                BY <1>2, <3>1, <3>2
        <2> QED
            BY <2>1, <2>2, <2>3
    <1> QED
        BY <1>3, <1>4

LEMMA PeopleWrite ==
    ASSUME TypeOK, Pause \/ Resume \/ Cancel
    PROVE  Kinds
    <1>1. UNCHANGED <<runs, mayRun, now, req>> /\ TicksRest /\ events' \in Nat
        BY AllRest, Counted DEF Pause, Resume, Cancel, Change
    <1> QED
        BY <1>1, Transitions DEF Pause, Resume, Cancel

LEMMA TickWrites ==
    ASSUME TypeOK, InTime, NEW s \in Schedulers, Skip(s) \/ Stop(s)
    PROVE  Kinds
    <1>1. UNCHANGED <<runs, mayRun, now, req>> /\ TicksRest /\ events' \in Nat
        BY EndsAtRest, Parts DEF Skip, Stop, TickAndRows
    <1>2. tick[s] \in TickRow /\ TickInTime(tick[s])
        BY Parts DEF InTime
    <1>3. CASE Stop(s)
        <2>1. tick[s].reason \in {"person", "owner_access", "repeated_failures"}
            BY <1>2, <1>3 DEF Stop, At, TickInTime, TickRow
        <2> QED
            BY <1>1, <1>3, <2>1, Transitions DEF Stop
    <1>4. CASE Skip(s)
        <2>1. CASE Active /\ mission.next = tick[s].due
            <3>1. mission' = [mission EXCEPT !.next = NextOccurrence(tick[s].at)]
                BY <1>4, <2>1 DEF Skip, Active
            <3>2. /\ tick[s].due <= tick[s].at /\ tick[s].at \in Nat /\ tick[s].due \in Nat
                BY <1>2, <1>4 DEF Skip, At, TickInTime, TickRow, Late
            <3>3. /\ NextOccurrence(tick[s].at) \in Nat
                  /\ NextOccurrence(tick[s].at) > mission.next
                BY <2>1, <3>2, NextIsAfter
            <3>4. mission' \in Mission /\ mission'.next = NextOccurrence(tick[s].at)
                BY <3>1, <3>3, Parts DEF Mission, Instant
            <3> QED
                BY <1>1, <2>1, <3>1, <3>3, <3>4 DEF Kinds, WritesMission
        <2>2. CASE ~(Active /\ mission.next = tick[s].due)
            BY <1>1, <1>4, <2>2, Parts DEF Skip, Active, Kinds, WritesMission
        <2> QED
            BY <2>1, <2>2
    <1> QED
        BY <1>3, <1>4

(* The run that a start adds.                                              *)
LEMMA NewRun ==
    ASSUME TypeOK, NEW trigger \in {"schedule", "manual"}, NEW due \in Nat, NEW at \in Nat,
           due <= at, at <= now, StartRun(trigger, due, at)
    PROVE  \E row \in RunRow : AddsRun(row) /\ row.trigger = trigger /\ row.for = due
                               /\ row.created = at
    <1> DEFINE row == [for |-> due, trigger |-> trigger, created |-> at, work |-> "queued",
                       job |-> FALSE, touched |-> FALSE, permitted |-> mayRun]
    <1>1. /\ row \in RunRow /\ row.for = due /\ row.trigger = trigger /\ row.created = at
          /\ row.work = "queued" /\ ~row.touched /\ row.permitted = mayRun
        BY Parts DEF RunRow, Statuses
    <1>2. runs' = Append(runs, row)
        BY DEF StartRun
    <1> HIDE DEF row
    <1>3. AddsRun(row)
        BY <1>1, <1>2 DEF AddsRun
    <1> QED
        BY <1>1, <1>3

LEMMA TickStarts ==
    ASSUME TypeOK, InTime, NEW s \in Schedulers, StartScheduled(s)
    PROVE  Kinds
    <1> DEFINE due == tick[s].due
               at == tick[s].at
    <1>1. tick[s] \in TickRow /\ TickInTime(tick[s]) /\ tick[s].pc = "start"
        BY Parts DEF InTime, StartScheduled, At
    <1>2. due \in Nat /\ at \in Nat /\ due <= at /\ at <= now
        BY <1>1 DEF TickInTime, TickRow, Late
    <1>3. UNCHANGED <<mayRun, now, req, events>> /\ RequestsRest
        BY AllRest DEF StartScheduled, TickAndRows
    <1>4. CASE Admits("schedule", due, at)
        <2>1. /\ StartRun("schedule", due, at)
              /\ tick' = [tick EXCEPT ![s] = [NoTick EXCEPT !.pc = "queue", !.run = Len(runs) + 1]]
            BY <1>4 DEF StartScheduled
        <2>2. PICK row \in RunRow : AddsRun(row) /\ row.trigger = "schedule" /\ row.for = due
                                    /\ row.created = at
            BY <1>2, <2>1, NewRun
        <2>3. Active /\ mission.next = due
            BY <1>4 DEF Admits, Active
        <2>4. /\ mission' = [mission EXCEPT !.next = NextOccurrence(at)]
              /\ NextOccurrence(at) \in Nat /\ NextOccurrence(at) > due
            BY <1>2, <2>1, NextIsAfter DEF StartRun
        <2>5. mission'.next = NextOccurrence(at)
            BY <2>4, Parts DEF Mission
        <2>6. Len(runs) + 1 \in DOMAIN runs' /\ Len(runs) + 1 \in Nat
            BY <2>2, Parts, Places, Added DEF AddsRun
        <2> DEFINE x == [NoTick EXCEPT !.pc = "queue", !.run = Len(runs) + 1]
        <2>7. x \in TickRow /\ x.pc = "queue" /\ x.run = Len(runs) + 1
            BY <2>6, IdleRows DEF TickRow
        <2>8. tick' = [tick EXCEPT ![s] = x]
            BY <2>1
        <2> HIDE DEF x
        <2>9. /\ tick' \in [Schedulers -> TickRow] /\ tick'[s] = x
              /\ \A z \in Schedulers \ {s} : tick'[z] = tick[z]
            BY <2>7, <2>8, OneTick
        <2>10. TicksRest
            BY <2>6, <2>7, <2>9 DEF TicksRest, TickRests
        <2>11. StartsScheduled(s, row)
            BY <1>1, <1>3, <2>2, <2>3, <2>4, <2>5, <2>7, <2>9 DEF StartsScheduled, WouldStart
        <2> QED
            BY <1>3, <2>2, <2>10, <2>11, Parts DEF Kinds, Starts
    <1>5. CASE ~Admits("schedule", due, at)
        <2>1. EndTick(s) /\ UNCHANGED <<mission, runs>>
            BY <1>5 DEF StartScheduled
        <2>2. TicksRest
            BY <2>1, EndsAtRest
        <2> QED
            BY <1>3, <2>1, <2>2, Parts DEF Kinds, WritesMission
    <1> QED
        BY <1>4, <1>5

LEMMA RequestStarts ==
    ASSUME TypeOK, InTime, NEW c \in Requests, StartManual(c)
    PROVE  Kinds
    <1> DEFINE at == req[c].at
    <1>1. /\ req[c] \in Request /\ RequestInTime(req[c]) /\ req[c].pc = "start"
          /\ UNCHANGED <<mayRun, now, tick, events>> /\ TicksRest
        BY Parts, AllRest DEF InTime, StartManual, In, RequestAndRows
    <1>2. at \in Nat /\ at <= now
        BY <1>1 DEF RequestInTime, Request
    <1>3. CASE Admits("manual", at, at)
        <2>1. /\ StartRun("manual", at, at)
              /\ req' = [req EXCEPT ![c].pc = "queue", ![c].run = Len(runs) + 1]
            BY <1>3 DEF StartManual
        <2>2. PICK row \in RunRow : AddsRun(row) /\ row.trigger = "manual"
            BY <1>2, <2>1, NewRun
        <2>3. mission.status # "cancelled"
            BY <1>3 DEF Admits
        <2>4. mission' = mission
            BY <2>1, MissionParts DEF StartRun
        <2>5. Len(runs) + 1 \in DOMAIN runs' /\ Len(runs) + 1 \in Nat
            BY <2>2, Parts, Places, Added DEF AddsRun
        <2> DEFINE x == [[req[c] EXCEPT !.pc = "queue"] EXCEPT !.run = Len(runs) + 1]
        <2>6. x \in Request /\ x.pc = "queue" /\ x.run = Len(runs) + 1
            BY <1>1, <2>5 DEF Request
        <2>7. req' = [req EXCEPT ![c] = x]
            BY <2>1, Parts
        <2> HIDE DEF x
        <2>8. /\ req' \in [Requests -> Request] /\ req'[c] = x
              /\ \A d \in Requests \ {c} : req'[d] = req[d]
            BY <2>6, <2>7, OneRequest
        <2>9. RequestsRest
            BY <2>5, <2>6, <2>8 DEF RequestsRest, RequestRests
        <2>10. StartsManual(c, row)
            BY <1>1, <2>2, <2>3, <2>4, <2>6, <2>8 DEF StartsManual, In
        <2> QED
            BY <1>1, <2>2, <2>9, <2>10, Parts DEF Kinds, Starts
    <1>4. CASE ~Admits("manual", at, at)
        <2>1. Answer(c) /\ UNCHANGED <<mission, runs>>
            BY <1>4 DEF StartManual
        <2>2. /\ req' \in [Requests -> Request] /\ RequestRests(req'[c])
              /\ \A d \in Requests \ {c} : req'[d] = req[d]
            BY <2>1, EndsAtRest DEF RequestsRest
        <2> QED
            BY <1>1, <2>1, <2>2, Parts DEF Kinds, Requested
    <1> QED
        BY <1>3, <1>4

LEMMA RequestAsks ==
    ASSUME TypeOK, NEW c \in Requests, RunNow(c) \/ CutRequest(c)
    PROVE  Kinds
    <1>1. CASE RunNow(c)
        <2> DEFINE x == [pc |-> "start", at |-> now, run |-> 0]
        <2>1. x \in Request /\ x.pc = "start" /\ x.at = now
            BY Parts DEF Request
        <2>2. /\ req' = [req EXCEPT ![c] = x] /\ UNCHANGED <<mission, runs, mayRun, now, tick>>
              /\ ~LatestGoing /\ events' \in Nat
            BY <1>1, Counted DEF RunNow
        <2>3. Races \/ /\ \A s \in Schedulers : tick[s].pc \notin Late
                       /\ \A d \in Requests : ~In(d, "start")
            BY <1>1 DEF RunNow, Late
        <2> HIDE DEF x
        <2>4. /\ req' \in [Requests -> Request] /\ req'[c] = x
              /\ \A d \in Requests \ {c} : req'[d] = req[d]
            BY <2>1, <2>2, OneRequest
        <2>5. Asks(req'[c])
            BY <2>1, <2>2, <2>3, <2>4 DEF Asks
        <2> QED
            BY <2>2, <2>4, <2>5 DEF Kinds, Requested
    <1>2. CASE CutRequest(c)
        <2>1. UNCHANGED <<mission, runs, mayRun, now, tick>> /\ events' \in Nat
            BY <1>2, Counted DEF CutRequest
        <2>2. /\ req' \in [Requests -> Request] /\ RequestRests(req'[c])
              /\ \A d \in Requests \ {c} : req'[d] = req[d]
            BY <1>2, EndsAtRest DEF CutRequest, RequestsRest
        <2> QED
            BY <2>1, <2>2 DEF Kinds, Requested
    <1> QED
        BY <1>1, <1>2

LEMMA TimePasses ==
    ASSUME TypeOK, Clock \/ OwnerLosesAccess \/ UNCHANGED vars
    PROVE  Kinds
    <1>1. now \in Nat /\ mayRun \in BOOLEAN /\ events \in Nat
        BY Parts
    <1>2. CASE Clock
        BY <1>1, <1>2 DEF Clock, Kinds, Passes
    <1>3. CASE OwnerLosesAccess
        BY <1>1, <1>3, Counted DEF OwnerLosesAccess, Kinds, Passes
    <1>4. CASE UNCHANGED vars
        BY <1>1, <1>4 DEF vars, Kinds, Passes
    <1> QED
        BY <1>2, <1>3, <1>4

LEMMA EveryStep ==
    ASSUME TypeOK, InTime, [Next]_vars
    PROVE  Kinds
    <1>1. ASSUME NEW s \in Schedulers, TickStep(s) \/ CutTick(s)
          PROVE  Kinds
        BY <1>1, TicksThink, TickQueues, TickWrites, TickStarts DEF TickStep
    <1>2. ASSUME NEW c \in Requests, RunNow(c) \/ RequestStep(c) \/ CutRequest(c)
          PROVE  Kinds
        BY <1>2, RequestAsks, RequestStarts, RequestQueues DEF RequestStep
    <1> QED
        BY <1>1, <1>2, WorkMoves, PeopleWrite, TimePasses DEF Next

-----------------------------------------------------------------------------
(* Every kind of step keeps the invariant.                                 *)

(* A run that is added takes the place after the others.                   *)
LEMMA AddsOne ==
    ASSUME TypeOK, NEW row \in RunRow, AddsRun(row)
    PROVE  /\ runs' \in Seq(RunRow)
           /\ Len(runs) \in Nat /\ DOMAIN runs = 1 .. Len(runs)
           /\ Len(runs') = Len(runs) + 1 /\ DOMAIN runs' = 1 .. Len(runs) + 1
           /\ \A i \in DOMAIN runs : i \in DOMAIN runs' /\ runs'[i] = runs[i]
           /\ runs'[Len(runs) + 1] = row
           /\ runs' # <<>>
    <1>1. /\ runs' \in Seq(RunRow)
          /\ Len(runs') = Len(runs) + 1 /\ DOMAIN runs' = 1 .. Len(runs) + 1
          /\ \A i \in DOMAIN runs : i \in DOMAIN runs' /\ runs'[i] = runs[i]
          /\ runs'[Len(runs) + 1] = row
        BY Parts, Added DEF AddsRun
    <1>2. Len(runs) \in Nat /\ DOMAIN runs = 1 .. Len(runs)
        BY Parts, Places
    <1>3. runs' # <<>>
        BY <1>1, <1>2, EmptySeq
    <1> QED
        BY <1>1, <1>2, <1>3

LEMMA TypesKept ==
    ASSUME TypeOK, Kinds
    PROVE  TypeOK'
    <1>1. /\ mission \in Mission /\ runs \in Seq(RunRow) /\ mayRun \in BOOLEAN /\ now \in Nat
          /\ tick \in [Schedulers -> TickRow] /\ req \in [Requests -> Request]
        BY Parts
    <1>2. events' \in Nat
        BY DEF Kinds
    <1>3. /\ runs' \in Seq(RunRow) /\ mayRun' \in BOOLEAN /\ now' \in Nat
          /\ tick' \in [Schedulers -> TickRow] /\ req' \in [Requests -> Request]
        <2>1. CASE Thinks \/ WritesMission \/ Requested \/ Passes
            BY <1>1, <2>1 DEF Thinks, WritesMission, Requested, Passes, TicksRest
        <2>2. CASE WritesRows
            BY <1>1, <2>2 DEF WritesRows, RunsMoveOn, TicksRest, RequestsRest
        <2>3. CASE Starts
            BY <1>1, <2>3, AddsOne DEF Starts, TicksRest, RequestsRest
        <2> QED
            BY <2>1, <2>2, <2>3 DEF Kinds
    <1>4. /\ (mission.status = "active") = (mission.next # None)
          /\ (mission.status = "paused") = (mission.reason # None)
        BY DEF TypeOK
    <1>5. \A n \in Nat : n # None
        BY ContinuousAssumption
    <1>6. /\ mission' \in Mission
          /\ (mission'.status = "active") = (mission'.next # None)
          /\ (mission'.status = "paused") = (mission'.reason # None)
        <2>1. CASE mission' = mission
            BY <1>1, <1>4, <2>1
        <2>2. CASE /\ mission'.status # "active" /\ mission'.next = None /\ mission' \in Mission
                   /\ mission'.status = "paused" <=> mission'.reason # None
            BY <2>2
        <2>3. CASE /\ mission' = [status |-> "active", reason |-> None,
                                  next |-> NextOccurrence(now), from |-> now]
                   /\ mission' \in Mission
            BY <1>1, <1>5, <2>3, NextIsAfter
        <2>4. CASE /\ mission' = [mission EXCEPT !.next = mission'.next]
                   /\ Active /\ mission'.next \in Nat
            <3>1. mission'.status = mission.status /\ mission'.reason = mission.reason
                BY <1>1, <2>4 DEF Mission
            <3>2. mission' \in Mission
                BY <1>1, <2>4 DEF Mission, Instant
            <3> QED
                BY <1>4, <1>5, <2>4, <3>1, <3>2 DEF Active
        <2> QED
            BY <2>1, <2>2, <2>3, <2>4 DEF Kinds, Thinks, WritesRows, WritesMission, Starts,
               Requested, Passes, StartsScheduled, StartsManual, WouldStart
    <1> QED
        BY <1>2, <1>3, <1>6 DEF TypeOK, Mission, Request

(* How the instruction moves: its next occurrence only ever moves on, past *)
(* every occurrence a tick has read.                                       *)
MovesOn ==
    /\ now' \in {now, now + 1}
    /\ mission'.from \in Nat /\ mission'.from >= mission.from /\ mission'.from <= now
    /\ Active' => mission'.next \in Nat
    /\ Active' /\ Active => mission'.next >= mission.next
    /\ Active' /\ ~Active => mission'.next > now
    /\ Active' /\ Active => mission'.from = mission.from

LEMMA InstructionMovesOn ==
    ASSUME TypeOK, InTime, Kinds
    PROVE  MovesOn
    <1>1. mission \in Mission /\ now \in Nat /\ mission.from \in Nat /\ mission.from <= now
        BY Parts, MissionParts DEF InTime, RunsInTime
    <1>2. Active => mission.next \in Nat
        BY MissionParts
    <1>3. now' \in {now, now + 1}
        BY DEF Kinds, Thinks, WritesRows, WritesMission, Starts, Requested, Passes
    <1>4. CASE mission' = mission
        BY <1>1, <1>2, <1>3, <1>4 DEF MovesOn, Active
    <1>5. CASE /\ mission'.status # "active" /\ mission'.from = mission.from
        BY <1>1, <1>3, <1>5 DEF MovesOn, Active
    <1>6. CASE /\ mission' = [status |-> "active", reason |-> None,
                              next |-> NextOccurrence(now), from |-> now]
               /\ mission.status = "paused"
        BY <1>1, <1>3, <1>6, NextIsAfter DEF MovesOn, Active
    <1>7. CASE /\ mission' = [mission EXCEPT !.next = mission'.next]
               /\ Active /\ mission'.next \in Nat /\ mission'.next > mission.next
        <2>1. mission'.from = mission.from
            BY <1>1, <1>7 DEF Mission
        <2> QED
            BY <1>1, <1>2, <1>3, <1>7, <2>1 DEF MovesOn, Active
    <1> QED
        BY <1>4, <1>5, <1>6, <1>7 DEF Kinds, Thinks, WritesRows, WritesMission, Starts,
           Requested, Passes, StartsScheduled, StartsManual, WouldStart

(* What becomes of the runs: none is added and each is as it was or later, *)
(* or one is added and the others are as they were.                        *)
RunsKept == /\ RunsMoveOn
            /\ now' \in {now, now + 1} /\ (mayRun' => mayRun)

LEMMA RunsStep ==
    ASSUME TypeOK, Kinds
    PROVE  \/ RunsKept
           \/ Starts
    <1>1. Thinks \/ WritesMission \/ Requested \/ Passes => runs' = runs
        BY DEF Thinks, WritesMission, Requested, Passes
    <1> QED
        BY <1>1, Parts, NoRunMoves DEF Kinds, RunsKept, Thinks, WritesMission, Requested,
           Passes, WritesRows

LEMMA RunsStayInTime ==
    ASSUME TypeOK, InTime, Kinds
    PROVE  RunsInTime'
    <1>1. MovesOn /\ mission.from <= now /\ now \in Nat
        BY InstructionMovesOn, Parts DEF InTime, RunsInTime
    <1>2. /\ runs \in Seq(RunRow) /\ \A i \in DOMAIN runs : runs[i] \in RunRow
          /\ \A i \in DOMAIN runs : runs[i].for \in Nat /\ runs[i].created \in Nat
        BY Parts, Places DEF RunRow
    <1>3. /\ \A i \in DOMAIN runs : /\ RunInTime(runs[i])
                                    /\ runs[i].work = "cancelled" => runs[i].touched
                                    /\ mayRun => runs[i].permitted
          /\ Active => \A i \in Scheduled : runs[i].for < mission.next
        BY DEF InTime, RunsInTime
    <1>4. Active => mission.next \in Nat
        BY MissionParts
    <1>5. mission'.from <= now'
        BY <1>1 DEF MovesOn
    <1>6. CASE RunsKept
        <2>1. \A i \in DOMAIN runs' : i \in DOMAIN runs /\ Later(runs[i], runs'[i])
            BY <1>6 DEF RunsKept, RunsMoveOn
        <2>2. \A i \in DOMAIN runs' : /\ RunInTime(runs[i])'
                                      /\ runs'[i].work = "cancelled" => runs'[i].touched
                                      /\ mayRun' => runs'[i].permitted
            BY <2>1, <1>1, <1>2, <1>3, <1>6 DEF Later, RunInTime, RunsKept
        <2>3. ASSUME Active', NEW i \in Scheduled'
              PROVE  runs'[i].for < mission'.next
            <3>1. i \in Scheduled /\ i \in DOMAIN runs /\ runs'[i].for = runs[i].for
                BY <2>1, <2>3 DEF Scheduled, Later
            <3>2. RunInTime(runs[i]) /\ runs[i].for \in Nat /\ runs[i].created \in Nat
                BY <3>1, <1>2, <1>3
            <3> QED
                BY <3>1, <3>2, <1>1, <1>3, <1>4, <2>3 DEF MovesOn, RunInTime
        <2> QED
            BY <2>2, <2>3, <1>5 DEF RunsInTime
    <1>7. CASE Starts
        <2>1. PICK row \in RunRow :
                 /\ AddsRun(row)
                 /\ \/ \E s \in Schedulers : StartsScheduled(s, row)
                    \/ \E c \in Requests : StartsManual(c, row)
            BY <1>7 DEF Starts
        <2>2. mayRun' = mayRun /\ now' = now
            BY <1>7 DEF Starts
        <2>3. ASSUME NEW i \in DOMAIN runs', i \notin DOMAIN runs
              PROVE  runs'[i] = row
            BY <2>1, <2>3, AddsOne
        <2>4. \A i \in DOMAIN runs : runs'[i] = runs[i]
            BY <2>1, AddsOne
        <2>5. RunInTime(row) /\ row.work # "cancelled" /\ row.permitted = mayRun
            BY <2>1 DEF AddsRun, RunInTime
        <2>6. \A i \in DOMAIN runs' : /\ RunInTime(runs[i])'
                                      /\ runs'[i].work = "cancelled" => runs'[i].touched
                                      /\ mayRun' => runs'[i].permitted
            BY <1>3, <2>2, <2>3, <2>4, <2>5 DEF RunInTime
        <2>7. ASSUME Active', NEW i \in Scheduled'
              PROVE  runs'[i].for < mission'.next
            <3>1. Active /\ mission.next \in Nat /\ mission'.next \in Nat
                  /\ mission'.next >= mission.next
                BY <2>1, <2>7, <1>1, <1>4, MissionParts DEF StartsScheduled, StartsManual,
                   WouldStart, Active, MovesOn
            <3>2. CASE i \in DOMAIN runs
                <4>1. i \in Scheduled /\ runs'[i].for = runs[i].for
                    BY <2>4, <2>7, <3>2 DEF Scheduled
                <4> QED
                    BY <4>1, <3>1, <1>2, <1>3 DEF Scheduled
            <3>3. CASE i \notin DOMAIN runs
                <4>1. runs'[i] = row /\ row.trigger = "schedule"
                    BY <2>3, <2>7, <3>3 DEF Scheduled
                <4> QED
                    BY <4>1, <2>1 DEF StartsScheduled, StartsManual
            <3> QED
                BY <3>2, <3>3
        <2> QED
            BY <2>6, <2>7, <1>5 DEF RunsInTime
    <1> QED
        BY <1>6, <1>7, RunsStep

LEMMA RowsStayInTime ==
    ASSUME TypeOK, InTime, Kinds
    PROVE  /\ \A s \in Schedulers : TickInTime(tick[s])'
           /\ \A c \in Requests : RequestInTime(req[c])'
    <1>1. MovesOn /\ now \in Nat /\ mission.from \in Nat
        BY InstructionMovesOn, Parts, MissionParts
    <1>2. DOMAIN runs \subseteq DOMAIN runs'
        BY RunsStep, AddsOne DEF RunsKept, RunsMoveOn, Starts
    <1>3. Active => mission.next \in Nat
        BY MissionParts
    <1>4. ASSUME NEW s \in Schedulers
          PROVE  TickInTime(tick[s])'
        <2>1. tick[s] \in TickRow /\ TickInTime(tick[s])
            BY Parts DEF InTime
        <2>2. tick[s].at \in Nat /\ tick[s].due \in Nat /\ tick[s].from \in Nat
            BY <2>1 DEF TickRow
        <2>3. CASE tick'[s] = tick[s]
            <3>1. tick'[s].pc = "strand" => tick'[s].left \subseteq DOMAIN runs'
                BY <2>1, <2>3, <1>2 DEF TickInTime
            <3>2. tick'[s].pc = "queue" => tick'[s].run \in DOMAIN runs'
                BY <2>1, <2>3, <1>2 DEF TickInTime
            <3>3. tick'[s].pc \in Late =>
                     /\ tick'[s].due <= tick'[s].at /\ tick'[s].at <= now'
                     /\ tick'[s].from <= mission'.from
                     /\ Active' => tick'[s].due <= mission'.next
                BY <2>1, <2>2, <2>3, <1>1, <1>3 DEF TickInTime, MovesOn
            <3> QED
                BY <2>1, <2>3, <3>1, <3>2, <3>3 DEF TickInTime
        <2>4. CASE TickRests(tick'[s])
            BY <2>4 DEF TickRests, TickInTime, Late
        <2>5. CASE Found(tick'[s]) /\ mission' = mission /\ now' = now
            BY <2>5, <1>1, <1>3 DEF Found, TickInTime, Active
        <2>6. CASE Decided(tick[s], tick'[s]) /\ mission' = mission /\ now' = now
            BY <2>1, <2>6, <1>1 DEF Decided, TickInTime, Active, Late
        <2> QED
            BY <2>3, <2>4, <2>5, <2>6 DEF Kinds, Thinks, WritesRows, WritesMission, Starts,
               Requested, Passes, TicksRest
    <1>5. ASSUME NEW c \in Requests
          PROVE  RequestInTime(req[c])'
        <2>1. req[c] \in Request /\ RequestInTime(req[c]) /\ req[c].at \in Nat
            BY Parts DEF InTime, Request
        <2>2. CASE req'[c] = req[c]
            <3>1. req'[c].pc = "queue" => req'[c].run \in DOMAIN runs'
                BY <2>1, <2>2, <1>2 DEF RequestInTime
            <3>2. req'[c].pc = "start" => req'[c].at <= now'
                BY <2>1, <2>2, <1>1 DEF RequestInTime, MovesOn
            <3> QED
                BY <3>1, <3>2 DEF RequestInTime
        <2>3. CASE RequestRests(req'[c])
            BY <2>3 DEF RequestRests, RequestInTime
        <2>4. CASE Asks(req'[c]) /\ now' = now
            BY <2>4, <1>1 DEF Asks, RequestInTime
        <2> QED
            BY <2>2, <2>3, <2>4 DEF Kinds, Thinks, WritesRows, WritesMission, Starts,
               Requested, Passes, RequestsRest
    <1> QED
        BY <1>4, <1>5

LEMMA InTimeKept ==
    ASSUME TypeOK, InTime, Kinds
    PROVE  InTime'
    BY RunsStayInTime, RowsStayInTime DEF InTime

(* A row that has moved is still free, or excused, if it was.              *)
LEMMA FreeStays ==
    ASSUME NEW r \in RunRow, NEW new, Later(r, new)
    PROVE  /\ Free(r) => Free(new)
           /\ Excused(r) /\ r.created \in Nat /\ mission.from \in Nat /\ mission'.from \in Nat
              /\ mission'.from >= mission.from => Excused(new)'
    BY DEF Later, Free, Excused

LEMMA OrderKept ==
    ASSUME TypeOK, InTime, OccurrencesInOrder, Kinds
    PROVE  OccurrencesInOrder'
    <1>1. \A i \in DOMAIN runs : runs[i].for \in Nat
        BY Parts, Places DEF RunRow
    <1>2. DOMAIN runs = 1 .. Len(runs) /\ Len(runs) \in Nat
        BY Parts, Places
    <1>3. CASE RunsKept
        BY <1>3 DEF RunsKept, RunsMoveOn, Later, OccurrencesInOrder, Scheduled
    <1>4. CASE Starts
        <2>1. PICK row \in RunRow :
                 /\ AddsRun(row)
                 /\ \/ \E s \in Schedulers : StartsScheduled(s, row)
                    \/ \E c \in Requests : StartsManual(c, row)
            BY <1>4 DEF Starts
        <2>2. /\ DOMAIN runs' = 1 .. Len(runs) + 1
              /\ \A i \in DOMAIN runs : runs'[i] = runs[i]
              /\ runs'[Len(runs) + 1] = row
            BY <2>1, AddsOne
        <2>3. row.for \in Nat /\ row.created \in Nat /\ row.for <= row.created
            BY <2>1 DEF AddsRun, RunRow
        <2>4. row.trigger = "schedule" => \A i \in Scheduled : runs[i].for < row.for
            BY <2>1 DEF InTime, RunsInTime, StartsScheduled, StartsManual, WouldStart
        <2> QED
            BY <1>1, <1>2, <2>2, <2>3, <2>4 DEF OccurrencesInOrder, Scheduled
    <1> QED
        BY <1>3, <1>4, RunsStep

(* A tick that would start its run now would have before this step, unless *)
(* the step was its decision: the next occurrence never comes back.        *)
LEMMA WouldHaveStarted ==
    ASSUME TypeOK, InTime, Kinds, NEW s \in Schedulers, WouldStart(tick[s])'
    PROVE  /\ mission' = mission /\ Active
           /\ ~ \E row \in RunRow, z \in Schedulers : StartsScheduled(z, row)
           /\ \/ tick'[s] = tick[s] /\ WouldStart(tick[s])
              \/ Thinks /\ Decided(tick[s], tick'[s])
    <1>1. tick'[s].pc = "start" /\ Active' /\ mission'.next = tick'[s].due
        BY DEF WouldStart
    <1>2. \/ tick'[s] = tick[s]
          \/ Thinks /\ Decided(tick[s], tick'[s])
        BY <1>1 DEF Kinds, Thinks, WritesRows, WritesMission, Starts, Requested, Passes,
           TicksRest, TickRests, Found
    <1>3. tick'[s].due = tick[s].due /\ tick[s].pc \in Late
        BY <1>1, <1>2 DEF Decided, Late
    <1>4. /\ tick[s].due \in Nat /\ tick[s].at \in Nat /\ now \in Nat
          /\ tick[s].due <= tick[s].at /\ tick[s].at <= now
          /\ Active => tick[s].due <= mission.next
        BY <1>3, Parts DEF InTime, TickInTime, TickRow
    <1>5. MovesOn
        BY InstructionMovesOn
    <1>6. Active
        BY <1>1, <1>3, <1>4, <1>5 DEF MovesOn
    <1>7. mission.next \in Nat /\ mission'.next = mission.next
        BY <1>1, <1>3, <1>4, <1>5, <1>6, MissionParts DEF MovesOn
    <1>8. ~ \E row \in RunRow, z \in Schedulers : StartsScheduled(z, row)
        BY <1>7 DEF StartsScheduled
    <1>9. mission' = mission
        <2>1. CASE WritesMission
            BY <2>1, <1>1, <1>6, <1>7 DEF WritesMission, Active
        <2>2. CASE ~WritesMission
            BY <2>2, <1>8 DEF Kinds, Thinks, WritesRows, Starts, Requested, Passes, StartsManual
        <2> QED
            BY <2>1, <2>2
    <1> QED
        BY <1>1, <1>2, <1>3, <1>6, <1>7, <1>8, <1>9 DEF WouldStart

LEMMA InTurnKept ==
    ASSUME TypeOK, InTime, InTurn, NoRace, StartsWell, Kinds
    PROVE  InTurn'
    <1>1. /\ DOMAIN runs = 1 .. Len(runs) /\ Len(runs) \in Nat
          /\ runs = <<>> <=> Len(runs) = 0
          /\ \A i \in DOMAIN runs : runs[i] \in RunRow
        BY Parts, Places
    <1>2. CASE RunsKept
        <2>1. /\ Len(runs') = Len(runs) /\ DOMAIN runs' = DOMAIN runs
              /\ \A i \in DOMAIN runs : Later(runs[i], runs'[i])
            BY <1>2 DEF RunsKept, RunsMoveOn
        <2>2. ASSUME NEW i \in DOMAIN runs', i < Len(runs'),
                     runs'[i + 1].trigger = "schedule" \/ ~Races
              PROVE  Free(runs'[i])
            <3>1. i \in DOMAIN runs /\ i < Len(runs) /\ i + 1 \in DOMAIN runs
                BY <1>1, <2>1, <2>2
            <3>2. runs[i + 1].trigger = "schedule" \/ ~Races
                BY <3>1, <2>1, <2>2 DEF Later
            <3>3. Free(runs[i])
                BY <3>1, <3>2 DEF InTurn
            <3> QED
                BY <3>1, <3>3, <1>1, <2>1, FreeStays
        <2> QED
            BY <2>2 DEF InTurn
    <1>3. CASE Starts
        <2>1. PICK row \in RunRow :
                 /\ AddsRun(row)
                 /\ \/ \E s \in Schedulers : StartsScheduled(s, row)
                    \/ \E c \in Requests : StartsManual(c, row)
            BY <1>3 DEF Starts
        <2>2. /\ DOMAIN runs' = 1 .. Len(runs) + 1 /\ Len(runs') = Len(runs) + 1
              /\ \A i \in DOMAIN runs : runs'[i] = runs[i]
              /\ runs'[Len(runs) + 1] = row
            BY <2>1, AddsOne
        <2>3. row.trigger = "schedule" \/ ~Races => LatestFree
            BY <2>1 DEF StartsWell, NoRace, StartsScheduled, StartsManual
        <2>4. ASSUME NEW i \in DOMAIN runs', i < Len(runs'),
                     runs'[i + 1].trigger = "schedule" \/ ~Races
              PROVE  Free(runs'[i])
            <3>1. i \in DOMAIN runs /\ runs'[i] = runs[i]
                BY <1>1, <2>2, <2>4
            <3>2. CASE i < Len(runs)
                <4>1. i + 1 \in DOMAIN runs
                    BY <1>1, <3>1, <3>2
                <4>2. runs'[i + 1] = runs[i + 1]
                    BY <4>1, <2>2
                <4> QED
                    BY <4>2, <3>1, <3>2, <2>4 DEF InTurn
            <3>3. CASE i = Len(runs)
                BY <3>1, <3>3, <1>1, <2>2, <2>3, <2>4 DEF LatestFree
            <3> QED
                BY <3>1, <3>2, <3>3, <1>1
        <2> QED
            BY <2>4 DEF InTurn
    <1> QED
        BY <1>2, <1>3, RunsStep

LEMMA LossKept ==
    ASSUME TypeOK, InTime, OneLost, StartsWell, Kinds
    PROVE  OneLost'
    <1>1. CASE RunsKept
        BY <1>1 DEF RunsKept, RunsMoveOn, Later, OneLost, Scheduled
    <1>2. CASE Starts
        <2>1. PICK row \in RunRow :
                 /\ AddsRun(row)
                 /\ \/ \E s \in Schedulers : StartsScheduled(s, row)
                    \/ \E c \in Requests : StartsManual(c, row)
            BY <1>2 DEF Starts
        <2>2. /\ DOMAIN runs = 1 .. Len(runs) /\ Len(runs) \in Nat
              /\ DOMAIN runs' = 1 .. Len(runs) + 1
              /\ \A i \in DOMAIN runs : runs'[i] = runs[i]
              /\ runs'[Len(runs) + 1] = row
            BY <2>1, AddsOne
        <2>3. \A i \in DOMAIN runs' : i \in DOMAIN runs \/ i = Len(runs) + 1
            BY <2>2
        <2>4. row.trigger = "schedule" => NoneLost
            BY <2>1 DEF StartsWell, StartsScheduled, StartsManual
        <2>5. ASSUME NEW i \in Scheduled', NEW j \in Scheduled',
                     ~runs'[i].permitted, ~runs'[j].permitted
              PROVE  i = j
            <3>1. CASE row.trigger = "schedule"
                BY <2>2, <2>3, <2>4, <2>5, <3>1 DEF NoneLost, Scheduled
            <3>2. CASE row.trigger # "schedule"
                BY <2>2, <2>3, <2>5, <3>2 DEF OneLost, Scheduled
            <3> QED
                BY <3>1, <3>2
        <2> QED
            BY <2>5 DEF OneLost
    <1> QED
        BY <1>1, <1>2, RunsStep

(* What the latest run is after a step that adds none.                     *)
LEMMA LatestStaysFree ==
    ASSUME TypeOK, RunsMoveOn, LatestFree
    PROVE  LatestFree'
    <1>1. /\ Len(runs) \in Nat /\ DOMAIN runs = 1 .. Len(runs)
          /\ runs = <<>> <=> Len(runs) = 0
          /\ \A i \in DOMAIN runs : runs[i] \in RunRow
        BY Parts, Places
    <1>2. Len(runs') = Len(runs) /\ (runs' = <<>> <=> Len(runs') = 0)
        BY EmptySeq DEF RunsMoveOn
    <1> QED
        BY <1>1, <1>2, FreeStays DEF LatestFree, RunsMoveOn

LEMMA NoRaceKept ==
    ASSUME TypeOK, InTime, NoRace, Kinds
    PROVE  NoRace'
    <1> SUFFICES ASSUME ~Races
                 PROVE  NoRace'
        BY DEF NoRace
    <1>1. /\ \A s \in Schedulers, c \in Requests : tick[s].pc \in Late => ~In(c, "start")
          /\ \A c, d \in Requests : In(c, "start") /\ In(d, "start") => c = d
          /\ \A c \in Requests : In(c, "start") => LatestFree
        BY DEF NoRace
    <1>2. ASSUME NEW s \in Schedulers
          PROVE  \/ tick'[s] = tick[s] \/ tick'[s].pc \notin Late
                 \/ Thinks /\ (Found(tick'[s]) \/ Decided(tick[s], tick'[s]))
        BY DEF Kinds, Thinks, WritesRows, WritesMission, Starts, Requested, Passes,
           TicksRest, TickRests, Late
    <1>3. ASSUME NEW c \in Requests
          PROVE  \/ req'[c] = req[c] \/ req'[c].pc # "start"
                 \/ Requested /\ Asks(req'[c])
        BY DEF Kinds, Thinks, WritesRows, WritesMission, Starts, Requested, Passes,
           RequestsRest, RequestRests
    <1>4. ASSUME NEW s \in Schedulers, NEW c \in Requests, tick'[s].pc \in Late, In(c, "start")'
          PROVE  FALSE
        <2>1. CASE req'[c] = req[c]
            <3>1. In(c, "start")
                BY <1>4, <2>1 DEF In
            <3> QED
                BY <3>1, <1>1, <1>2, <1>4 DEF Found, Decided, Late
        <2>2. CASE Requested /\ Asks(req'[c])
            BY <2>2, <1>4 DEF Requested, Asks
        <2> QED
            BY <2>1, <2>2, <1>3, <1>4 DEF In
    <1>5. ASSUME NEW c \in Requests, NEW d \in Requests, In(c, "start")', In(d, "start")', c # d
          PROVE  FALSE
        <2>1. CASE req'[c] = req[c] /\ req'[d] = req[d]
            BY <2>1, <1>1, <1>5 DEF In
        <2>2. CASE Requested /\ Asks(req'[c]) /\ req'[d] = req[d]
            BY <2>2, <1>5 DEF Asks, In
        <2>3. CASE Requested /\ Asks(req'[d]) /\ req'[c] = req[c]
            BY <2>3, <1>5 DEF Asks, In
        <2>4. Requested => req'[c] = req[c] \/ req'[d] = req[d]
            BY <1>5 DEF Requested
        <2> QED
            BY <2>1, <2>2, <2>3, <2>4, <1>3, <1>5 DEF In
    <1>6. ASSUME NEW c \in Requests, In(c, "start")'
          PROVE  LatestFree'
        <2>1. CASE Requested /\ Asks(req'[c])
            BY <2>1 DEF Requested, Asks, LatestGoing, LatestFree, Free
        <2>2. CASE req'[c] = req[c]
            <3>1. In(c, "start") /\ LatestFree
                BY <2>2, <1>1, <1>6 DEF In
            <3>2. CASE RunsKept
                BY <3>1, <3>2, LatestStaysFree DEF RunsKept
            <3>3. CASE Starts
                <4>1. PICK row \in RunRow :
                         \/ \E s \in Schedulers : StartsScheduled(s, row)
                         \/ \E d \in Requests : StartsManual(d, row)
                    BY <3>3 DEF Starts
                <4>2. ASSUME NEW d \in Requests, StartsManual(d, row)
                      PROVE  FALSE
                    BY <4>2, <3>1, <1>1, <1>6 DEF StartsManual, In
                <4>3. ASSUME NEW s \in Schedulers, StartsScheduled(s, row)
                      PROVE  FALSE
                    BY <4>3, <3>1, <1>1 DEF StartsScheduled, WouldStart, Late
                <4> QED
                    BY <4>1, <4>2, <4>3
            <3> QED
                BY <3>2, <3>3, RunsStep
        <2> QED
            BY <2>1, <2>2, <1>3, <1>6 DEF In
    <1> QED
        BY <1>4, <1>5, <1>6 DEF NoRace

(* A tick that decides to start finds no failures that would stop it: each *)
(* run it counted was settled but the latest, or had a run by hand after.  *)
LEMMA DecidedOnNoFailures ==
    ASSUME TypeOK, InTime, InTurn, NEW from \in Nat, from <= mission.from,
           ~LatestGoing, ~FailingRepeatedly(from)
    PROVE  NotFailing
    <1>1. /\ Len(runs) \in Nat /\ DOMAIN runs = 1 .. Len(runs)
          /\ runs = <<>> <=> Len(runs) = 0
          /\ \A i \in DOMAIN runs : runs[i] \in RunRow
        BY Parts, Places
    <1>2. FailureLimit \in Nat \ {0}
        BY ContinuousAssumption
    <1> SUFFICES ASSUME Len(runs) >= FailureLimit
                 PROVE  \E i \in Window : Excused(runs[i])
        BY <1>1, <1>2 DEF NotFailing
    <1>3. PICK i \in Window : ~(runs[i].work = "failed" /\ runs[i].created >= from)
        BY DEF FailingRepeatedly, Window
    <1>4. i \in DOMAIN runs /\ i <= Len(runs) /\ i \in Nat
        BY <1>1, <1>2, <1>3 DEF Window
    <1>5. runs[i].work \in Statuses /\ runs[i].created \in Nat
          /\ runs[i].trigger \in {"schedule", "manual"}
        BY <1>1, <1>4 DEF RunRow
    <1>6. CASE runs[i].created < from
        <2>1. mission.from \in Nat
            BY MissionParts
        <2> QED
            BY <2>1, <1>3, <1>5, <1>6 DEF Excused
    <1>7. CASE runs[i].work \in {"completed", "cancelled"}
        BY <1>3, <1>4, <1>7 DEF Excused, InTime, RunsInTime
    <1>8. CASE runs[i].work \in {"queued", "going"}
        <2>1. i # Len(runs)
            BY <1>1, <1>4, <1>8 DEF LatestGoing, IsSettled
        <2>2. i < Len(runs) /\ i + 1 \in DOMAIN runs /\ i + 1 \in Window
            BY <2>1, <1>1, <1>2, <1>3, <1>4 DEF Window
        <2>3. runs[i + 1].trigger \in {"schedule", "manual"}
            BY <2>2, <1>1 DEF RunRow
        <2>4. CASE runs[i + 1].trigger = "manual"
            BY <2>2, <2>4 DEF Excused
        <2>5. CASE runs[i + 1].trigger = "schedule"
            <3>1. Free(runs[i])
                BY <2>2, <2>5, <1>4 DEF InTurn
            <3> QED
                BY <3>1, <1>3, <1>8 DEF Free, IsSettled, Excused
        <2> QED
            BY <2>3, <2>4, <2>5
    <1> QED
        BY <1>3, <1>5, <1>6, <1>7, <1>8 DEF Statuses

LEMMA StartsWellKept ==
    ASSUME TypeOK, InTime, InTurn, NoRace, StartsWell, Kinds
    PROVE  StartsWell'
    <1> SUFFICES ASSUME NEW s \in Schedulers, WouldStart(tick[s])'
                 PROVE  (LatestFree /\ NotFailing /\ NoneLost)'
        BY DEF StartsWell
    <1>1. /\ mission' = mission /\ Active
          /\ ~ \E row \in RunRow, z \in Schedulers : StartsScheduled(z, row)
          /\ \/ tick'[s] = tick[s] /\ WouldStart(tick[s])
             \/ Thinks /\ Decided(tick[s], tick'[s])
        BY WouldHaveStarted
    <1>2. /\ Len(runs) \in Nat /\ DOMAIN runs = 1 .. Len(runs)
          /\ \A i \in DOMAIN runs : runs[i] \in RunRow
          /\ \A i \in DOMAIN runs : runs[i].created \in Nat
        BY Parts, Places DEF RunRow
    <1>3. FailureLimit \in Nat \ {0} /\ mission.from \in Nat
        BY ContinuousAssumption, MissionParts
    <1>4. CASE Thinks /\ Decided(tick[s], tick'[s])
        <2>1. runs' = runs /\ mission' = mission
            BY <1>4 DEF Thinks
        <2>2. tick'[s].pc = "start"
            BY DEF WouldStart
        <2>3. mayRun /\ ~LatestGoing /\ ~FailingRepeatedly(tick[s].from)
            BY <1>4, <2>2 DEF Decided
        <2>4. tick[s].from \in Nat /\ tick[s].from <= mission.from
            BY <1>4, Parts DEF Decided, InTime, TickInTime, TickRow, Late
        <2>5. LatestFree
            BY <2>3 DEF LatestGoing, LatestFree, Free
        <2>6. NotFailing
            BY <2>3, <2>4, DecidedOnNoFailures
        <2>7. NoneLost
            BY <2>3 DEF NoneLost, InTime, RunsInTime, Scheduled
        <2> QED
            BY <2>1, <2>5, <2>6, <2>7 DEF LatestFree, NotFailing, NoneLost, Scheduled, Window, Excused
    <1>5. CASE tick'[s] = tick[s] /\ WouldStart(tick[s])
        <2>1. LatestFree /\ NotFailing /\ NoneLost
            BY <1>5 DEF StartsWell
        <2>2. CASE RunsKept
            <3>1. /\ Len(runs') = Len(runs) /\ DOMAIN runs' = DOMAIN runs
                  /\ \A i \in DOMAIN runs : Later(runs[i], runs'[i])
                BY <2>2 DEF RunsKept, RunsMoveOn
            <3>2. LatestFree'
                BY <2>1, <2>2, LatestStaysFree DEF RunsKept
            <3>3. NotFailing'
                <4>1. CASE Len(runs) < FailureLimit
                    BY <4>1, <3>1 DEF NotFailing
                <4>2. CASE Len(runs) >= FailureLimit
                    <5>1. PICK i \in Window : Excused(runs[i])
                        BY <2>1, <4>2, <1>2, <1>3 DEF NotFailing
                    <5>2. i \in DOMAIN runs
                        BY <5>1, <4>2, <1>2, <1>3 DEF Window
                    <5>3. Excused(runs[i])'
                        BY <5>1, <5>2, <3>1, <1>1, <1>2 DEF Excused, Later
                    <5>4. i \in Window'
                        BY <5>1, <3>1 DEF Window
                    <5> QED
                        BY <5>3, <5>4 DEF NotFailing
                <4> QED
                    BY <4>1, <4>2, <1>2, <1>3
            <3>4. NoneLost'
                BY <2>1, <3>1 DEF NoneLost, Scheduled, Later
            <3> QED
                BY <3>2, <3>3, <3>4
        <2>3. CASE Starts
            <3>1. PICK row \in RunRow :
                     AddsRun(row) /\ \E c \in Requests : StartsManual(c, row)
                BY <2>3, <1>1 DEF Starts
            <3>2. /\ DOMAIN runs' = 1 .. Len(runs) + 1 /\ Len(runs') = Len(runs) + 1
                  /\ \A i \in DOMAIN runs : runs'[i] = runs[i]
                  /\ runs'[Len(runs) + 1] = row /\ row.trigger = "manual"
                BY <3>1, AddsOne DEF StartsManual
            <3>3. Races
                BY <3>1, <1>5 DEF NoRace, StartsManual, WouldStart, Late
            <3>4. LatestFree'
                BY <3>2, <3>3 DEF LatestFree, Free
            <3>5. NotFailing'
                <4>1. (Len(runs) \in Window)'
                    BY <1>2, <1>3, <3>2 DEF Window
                <4>2. Excused(runs[Len(runs)])'
                    BY <3>2 DEF Excused
                <4> QED
                    BY <4>1, <4>2, <3>2 DEF NotFailing
            <3>6. NoneLost'
                BY <2>1, <3>2, <1>2 DEF NoneLost, Scheduled
            <3> QED
                BY <3>4, <3>5, <3>6
        <2> QED
            BY <2>2, <2>3, RunsStep
    <1> QED
        BY <1>1, <1>4, <1>5

-----------------------------------------------------------------------------
(* The theorems.                                                           *)

LEMMA InvInit == Init => IInv
    <1> SUFFICES ASSUME Init
                 PROVE  IInv
        OBVIOUS
    <1>1. /\ mission = [status |-> "active", reason |-> None, next |-> NextOccurrence(0), from |-> 0]
          /\ runs = <<>> /\ mayRun = TRUE /\ now = 0 /\ events = 0
          /\ tick = [s \in Schedulers |-> NoTick] /\ req = [c \in Requests |-> NoRequest]
        BY DEF Init
    <1>2. NextOccurrence(0) \in Nat
        BY NextIsAfter
    <1>3. runs \in Seq(RunRow) /\ Len(runs) = 0 /\ DOMAIN runs = {}
        BY <1>1, EmptySeq
    <1>4. mission \in Mission /\ mission.next # None /\ mission.reason = None
        BY <1>1, <1>2, ContinuousAssumption DEF Mission, Instant
    <1>5. TypeOK
        BY <1>1, <1>3, <1>4, IdleRows DEF TypeOK, Mission, Request
    <1>6. InTime
        BY <1>1, <1>3, IdleRows DEF InTime, RunsInTime, TickInTime, RequestInTime, Scheduled, Late
    <1>7. OccurrencesInOrder /\ InTurn /\ OneLost
        BY <1>3 DEF OccurrencesInOrder, InTurn, OneLost, Scheduled
    <1>8. NoRace /\ StartsWell
        BY <1>1, IdleRows DEF NoRace, StartsWell, In, WouldStart, Late
    <1> QED
        BY <1>5, <1>6, <1>7, <1>8 DEF IInv

LEMMA InvStep == IInv /\ [Next]_vars => IInv'
    <1> SUFFICES ASSUME IInv, [Next]_vars
                 PROVE  IInv'
        OBVIOUS
    <1>1. Kinds
        BY EveryStep DEF IInv
    <1> QED
        BY <1>1, TypesKept, InTimeKept, OrderKept, InTurnKept, NoRaceKept, LossKept,
           StartsWellKept DEF IInv

LEMMA InvAlways == Spec => []IInv
    BY InvInit, InvStep, PTL DEF Spec

(* The instruction and its runs keep what ScheduleIsKept says: their rows  *)
(* keep their types, every occurrence is run at most once and in order,    *)
(* the schedule's runs do not overlap, and no more than one of them is     *)
(* started without the owner's permission, whatever the number of workers  *)
(* and requests and however long each takes between two calls.             *)
THEOREM KeepsTheSchedule == Spec => []ScheduleIsKept
    <1>1. IInv => ScheduleIsKept
        <2> SUFFICES ASSUME IInv
                     PROVE  ScheduleIsKept
            OBVIOUS
        <2>1. DOMAIN runs = 1 .. Len(runs) /\ Len(runs) \in Nat
              /\ \A i \in DOMAIN runs : runs[i].trigger \in {"schedule", "manual"}
            BY Parts, Places DEF IInv, RunRow
        <2>2. ASSUME NEW i \in Unsettled, NEW j \in Unsettled, i < j, ~runs[i].touched,
                     ~runs[j].touched
              PROVE  /\ Races
                     /\ j \in Scheduled => \E k \in i .. j - 1 : runs[k].trigger = "manual"
            <3>1. i \in DOMAIN runs /\ j \in DOMAIN runs /\ i \in Nat /\ j \in Nat
                  /\ i + 1 \in DOMAIN runs /\ i < Len(runs)
                BY <2>1, <2>2 DEF Unsettled
            <3>2. ~IsSettled(runs[i].work)
                BY <2>2 DEF Unsettled, IsSettled
            <3>3. runs[i + 1].trigger = "schedule" \/ ~Races => Races /\ runs[i].trigger = "manual"
                BY <3>1, <3>2, <2>2 DEF IInv, InTurn, Free
            <3>4. Races
                BY <3>3
            <3>5. ASSUME j \in Scheduled
                  PROVE  \E k \in i .. j - 1 : runs[k].trigger = "manual"
                <4>1. CASE runs[i + 1].trigger = "schedule"
                    <5>1. i \in i .. j - 1 /\ runs[i].trigger = "manual"
                        BY <3>1, <3>3, <4>1, <2>2
                    <5> QED
                        BY <5>1
                <4>2. CASE runs[i + 1].trigger = "manual"
                    <5>1. i + 1 # j
                        BY <3>5, <4>2 DEF Scheduled
                    <5>2. i + 1 \in i .. j - 1
                        BY <5>1, <3>1, <2>2
                    <5> QED
                        BY <4>2, <5>2
                <4> QED
                    BY <4>1, <4>2, <2>1, <3>1
            <3> QED
                BY <3>4, <3>5
        <2>3. ScheduleRunsOneAtATime /\ (Races \/ OneRunAtATime)
            BY <2>2 DEF ScheduleRunsOneAtATime, OneRunAtATime
        <2>4. AtMostOneAfterLoss
            <3> DEFINE lost == {i \in Scheduled : ~runs[i].permitted}
            <3>1. \A i, j \in lost : i = j
                BY DEF IInv, OneLost
            <3>2. lost = {} \/ \E i \in lost : lost = {i}
                BY <3>1
            <3>3. Cardinality(lost) \in {0, 1}
                BY <3>2, FS_EmptySet, FS_Singleton
            <3> QED
                BY <3>3 DEF AtMostOneAfterLoss
        <2> QED
            BY <2>3, <2>4 DEF IInv, ScheduleIsKept
    <1> QED
        BY <1>1, InvAlways, PTL

(* A cancelled instruction stays cancelled.                                *)
LEMMA CancelledStays ==
    ASSUME TypeOK, Kinds, mission.status = "cancelled"
    PROVE  mission'.status = "cancelled"
    <1>1. WritesMission => mission' = mission
        BY DEF WritesMission, Active
    <1>2. ~Starts \/ mission' = mission
        BY DEF Starts, StartsScheduled, StartsManual, WouldStart, Active
    <1> QED
        BY <1>1, <1>2 DEF Kinds, Thinks, WritesRows, Requested, Passes

(* A cancelled instruction starts no more runs; the schedule starts none   *)
(* while it is paused, and none on top of FailureLimit of its own runs     *)
(* that failed since it was last resumed, although the tick that starts it *)
(* looked at all this some time ago.                                       *)
THEOREM StartsWhenItMay == Spec => StartsOnlyWhenItMay
    <1> DEFINE Allowed ==
            /\ mission.status = "cancelled" =>
                 mission'.status = "cancelled" /\ Len(runs') = Len(runs)
            /\ Len(runs') > Len(runs) /\ runs'[Len(runs')].trigger = "schedule" =>
                 /\ mission.status # "paused"
                 /\ \/ ~AllFailed(mission.from)
                    \/ \E i \in Len(runs) + 1 - FailureLimit .. Len(runs) :
                          runs[i].trigger = "manual" \/ runs[i].touched
    <1>1. IInv /\ [Next]_vars => Allowed
        <2> SUFFICES ASSUME IInv, [Next]_vars
                     PROVE  Allowed
            OBVIOUS
        <2>1. Kinds /\ TypeOK /\ StartsWell
            BY EveryStep DEF IInv
        <2>2. Len(runs) \in Nat
            BY <2>1, Parts, Places
        <2>3. /\ FailureLimit \in Nat \ {0} /\ mission.from \in Nat
              /\ DOMAIN runs = 1 .. Len(runs)
              /\ \A i \in DOMAIN runs : runs[i].created \in Nat
            BY <2>1, Parts, Places, MissionParts, ContinuousAssumption DEF RunRow
        <2>4. CASE RunsKept
            <3>1. Len(runs') = Len(runs)
                BY <2>4 DEF RunsKept, RunsMoveOn
            <3>2. mission.status = "cancelled" => mission'.status = "cancelled"
                BY <2>1, <2>4, CancelledStays
            <3> QED
                BY <3>1, <3>2, <2>2
        <2>5. CASE Starts
            <3>1. PICK row \in RunRow :
                     /\ AddsRun(row)
                     /\ \/ \E s \in Schedulers : StartsScheduled(s, row)
                        \/ \E c \in Requests : StartsManual(c, row)
                BY <2>5 DEF Starts
            <3>2. Len(runs') = Len(runs) + 1 /\ runs'[Len(runs')] = row
                BY <2>1, <3>1, AddsOne
            <3>3. mission.status # "cancelled"
                BY <3>1 DEF StartsManual, StartsScheduled, WouldStart, Active
            <3>4. ASSUME row.trigger = "schedule"
                  PROVE  /\ mission.status # "paused"
                         /\ \/ ~AllFailed(mission.from)
                            \/ \E i \in Len(runs) + 1 - FailureLimit .. Len(runs) :
                                  runs[i].trigger = "manual" \/ runs[i].touched
                <4>1. Active /\ NotFailing
                    BY <2>1, <3>1, <3>4 DEF StartsManual, StartsScheduled, WouldStart, StartsWell
                <4>2. CASE Len(runs) < FailureLimit
                    BY <4>1, <4>2, <2>2, <2>3 DEF Active, AllFailed
                <4>3. CASE Len(runs) >= FailureLimit
                    <5>1. PICK i \in Window : Excused(runs[i])
                        BY <4>1, <4>3, <2>2, <2>3 DEF NotFailing
                    <5>2. i \in DOMAIN runs
                        BY <5>1, <4>3, <2>2, <2>3 DEF Window
                    <5>3. runs[i].created \in Nat
                        BY <5>2, <2>3
                    <5>4. CASE runs[i].work = "completed" \/ runs[i].created < mission.from
                        BY <4>1, <5>1, <5>3, <5>4, <2>3 DEF Active, AllFailed, Window
                    <5>5. CASE runs[i].trigger = "manual" \/ runs[i].touched
                        BY <4>1, <5>1, <5>5 DEF Active, Window
                    <5> QED
                        BY <5>1, <5>4, <5>5 DEF Excused
                <4> QED
                    BY <4>2, <4>3, <2>2, <2>3
            <3> QED
                BY <3>2, <3>3, <3>4
        <2> QED
            BY <2>1, <2>4, <2>5, RunsStep
    <1>2. IInv /\ [Next]_vars => [Allowed]_<<mission, runs>>
        BY <1>1
    <1> QED
        BY <1>2, InvAlways, PTL DEF Spec, StartsOnlyWhenItMay

-----------------------------------------------------------------------------
(* The occurrences of a schedule.  Here they fall on every multiple of     *)
(* Period; which wall-clock times they are is ScheduleClock's arithmetic,  *)
(* a specification of its own with its own constants and variables: the    *)
(* same facts, for every instance of it whose constants are as it assumes. *)
CONSTANTS
    Hour, Zones, Schedules, NoInstant, Horizon, MaxLate   \* the parameters of ScheduleClock
VARIABLES
    zone, schedule, instant, standing, due                \* its variables

Cal == INSTANCE ScheduleClock WITH None <- NoInstant, now <- instant, status <- standing

(* What the wall-clock arithmetic does in every timezone with one jump of  *)
(* its clocks, and so what it keeps for the mission's row.                 *)

ZoneRecords == [before: Int, after: Int, jump: Nat]

(* The smaller and the larger of two.                                      *)
LEMMA Pair ==
    ASSUME NEW a \in Int, NEW b \in Int
    PROVE  /\ Cal!Max({a, b}) = IF a >= b THEN a ELSE b
           /\ Cal!Min({a, b}) = IF a <= b THEN a ELSE b
    BY DEF Cal!Max, Cal!Min

LEMMA Single ==
    ASSUME NEW a \in Int
    PROVE  Cal!Min({a}) = a
    BY DEF Cal!Min

(* A set of naturals that is not empty has a smallest one: the initial     *)
(* segments its elements end are finite sets, ordered by inclusion.        *)
LEMMA Smallest ==
    ASSUME NEW S \in SUBSET Nat, S # {}
    PROVE  Cal!Min(S) \in S
<1>  DEFINE segments == {0..k : k \in S}
<1>1. segments \subseteq FiniteSubsetsOf(Nat)
    <2>1. ASSUME NEW k \in S
          PROVE  0..k \in FiniteSubsetsOf(Nat)
        <3>1. IsFiniteSet(0..k)
            BY FS_Interval, 0 \in Int, k \in Int
        <3>2. 0..k \in SUBSET Nat
            OBVIOUS
        <3>3. QED  BY <3>1, <3>2 DEF FiniteSubsetsOf
    <2>2. QED  BY <2>1
<1>2. segments # {}
    OBVIOUS
<1>3. PICK x \in segments : \A y \in segments : ~ (<<y, x>> \in StrictSubsetOrdering(Nat))
    BY <1>1, <1>2, FS_StrictSubsetOrderingWellFounded, WFMin
<1>4. PICK k \in S : x = 0..k
    OBVIOUS
<1>5. ASSUME NEW j \in S
      PROVE  k <= j
    <2>1. SUFFICES ASSUME j < k
                   PROVE  FALSE
        OBVIOUS
    <2>2. /\ 0..j \in SUBSET Nat /\ 0..k \in SUBSET Nat
          /\ 0..j \subseteq 0..k /\ k \in 0..k /\ k \notin 0..j
        BY <2>1
    <2>3. <<0..j, 0..k>> \in StrictSubsetOrdering(Nat)
        BY <2>2 DEF StrictSubsetOrdering
    <2>4. QED  BY <1>3, <1>4, <2>3
<1>6. QED  BY <1>5 DEF Cal!Min

-----------------------------------------------------------------------------
(* Wall clocks.                                                            *)

LEMMA ClockType ==
    ASSUME NEW z \in ZoneRecords, NEW t \in Int
    PROVE  Cal!OffsetMinutes(z, t) \in {z.before, z.after} /\ Cal!WallClock(z, t) \in Int
    BY DEF ZoneRecords, Cal!OffsetMinutes, Cal!WallClock

(* The two passes, case by case.                                           *)
LEMMA TwoPasses ==
    ASSUME NEW z \in ZoneRecords, NEW w \in Int,
           NEW first, first = w - Cal!OffsetMinutes(z, w),
           NEW second, second = w - Cal!OffsetMinutes(z, first)
    PROVE  /\ first \in Int /\ second \in Int
           /\ Cal!WallClock(z, first) = w /\ Cal!WallClock(z, second) # w => Cal!InstantOf(z, w) = first
           /\ Cal!WallClock(z, first) # w /\ Cal!WallClock(z, second) = w => Cal!InstantOf(z, w) = second
           /\ Cal!WallClock(z, first) = w /\ Cal!WallClock(z, second) = w =>
                Cal!InstantOf(z, w) = IF first <= second THEN first ELSE second
           /\ Cal!WallClock(z, first) # w /\ Cal!WallClock(z, second) # w =>
                Cal!InstantOf(z, w) = IF first >= second THEN first ELSE second
<1>  DEFINE matching == {t \in {first, second} : Cal!WallClock(z, t) = w}
<1>1. first \in Int /\ second \in Int
    <2>1. Cal!OffsetMinutes(z, w) \in Int
        BY DEF ZoneRecords, Cal!OffsetMinutes
    <2>2. first \in Int
        BY <2>1
    <2>3. Cal!OffsetMinutes(z, first) \in Int
        BY <2>2 DEF ZoneRecords, Cal!OffsetMinutes
    <2>4. QED  BY <2>2, <2>3
<1>2. Cal!InstantOf(z, w) = IF matching = {} THEN Cal!Max({first, second}) ELSE Cal!Min(matching)
    BY DEF Cal!InstantOf
<1>3. CASE Cal!WallClock(z, first) = w /\ Cal!WallClock(z, second) # w
    <2>1. matching = {first}
        BY <1>3
    <2>2. QED  BY <1>1, <1>2, <1>3, <2>1, Single
<1>4. CASE Cal!WallClock(z, first) # w /\ Cal!WallClock(z, second) = w
    <2>1. matching = {second}
        BY <1>4
    <2>2. QED  BY <1>1, <1>2, <1>4, <2>1, Single
<1>5. CASE Cal!WallClock(z, first) = w /\ Cal!WallClock(z, second) = w
    <2>1. matching = {first, second}
        BY <1>5
    <2>2. QED  BY <1>1, <1>2, <1>5, <2>1, Pair
<1>6. CASE Cal!WallClock(z, first) # w /\ Cal!WallClock(z, second) # w
    <2>1. matching = {}
        BY <1>6
    <2>2. QED  BY <1>1, <1>2, <1>6, <2>1, Pair
<1>7. QED  BY <1>1, <1>3, <1>4, <1>5, <1>6

LEMMA InstantType ==
    ASSUME NEW z \in ZoneRecords, NEW w \in Int
    PROVE  Cal!InstantOf(z, w) \in Int
<1>1. PICK first : first = w - Cal!OffsetMinutes(z, w)
    OBVIOUS
<1>2. PICK second : second = w - Cal!OffsetMinutes(z, first)
    OBVIOUS
<1>3. QED  BY <1>1, <1>2, TwoPasses

(* A time some instant shows is taken at an instant that shows it, in      *)
(* every timezone.                                                         *)
LEMMA ShowsTheTime ==
    ASSUME NEW z \in ZoneRecords, NEW w \in Int, NEW t \in Int, Cal!WallClock(z, t) = w
    PROVE  Cal!WallClock(z, Cal!InstantOf(z, w)) = w
<1>1. PICK first : first = w - Cal!OffsetMinutes(z, w)
    OBVIOUS
<1>2. PICK second : second = w - Cal!OffsetMinutes(z, first)
    OBVIOUS
<1>3. first \in Int /\ second \in Int
    BY <1>1, <1>2, TwoPasses
<1>4. Cal!WallClock(z, first) = w \/ Cal!WallClock(z, second) = w
    BY <1>1, <1>2, <1>3 DEF ZoneRecords, Cal!OffsetMinutes, Cal!WallClock
<1>5. Cal!InstantOf(z, w) \in {first, second} /\ Cal!WallClock(z, Cal!InstantOf(z, w)) = w
    BY <1>1, <1>2, <1>3, <1>4, TwoPasses
<1>6. QED  BY <1>5

(* A time no instant shows is taken as long after the jump as the jump     *)
(* skipped of it.                                                          *)
LEMMA LandsAfterTheJump ==
    ASSUME NEW z \in ZoneRecords, NEW w \in Int, \A t \in Int : Cal!WallClock(z, t) # w
    PROVE  Cal!InstantOf(z, w) = z.jump + (w - (z.jump + z.before))
<1>1. PICK first : first = w - Cal!OffsetMinutes(z, w)
    OBVIOUS
<1>2. PICK second : second = w - Cal!OffsetMinutes(z, first)
    OBVIOUS
<1>3. first \in Int /\ second \in Int
    BY <1>1, <1>2, TwoPasses
<1>4. Cal!InstantOf(z, w) = IF first >= second THEN first ELSE second
    BY <1>1, <1>2, <1>3, TwoPasses
<1>5. Cal!WallClock(z, w - z.before) # w /\ Cal!WallClock(z, w - z.after) # w
    BY DEF ZoneRecords
<1>6. w - z.before >= z.jump /\ w - z.after < z.jump
    BY <1>5 DEF ZoneRecords, Cal!OffsetMinutes, Cal!WallClock
<1>7. (IF first >= second THEN first ELSE second) = w - z.before
    BY <1>1, <1>2, <1>3, <1>6 DEF ZoneRecords, Cal!OffsetMinutes
<1>8. QED  BY <1>4, <1>7 DEF ZoneRecords

(* West of Greenwich, and wherever the clocks do not go back, a time is    *)
(* taken the first time it is shown.                                       *)
LEMMA FirstTime ==
    ASSUME NEW z \in ZoneRecords, z.before <= 0 \/ z.before <= z.after,
           NEW w \in Int, NEW t \in Int, Cal!WallClock(z, t) = w
    PROVE  Cal!InstantOf(z, w) <= t
<1>1. PICK first : first = w - Cal!OffsetMinutes(z, w)
    OBVIOUS
<1>2. PICK second : second = w - Cal!OffsetMinutes(z, first)
    OBVIOUS
<1>3. first \in Int /\ second \in Int
    BY <1>1, <1>2, TwoPasses
<1>4. \/ Cal!WallClock(z, first) = w /\ first <= t
      \/ Cal!WallClock(z, second) = w /\ second <= t
    BY <1>1, <1>2, <1>3 DEF ZoneRecords, Cal!OffsetMinutes, Cal!WallClock
<1>5. \/ Cal!WallClock(z, first) = w /\ Cal!WallClock(z, second) # w /\ first <= t
      \/ Cal!WallClock(z, first) # w /\ Cal!WallClock(z, second) = w /\ second <= t
      \/ Cal!WallClock(z, first) = w /\ Cal!WallClock(z, second) = w /\ (first <= t \/ second <= t)
    BY <1>1, <1>2, <1>3, <1>4 DEF ZoneRecords, Cal!OffsetMinutes, Cal!WallClock
<1>6. QED  BY <1>1, <1>2, <1>3, <1>5, TwoPasses

-----------------------------------------------------------------------------
(* The walk tries times the schedule names.                                *)

LEMMA ClockParts ==
    ASSUME NEW h \in Nat \ {0}, NEW q \in Int, NEW m \in 0..(h - 1)
    PROVE  (q * h + m) % h = m /\ (q * h + m) \div h = q
    OBVIOUS

LEMMA DayParts ==
    ASSUME Cal!ClockAssumption, NEW d \in Int, NEW u \in 0..23, NEW m \in 0..(Hour - 1)
    PROVE  LET w == d * Cal!Day + u * Hour + m
           IN /\ w \in Int /\ w % Hour = m
              /\ (w % Cal!Day) \div Hour = u /\ w \div Cal!Day = d
<1>  DEFINE w == d * Cal!Day + u * Hour + m
<1>1. Hour \in Nat \ {0} /\ Cal!Day = 24 * Hour /\ Cal!Day \in Nat \ {0}
    BY DEF Cal!ClockAssumption, Cal!Day
<1>2. w = (24 * d + u) * Hour + m /\ 24 * d + u \in Int
    BY <1>1
<1>3. u * Hour + m \in 0..(Cal!Day - 1) /\ w = d * Cal!Day + (u * Hour + m)
    BY <1>1
<1>4. w % Hour = m
    BY <1>1, <1>2, ClockParts
<1>5. w % Cal!Day = u * Hour + m /\ w \div Cal!Day = d
    <2>1. PICK r : r = u * Hour + m
        OBVIOUS
    <2>2. r \in 0..(Cal!Day - 1) /\ w = d * Cal!Day + r
        BY <1>3, <2>1
    <2>3. (d * Cal!Day + r) % Cal!Day = r /\ (d * Cal!Day + r) \div Cal!Day = d
        BY <1>1, <2>2, ClockParts
    <2>4. QED  BY <2>1, <2>2, <2>3
<1>6. (u * Hour + m) \div Hour = u
    BY <1>1, ClockParts
<1>7. w \in Int
    BY <1>1
<1>8. QED  BY <1>4, <1>5, <1>6, <1>7

LEMMA ZonesAreRecords ==
    ASSUME Cal!ClockAssumption
    PROVE  \A z \in Zones : z \in ZoneRecords
    BY DEF Cal!ClockAssumption, ZoneRecords

LEMMA WalkIsChosen ==
    ASSUME Cal!ClockAssumption, schedule \in Schedules, ~Cal!ScheduleProblem(schedule),
           NEW z \in Zones, NEW after \in Int,
           NEW k \in DOMAIN Cal!Walk(schedule, z, after)
    PROVE  /\ k \in Nat
           /\ Cal!Walk(schedule, z, after)[k] \in Int
           /\ Cal!Chosen(Cal!Walk(schedule, z, after)[k])
<1>  DEFINE start == Cal!Start(z, after)
            walk  == Cal!Walk(schedule, z, after)
            days  == {j \in Cal!Ahead(schedule) : Cal!Suits(schedule, start \div Cal!Day + j)}
<1>1. Hour \in Nat \ {0} /\ Cal!Day \in Nat \ {0} /\ start \in Int
    BY ZonesAreRecords, ClockType DEF Cal!ClockAssumption, Cal!Day, Cal!Start
<1>2. /\ schedule.minute \in 0..(Hour - 1)
      /\ schedule.hour \in (0..23) \cup {NoInstant}
    BY DEF Cal!ClockAssumption
<1>3. Cal!Ahead(schedule) \subseteq Nat
    BY DEF Cal!Ahead
<1>4. start \div Hour \in Int /\ start \div Cal!Day \in Int
    BY <1>1
<1>5. CASE schedule.cadence = "hourly"
    <2>1. walk = [j \in Cal!Ahead(schedule) |-> (start \div Hour + j) * Hour + schedule.minute]
        BY <1>5 DEF Cal!Walk
    <2>2. k \in Nat /\ walk[k] = (start \div Hour + k) * Hour + schedule.minute
        BY <2>1, <1>3
    <2>3. walk[k] \in Int /\ walk[k] % Hour = schedule.minute
        <3>1. start \div Hour + k \in Int
            BY <2>2, <1>4
        <3>2. PICK q \in Int : q = start \div Hour + k
            BY <3>1
        <3>3. PICK m \in 0..(Hour - 1) : m = schedule.minute
            BY <1>2
        <3>4. walk[k] = q * Hour + m
            BY <2>2, <3>2, <3>3
        <3>5. (q * Hour + m) % Hour = m /\ q * Hour + m \in Int
            <4>1. (q * Hour + m) % Hour = m
                BY <1>1, ClockParts
            <4>2. q * Hour \in Int /\ m \in Int
                BY <1>1
            <4>3. QED  BY <4>1, <4>2
        <3>6. QED  BY <3>3, <3>4, <3>5
    <2>4. QED  BY <2>2, <2>3, <1>5 DEF Cal!Chosen
<1>6. CASE schedule.cadence # "hourly"
    <2>1. walk = [j \in days |->
                    (start \div Cal!Day + j) * Cal!Day + schedule.hour * Hour + schedule.minute]
        BY <1>6 DEF Cal!Walk
    <2>2. /\ k \in Nat /\ Cal!Suits(schedule, start \div Cal!Day + k)
          /\ walk[k] = (start \div Cal!Day + k) * Cal!Day + schedule.hour * Hour + schedule.minute
        BY <2>1, <1>3
    <2>3. schedule.hour \in 0..23
        BY <1>2, <1>6 DEF Cal!ScheduleProblem
    <2>4. start \div Cal!Day + k \in Int
        BY <2>2, <1>4
    <2>5. /\ walk[k] \in Int /\ walk[k] % Hour = schedule.minute
          /\ (walk[k] % Cal!Day) \div Hour = schedule.hour
          /\ walk[k] \div Cal!Day = start \div Cal!Day + k
        <3>1. PICK d \in Int : d = start \div Cal!Day + k
            BY <2>4
        <3>2. PICK u \in 0..23 : u = schedule.hour
            BY <2>3
        <3>3. PICK m \in 0..(Hour - 1) : m = schedule.minute
            BY <1>2
        <3>4. walk[k] = d * Cal!Day + u * Hour + m
            BY <2>2, <3>1, <3>2, <3>3
        <3>5. LET w == d * Cal!Day + u * Hour + m
              IN /\ w \in Int /\ w % Hour = m
                 /\ (w % Cal!Day) \div Hour = u /\ w \div Cal!Day = d
            BY DayParts
        <3>6. QED  BY <3>1, <3>2, <3>3, <3>4, <3>5
    <2>6. QED  BY <2>2, <2>5 DEF Cal!Chosen
<1>7. QED  BY <1>5, <1>6

(* The next occurrence is one of them, and ahead.                          *)
LEMMA NextIsNamed ==
    ASSUME Cal!ClockAssumption, schedule \in Schedules, ~Cal!ScheduleProblem(schedule),
           NEW z \in Zones, NEW after \in Int,
           Cal!Later(schedule, z, after) # {}
    PROVE  /\ Cal!NextOccurrence(schedule, z, after) \in Int
           /\ Cal!NextOccurrence(schedule, z, after) > after
           /\ \E w \in Int :
                 Cal!Chosen(w) /\ Cal!NextOccurrence(schedule, z, after) = Cal!InstantOf(z, w)
<1>  DEFINE walk == Cal!Walk(schedule, z, after)
            k    == Cal!Min(Cal!Later(schedule, z, after))
<1>1. Cal!Later(schedule, z, after) \in SUBSET Nat
    BY WalkIsChosen DEF Cal!Later
<1>2. k \in Cal!Later(schedule, z, after)
    BY <1>1, Smallest
<1>3. k \in DOMAIN walk /\ Cal!InstantOf(z, walk[k]) > after
    BY <1>2 DEF Cal!Later
<1>4. walk[k] \in Int /\ Cal!Chosen(walk[k])
    BY <1>3, WalkIsChosen
<1>5. Cal!NextOccurrence(schedule, z, after) = Cal!InstantOf(z, walk[k])
    BY DEF Cal!NextOccurrence
<1>6. Cal!InstantOf(z, walk[k]) \in Int
    BY <1>4, InstantType, ZonesAreRecords
<1>7. QED  BY <1>3, <1>4, <1>5, <1>6

-----------------------------------------------------------------------------
(* The mission's row.                                                      *)

DueIsNamed == standing = "active" => \E w \in Int : Cal!Chosen(w) /\ due = Cal!InstantOf(zone, w)

ClockIInv == Cal!TypeOK /\ (standing # "none" => ~Cal!ScheduleProblem(schedule)) /\ DueIsNamed

(* What a schedule names does not change with the row.                     *)
LEMMA SameNames ==
    ASSUME UNCHANGED <<zone, schedule>>
    PROVE  /\ \A w \in Int : Cal!Chosen(w)' <=> Cal!Chosen(w)
           /\ \A w \in Int : Cal!InstantOf(zone, w)' = Cal!InstantOf(zone, w)
           /\ Cal!ScheduleProblem(schedule)' <=> Cal!ScheduleProblem(schedule)
<1>1. \A w \in Int : Cal!Chosen(w)' <=> Cal!Chosen(w)
    BY DEF Cal!Chosen, Cal!Suits, Cal!DayOfWeek
<1>2. \A w \in Int : Cal!InstantOf(zone, w)' = Cal!InstantOf(zone, w)
    BY DEF Cal!InstantOf, Cal!OffsetMinutes, Cal!WallClock
<1>3. Cal!ScheduleProblem(schedule)' <=> Cal!ScheduleProblem(schedule)
    BY DEF Cal!ScheduleProblem
<1>4. QED  BY <1>1, <1>2, <1>3

LEMMA ClockInductive ==
    ASSUME Cal!ClockAssumption, ClockIInv, [Cal!Next]_Cal!vars
    PROVE  ClockIInv'
<1>  USE DEF ClockIInv, Cal!TypeOK
<1>1. instant \in Int
    OBVIOUS
<1>2. ASSUME NEW t, t = Cal!NextOccurrence(schedule, zone, instant), ~Cal!ScheduleProblem(schedule),
             Cal!Later(schedule, zone, instant) # {},
             standing' = "active", due' = t, UNCHANGED <<zone, schedule, instant>>
      PROVE  ClockIInv'
    <2>1. /\ t \in Int
          /\ \E w \in Int : Cal!Chosen(w) /\ t = Cal!InstantOf(zone, w)
        BY <1>1, <1>2, NextIsNamed
    <2>2. PICK w \in Int : Cal!Chosen(w) /\ t = Cal!InstantOf(zone, w)
        BY <2>1
    <2>3. Cal!Chosen(w)' /\ due' = Cal!InstantOf(zone, w)'
        BY <1>2, <2>2, SameNames
    <2>4. Cal!ScheduleProblem(schedule)' <=> Cal!ScheduleProblem(schedule)
        BY <1>2, SameNames
    <2>5. Cal!TypeOK'
        BY <1>2, <2>1 DEF Cal!ClockAssumption
    <2>6. DueIsNamed'
        BY <2>3 DEF DueIsNamed
    <2>7. QED  BY <1>2, <2>4, <2>5, <2>6
<1>3. CASE Cal!Create
    BY <1>2, <1>3 DEF Cal!Create, Cal!Begins, Cal!NextRunAt
<1>4. CASE Cal!Resume
    BY <1>2, <1>4 DEF Cal!Resume, Cal!Begins, Cal!NextRunAt
<1>5. CASE Cal!Pause
    <2>1. standing' = "paused" /\ due' = NoInstant /\ UNCHANGED <<zone, schedule, instant>>
        BY <1>5 DEF Cal!Pause, Cal!NextRunAt
    <2>2. Cal!ScheduleProblem(schedule)' <=> Cal!ScheduleProblem(schedule)
        BY <2>1, SameNames
    <2>3. standing = "active"
        BY <1>5 DEF Cal!Pause
    <2>4. QED  BY <2>1, <2>2, <2>3 DEF DueIsNamed
<1>6. CASE Cal!Consider
    BY <1>2, <1>6 DEF Cal!Consider, Cal!From
<1>7. CASE Cal!Tick
    <2>1. instant' = instant + 1 /\ UNCHANGED <<zone, schedule, standing, due>>
        BY <1>7 DEF Cal!Tick
    <2>2. Cal!ScheduleProblem(schedule)' <=> Cal!ScheduleProblem(schedule)
        BY <2>1, SameNames
    <2>3. DueIsNamed'
        BY <2>1, SameNames DEF DueIsNamed
    <2>4. QED  BY <2>1, <2>2, <2>3
<1>8. CASE UNCHANGED Cal!vars
    <2>1. UNCHANGED <<zone, schedule, instant, standing, due>>
        BY <1>8 DEF Cal!vars
    <2>2. Cal!ScheduleProblem(schedule)' <=> Cal!ScheduleProblem(schedule)
        BY <2>1, SameNames
    <2>3. DueIsNamed'
        BY <2>1, SameNames DEF DueIsNamed
    <2>4. QED  BY <2>1, <2>2, <2>3
<1>9. QED  BY <1>3, <1>4, <1>5, <1>6, <1>7, <1>8 DEF Cal!Next

LEMMA ClockInvariant ==
    ASSUME Cal!ClockAssumption
    PROVE  Cal!Spec => []ClockIInv
<1>1. Cal!Init => ClockIInv
    <2>1. Cal!Day \in Nat
        BY DEF Cal!ClockAssumption, Cal!Day
    <2>2. QED  BY <2>1 DEF Cal!Init, ClockIInv, Cal!TypeOK, DueIsNamed
<1>2. ClockIInv /\ [Cal!Next]_Cal!vars => ClockIInv'
    BY ClockInductive
<1>3. QED  BY <1>1, <1>2, PTL DEF Cal!Spec

(* Every variable keeps its type, and a mission has a next run while it is *)
(* active: resuming finds one, pausing takes it away.                      *)
THEOREM ScheduleTypesHold ==
    ASSUME Cal!ClockAssumption
    PROVE  Cal!Spec => []Cal!TypeOK
<1>1. ClockIInv => Cal!TypeOK
    BY DEF ClockIInv
<1>2. Cal!Spec => []ClockIInv
    BY ClockInvariant
<1>3. QED  BY <1>1, <1>2, PTL

(* A run is due at a time its schedule names, in every timezone: or, when  *)
(* the clocks skip that time, as long after the jump.                      *)
THEOREM DueAsChosen ==
    ASSUME Cal!ClockAssumption
    PROVE  Cal!Spec => []Cal!AsChosen
<1>1. ClockIInv => Cal!AsChosen
    <2>1. SUFFICES ASSUME ClockIInv, standing = "active"
                   PROVE  \E w \in (due - Cal!Reach)..(due + Cal!Reach) :
                              Cal!Chosen(w) /\ due \in Cal!Meant(w)
        BY DEF Cal!AsChosen
    <2>2. PICK w \in Int : Cal!Chosen(w) /\ due = Cal!InstantOf(zone, w)
        BY <2>1 DEF ClockIInv, DueIsNamed
    <2>3. /\ zone \in ZoneRecords /\ Cal!Reach \in Nat
          /\ zone.before \in (-Cal!Reach)..Cal!Reach /\ zone.after \in (-Cal!Reach)..Cal!Reach
        BY <2>1, ZonesAreRecords DEF Cal!ClockAssumption, ClockIInv, Cal!TypeOK, Cal!Reach
    <2>4. due \in Int
        BY <2>2, <2>3, InstantType
    <2>5. \A t \in Int : Cal!WallClock(zone, t) = w => t \in (w - Cal!Reach)..(w + Cal!Reach)
        BY <2>3 DEF ZoneRecords, Cal!WallClock, Cal!OffsetMinutes
    <2>6. CASE \E t \in Int : Cal!WallClock(zone, t) = w
        <3>1. Cal!WallClock(zone, due) = w
            BY <2>2, <2>3, <2>6, ShowsTheTime
        <3>2. due \in Cal!Times(w)
            BY <2>4, <2>5, <3>1 DEF Cal!Times
        <3>3. due \in Cal!Meant(w) /\ w \in (due - Cal!Reach)..(due + Cal!Reach)
            BY <2>3, <2>4, <2>5, <3>1, <3>2 DEF Cal!Meant
        <3>4. QED  BY <2>2, <3>3
    <2>7. CASE \A t \in Int : Cal!WallClock(zone, t) # w
        <3>1. due = zone.jump + (w - (zone.jump + zone.before))
            BY <2>2, <2>3, <2>7, LandsAfterTheJump
        <3>2. Cal!Times(w) = {}
            BY <2>3, <2>7 DEF Cal!Times
        <3>3. due \in Cal!Meant(w)
            BY <3>1, <3>2 DEF Cal!Meant
        <3>4. w \in (due - Cal!Reach)..(due + Cal!Reach)
            BY <2>3, <3>1 DEF ZoneRecords
        <3>5. QED  BY <2>2, <3>3, <3>4
    <2>8. QED  BY <2>6, <2>7
<1>2. Cal!Spec => []ClockIInv
    BY ClockInvariant
<1>3. QED  BY <1>1, <1>2, PTL

(* The next run is ahead of the instant it is found, however late the      *)
(* scheduler looked and wherever it looks from: nothing is caught up.      *)
THEOREM NextRunIsAhead ==
    ASSUME Cal!ClockAssumption
    PROVE  Cal!Spec => Cal!NextIsAhead
<1>1. ClockIInv /\ [Cal!Next]_Cal!vars => [Cal!Sets => due' > instant]_Cal!vars
    <2>1. SUFFICES ASSUME ClockIInv, Cal!Next, Cal!Sets
                   PROVE  due' > instant
        BY DEF Cal!vars, Cal!Sets
    <2>2. /\ instant \in Int /\ zone \in Zones /\ schedule \in Schedules
          /\ standing # "none" => ~Cal!ScheduleProblem(schedule)
        BY <2>1 DEF ClockIInv, Cal!TypeOK
    <2>3. CASE Cal!Create
        BY <2>2, <2>3, NextIsNamed DEF Cal!Create, Cal!Begins, Cal!NextRunAt
    <2>4. CASE Cal!Resume
        BY <2>2, <2>4, NextIsNamed DEF Cal!Resume, Cal!Begins, Cal!NextRunAt
    <2>5. CASE Cal!Pause
        BY <2>1, <2>5 DEF Cal!Pause, Cal!NextRunAt, Cal!Sets
    <2>6. CASE Cal!Consider
        BY <2>2, <2>6, NextIsNamed DEF Cal!Consider, Cal!From
    <2>7. CASE Cal!Tick
        BY <2>1, <2>7 DEF Cal!Tick, Cal!Sets
    <2>8. QED  BY <2>1, <2>3, <2>4, <2>5, <2>6, <2>7 DEF Cal!Next
<1>2. Cal!Spec => []ClockIInv
    BY ClockInvariant
<1>3. QED  BY <1>1, <1>2, PTL DEF Cal!Spec, Cal!NextIsAhead

(* Where the clocks go back only west of Greenwich, a run is due the first *)
(* time its time is shown.  East of it the code takes the second.          *)
THEOREM FirstTimeWest ==
    ASSUME Cal!ClockAssumption, \A z \in Zones : z.before <= 0 \/ z.before <= z.after
    PROVE  Cal!Spec => []Cal!TakenTheFirstTime
<1>1. ClockIInv => Cal!TakenTheFirstTime
    <2>1. SUFFICES ASSUME ClockIInv, standing = "active",
                          NEW t \in Cal!Times(Cal!WallClock(zone, due))
                   PROVE  due <= t
        BY DEF Cal!TakenTheFirstTime
    <2>2. PICK w \in Int : Cal!Chosen(w) /\ due = Cal!InstantOf(zone, w)
        BY <2>1 DEF ClockIInv, DueIsNamed
    <2>3. zone \in ZoneRecords /\ (zone.before <= 0 \/ zone.before <= zone.after) /\ Cal!Reach \in Nat
        BY <2>1, ZonesAreRecords DEF Cal!ClockAssumption, ClockIInv, Cal!TypeOK, Cal!Reach
    <2>4. due \in Int /\ Cal!WallClock(zone, due) \in Int
        BY <2>2, <2>3, InstantType, ClockType
    <2>5. t \in Int /\ Cal!WallClock(zone, t) = Cal!WallClock(zone, due)
        BY <2>3, <2>4 DEF Cal!Times
    <2>6. CASE \E u \in Int : Cal!WallClock(zone, u) = w
        <3>1. Cal!WallClock(zone, t) = w
            BY <2>2, <2>3, <2>5, <2>6, ShowsTheTime
        <3>2. QED  BY <2>2, <2>3, <2>5, <3>1, FirstTime
    <2>7. CASE \A u \in Int : Cal!WallClock(zone, u) # w
        <3>1. due = w - zone.before
            BY <2>2, <2>3, <2>7, LandsAfterTheJump DEF ZoneRecords
        <3>2. Cal!WallClock(zone, w - zone.before) # w /\ Cal!WallClock(zone, w - zone.after) # w
            BY <2>3, <2>7 DEF ZoneRecords
        <3>3. zone.before < zone.after
            BY <2>3, <3>2 DEF ZoneRecords, Cal!WallClock, Cal!OffsetMinutes
        <3>4. QED  BY <2>3, <2>4, <2>5, <3>3 DEF ZoneRecords, Cal!WallClock, Cal!OffsetMinutes
    <2>8. QED  BY <2>6, <2>7
<1>2. Cal!Spec => []ClockIInv
    BY ClockInvariant
<1>3. QED  BY <1>1, <1>2, PTL
=============================================================================
