---------------------------- MODULE ScheduleClock ----------------------------
(***************************************************************************)
(* When a continuous mission is due: the wall-clock arithmetic that finds  *)
(* the next occurrence of a schedule in its timezone, and the row that     *)
(* carries it while the mission is created, run, skipped, paused and       *)
(* resumed by a scheduler that may look late.                              *)
(*                                                                         *)
(* Instants and wall-clock times are counted in ticks, a fraction of an    *)
(* hour; a date is the number of a day.  A timezone is its offset before   *)
(* and after one jump of its clocks.  What a run does, and two schedulers  *)
(* racing for one, is in ContinuousMissions.                               *)
(***************************************************************************)
EXTENDS Integers, FiniteSetsExt

CONSTANTS
    Hour,          \* ticks in an hour
    Zones,         \* timezones: [before, after: offsets in ticks, jump: instant]
    Schedules,     \* what people ask for, sound or not
    None,          \* no hour, day or instant
    Horizon,       \* bound: the last instant
    MaxLate        \* bound: how late a scheduler looks

Day   == 24 * Hour
Reach == 14 * Hour    \* no clock is further from UTC

Cadences == {"hourly", "daily", "weekdays", "weekly"}

ASSUME ClockAssumption ==
    /\ Hour \in Nat \ {0} /\ Horizon \in Nat /\ MaxLate \in Nat
    /\ Zones \subseteq [before: Int, after: Int, jump: Nat]
    /\ \A z \in Zones : z.before \in -Reach..Reach /\ z.after \in -Reach..Reach
    /\ Schedules \subseteq [cadence: Cadences, minute: 0..(Hour - 1),
                            hour: (0..23) \cup {None}, dayOfWeek: (0..6) \cup {None}]
    /\ None \notin Int

VARIABLES
    zone, schedule,   \* the schedule, which nothing changes
    now,              \* the instant it is
    status,           \* the mission's, "none" before it is created
    due               \* the instant of its next run

vars == <<zone, schedule, now, status, due>>

-----------------------------------------------------------------------------
(* Wall clocks.                                                            *)

OffsetMinutes(z, t) == IF t < z.jump THEN z.before ELSE z.after

WallClock(z, t) == t + OffsetMinutes(z, t)

(* Mutant: the offset is looked up once.                                   *)
MutOnePass(z, wall) == wall - OffsetMinutes(z, wall)

(* The instant a wall-clock time happens: the offset at the naive guess,   *)
(* then at the instant that gives.                                         *)
InstantOf(z, wall) ==
    LET first    == wall - OffsetMinutes(z, wall)
        second   == wall - OffsetMinutes(z, first)
        matching == {t \in {first, second} : WallClock(z, t) = wall}
    IN IF matching = {} THEN Max({first, second}) ELSE Min(matching)

(* Day 0 is a Sunday.                                                      *)
DayOfWeek(day) == day % 7

Suits(s, day) ==
    CASE s.cadence = "weekdays" -> DayOfWeek(day) \notin {0, 6}
      [] s.cadence = "weekly"   -> DayOfWeek(day) = s.dayOfWeek
      [] OTHER                  -> TRUE

Ahead(s) == IF s.cadence = "hourly" THEN 0..48 ELSE 0..8

(* Mutant: the walk starts on the server's day.                            *)
MutServerDay(z, t) == t

Start(z, t) == WallClock(z, t)

(* The wall-clock times to try, in order: hours ahead, or days that suit.  *)
Walk(s, z, after) ==
    LET start == Start(z, after)
    IN IF s.cadence = "hourly"
       THEN [k \in Ahead(s) |-> (start \div Hour + k) * Hour + s.minute]
       ELSE LET days == {k \in Ahead(s) : Suits(s, start \div Day + k)}
            IN [k \in days |-> (start \div Day + k) * Day + s.hour * Hour + s.minute]

Later(s, z, after) ==
    LET walk == Walk(s, z, after) IN {k \in DOMAIN walk : InstantOf(z, walk[k]) > after}

(* Mutant: every instant that shows the time counts.                       *)
MutEachTime(s, z, after) ==
    LET walk == Walk(s, z, after)
        shows(w) == {t \in {w - z.before, w - z.after} : WallClock(z, t) = w}
        times == UNION {shows(walk[k]) \cup {InstantOf(z, walk[k])} : k \in DOMAIN walk}
    IN Min({t \in times : t > after})

(* The first of them strictly after; the walk has one, or it throws.       *)
NextOccurrence(s, z, after) == InstantOf(z, Walk(s, z, after)[Min(Later(s, z, after))])

ScheduleProblem(s) ==
    \/ (s.cadence = "hourly") # (s.hour = None)
    \/ (s.cadence = "weekly") # (s.dayOfWeek # None)

-----------------------------------------------------------------------------
(* The mission's row.                                                      *)

Init ==
    /\ zone \in Zones /\ schedule \in Schedules
    /\ now = Day
    /\ status = "none" /\ due = None

(* Only an active mission has a next run.                                  *)
NextRunAt(to, t) == IF to = "active" THEN t ELSE None

Begins(from, t) ==
    /\ status = from /\ ~ScheduleProblem(schedule) /\ Later(schedule, zone, now) # {}
    /\ status' = "active" /\ due' = NextRunAt("active", t)
    /\ UNCHANGED <<zone, schedule, now>>

Create == Begins("none", NextOccurrence(schedule, zone, now))

Resume == Begins("paused", NextOccurrence(schedule, zone, now))

Pause ==
    /\ status = "active" /\ status' = "paused"
    /\ due' = NextRunAt("paused", None)
    /\ UNCHANGED <<zone, schedule, now>>

From == now

(* A due run is started or, when the last one is still going, skipped.     *)
Consider ==
    /\ status = "active" /\ due <= now /\ Later(schedule, zone, From) # {}
    /\ due' = NextOccurrence(schedule, zone, From)
    /\ UNCHANGED <<zone, schedule, now, status>>

Tick ==
    /\ now < Horizon /\ (status = "active" => now < due + MaxLate)
    /\ now' = now + 1
    /\ UNCHANGED <<zone, schedule, status, due>>

Next == Create \/ Resume \/ Pause \/ Consider \/ Tick

Spec == Init /\ [][Next]_vars

-----------------------------------------------------------------------------
(* What a schedule means, from the two readings of a clock alone.          *)

(* The instants that show a wall-clock time.                               *)
Times(wall) == {t \in (wall - Reach)..(wall + Reach) : WallClock(zone, t) = wall}

(* A time the clocks skipped is meant as long after the jump as it would   *)
(* have been, had they not jumped.                                         *)
Meant(wall) ==
    IF Times(wall) # {} THEN Times(wall)
    ELSE {zone.jump + (wall - (zone.jump + zone.before))}

Chosen(wall) ==
    /\ wall % Hour = schedule.minute
    /\ schedule.cadence # "hourly" =>
        /\ (wall % Day) \div Hour = schedule.hour
        /\ Suits(schedule, wall \div Day)

(* Every variable has its type; a mission has a next run while active.     *)
TypeOK ==
    /\ zone \in Zones /\ schedule \in Schedules /\ now \in Nat
    /\ status \in {"none", "active", "paused"}
    /\ due \in Int \cup {None} /\ (due # None) = (status = "active")

(* Whatever instant it is, a sound schedule has an occurrence ahead.       *)
AlwaysFound == ~ScheduleProblem(schedule) => Later(schedule, zone, now) # {}

(* A run is due at a time the schedule names on its owner's clock, or as   *)
(* long after a jump as the time the jump skipped.                         *)
AsChosen == status = "active" => \E w \in (due - Reach)..(due + Reach) : Chosen(w) /\ due \in Meant(w)

Sets == due' # due /\ due' # None

(* The next run is always ahead, however late the scheduler looked: runs   *)
(* that were missed are not made up one after another.                     *)
NextIsAhead == [][Sets => due' > now]_vars

(* The walk always finds the next run, which lies ahead, and no time the   *)
(* schedule names is passed over between now and then.                     *)
NonePassedOver ==
    [][/\ AlwaysFound
       /\ Sets =>
            /\ due' > now
            /\ \A w \in (now - Reach)..(due' + Reach) :
                 Chosen(w) => \E t \in Meant(w) : t <= now \/ t >= due']_vars

(* A day, or an hour, that had its run has no second one, although its     *)
(* clock may show the time twice.                                          *)
OnceEach ==
    [][status = "active" /\ Sets =>
         IF schedule.cadence = "hourly" THEN WallClock(zone, due') > WallClock(zone, due)
         ELSE WallClock(zone, due') \div Day > WallClock(zone, due) \div Day]_vars

(* A time that happens twice is taken the first time.                      *)
TakenTheFirstTime ==
    status = "active" => \A t \in Times(WallClock(zone, due)) : due <= t
=============================================================================
