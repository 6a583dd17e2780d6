------------------------ MODULE ExecutionQueueProofs ------------------------
(***************************************************************************)
(* Proofs about ExecutionQueue for every set of missions, jobs, workers    *)
(* and callers and every attempt limit: its invariant, what its rows do,   *)
(* and that it implements MissionQueue.                                    *)
(***************************************************************************)
EXTENDS ExecutionQueue, TLAPS

USE QueueAssumption

-----------------------------------------------------------------------------
(* The rows the operations build are rows.                                 *)

(* An inserted row is a row.                                               *)
LEMMA InsertedRow ==
    ASSUME NEW w \in Works, NEW r \in Reasons \cup {None}
    PROVE  AbsentRow \in Row /\ NewRow(w, r) \in Row /\ NewRow(w, r).work = w
    BY DEF Row, AbsentRow, NewRow, Statuses, Active, Settled

(* What a worker remembers of rows is a set of sightings.                  *)
LEMMA Sightings ==
    ASSUME TypeOK, NEW S \in SUBSET Jobs
    PROVE  Sight(S) \subseteq Sighting
    BY DEF TypeOK, Sight, Sighting, Row

(* Replacing one row by another row of a mission keeps the table typed.    *)
LEMMA OneRowChanged ==
    ASSUME TypeOK, NEW j \in Jobs, NEW row \in Row, row.work \in Works,
           job' = [job EXCEPT ![j] = row]
    PROVE  /\ job' \in [Jobs -> Row]
           /\ \A i \in Jobs : job'[i].status # "absent" => job'[i].work \in Works
    BY DEF TypeOK

(* A job that is queued or running belongs to a mission, and the updates   *)
(* made to it give rows of the same mission.                               *)
LEMMA ActiveRow ==
    ASSUME TypeOK, NEW j \in Jobs, job[j].status \in Active
    PROVE  job[j] \in Row /\ job[j].work \in Works
    BY DEF TypeOK, Active

(* Nothing of the claim on a row changes.                                  *)
SameClaim(row, new) ==
    /\ new.work = row.work /\ new.status = row.status
    /\ new.attempts = row.attempts /\ new.holder = row.holder

LEMMA ReleasedRow ==
    ASSUME NEW row \in Row, NEW due \in BOOLEAN
    PROVE  /\ Released(row, due) \in Row /\ Released(row, due).work = row.work
           /\ Released(row, due).status = "queued" /\ Released(row, due).attempts = row.attempts
    BY DEF Released, Row, Statuses, Active

LEMMA ClosedRow ==
    ASSUME NEW row \in Row, NEW st \in Settled
    PROVE  /\ Closed(row, st) \in Row /\ Closed(row, st).work = row.work
           /\ Closed(row, st).status = st /\ Closed(row, st).attempts = row.attempts
    BY DEF Closed, Row, Statuses

LEMMA TakenRow ==
    ASSUME NEW row \in Row, NEW k \in Workers, NEW n \in Nat
    PROVE  /\ Taken(row, k, n) \in Row /\ Taken(row, k, n).work = row.work
           /\ Taken(row, k, n).status = "running" /\ Taken(row, k, n).attempts = n
           /\ Taken(row, k, n).holder = k
    <1> DEFINE stamp == row.lease + 1
    <1>1. stamp \in Nat
        BY DEF Row
    <1> HIDE DEF stamp
    <1>2. [row EXCEPT !.status = "running", !.attempts = n, !.holder = k, !.lease = stamp,
                      !.lapsed = FALSE] \in Row
        BY <1>1 DEF Row, Statuses, Active
    <1> QED
        BY <1>2 DEF Taken, stamp, Row

LEMMA RenewedRow ==
    ASSUME NEW row \in Row
    PROVE  Renewed(row) \in Row /\ SameClaim(row, Renewed(row))
    <1> DEFINE stamp == row.lease + 1
    <1>1. stamp \in Nat
        BY DEF Row
    <1> HIDE DEF stamp
    <1>2. [row EXCEPT !.lease = stamp, !.lapsed = FALSE] \in Row
        BY <1>1 DEF Row
    <1> QED
        BY <1>2 DEF Renewed, stamp, Row, SameClaim

LEMMA ClockedRow ==
    ASSUME NEW row \in Row
    PROVE  /\ [row EXCEPT !.due = TRUE] \in Row /\ SameClaim(row, [row EXCEPT !.due = TRUE])
           /\ [row EXCEPT !.lapsed = TRUE] \in Row /\ SameClaim(row, [row EXCEPT !.lapsed = TRUE])
    BY DEF Row, SameClaim

-----------------------------------------------------------------------------
(* Type correctness, one step per action.                                  *)

LEMMA TypeInit == Init => TypeOK
    <1> SUFFICES ASSUME Init PROVE TypeOK
        OBVIOUS
    <1>1. AbsentRow \in Row
        BY DEF Row, AbsentRow, Statuses
    <1> QED
        BY <1>1 DEF Init, TypeOK, IdleCaller, AbsentRow

LEMMA TypeCaller ==
    ASSUME TypeOK, NEW c \in Callers, CallerStep(c)
    PROVE  TypeOK'
    <1> USE DEF workerVars, writeVars
    <1>1. CASE FindNoActiveJob(c)
        BY <1>1 DEF FindNoActiveJob, TypeOK, IdleCaller
    <1>2. CASE Insert(c)
        <2> PICK j \in Jobs : job' = [job EXCEPT ![j] = NewRow(caller[c].work, caller[c].reason)]
            BY <1>2 DEF Insert
        <2>1. caller[c].work \in Works /\ caller[c].reason \in Reasons \cup {None}
            BY <1>2 DEF Insert, TypeOK
        <2>2. /\ job' \in [Jobs -> Row]
              /\ \A i \in Jobs : job'[i].status # "absent" => job'[i].work \in Works
            BY <2>1, InsertedRow, OneRowChanged
        <2>3. /\ caller' \in [Callers -> [pc: {"idle", "insert", "reread"}, work: Works \cup {None},
                                          reason: Reasons \cup {None}]]
              /\ \A d \in Callers : caller'[d].pc # "idle" => caller'[d].work \in Works
            BY <1>2 DEF Insert, IdleCaller, TypeOK
        <2> QED
            BY <1>2, <2>2, <2>3 DEF Insert, TypeOK
    <1>3. CASE InsertRejected(c)
        BY <1>3 DEF InsertRejected, TypeOK
    <1>4. CASE Reread(c)
        <2>1. /\ caller' \in [Callers -> [pc: {"idle", "insert", "reread"}, work: Works \cup {None},
                                          reason: Reasons \cup {None}]]
              /\ \A d \in Callers : caller'[d].pc # "idle" => caller'[d].work \in Works
            BY <1>4 DEF Reread, IdleCaller, TypeOK
        <2> QED
            BY <1>4, <2>1 DEF Reread, TypeOK
    <1> QED
        BY <1>1, <1>2, <1>3, <1>4 DEF CallerStep

LEMMA TypeJob ==
    ASSUME TypeOK, NEW j \in Jobs, Cancel(j) \/ ClockStep(j)
    PROVE  TypeOK'
    <1>1. job[j].status \in Active
        BY DEF Cancel, ClockStep, LeaseLapses, BackoffElapses, Active
    <1>2. job[j] \in Row /\ job[j].work \in Works
        BY <1>1, ActiveRow
    <1>3. PICK row \in Row : row.work = job[j].work /\ job' = [job EXCEPT ![j] = row]
        <2>1. CASE Cancel(j)
            <3>1. job' = [job EXCEPT ![j] = Closed(job[j], "cancelled")]
                BY <2>1 DEF Cancel
            <3> QED
                BY <1>2, <3>1, ClosedRow DEF Settled
        <2>2. CASE LeaseLapses(j)
            <3>1. job' = [job EXCEPT ![j] = [job[j] EXCEPT !.lapsed = TRUE]]
                BY <2>2 DEF LeaseLapses
            <3> QED
                BY <1>2, <3>1, ClockedRow DEF SameClaim
        <2>3. CASE BackoffElapses(j)
            <3>1. job' = [job EXCEPT ![j] = [job[j] EXCEPT !.due = TRUE]]
                BY <2>3 DEF BackoffElapses
            <3> QED
                BY <1>2, <3>1, ClockedRow DEF SameClaim
        <2> QED
            BY <2>1, <2>2, <2>3 DEF ClockStep
    <1>4. /\ job' \in [Jobs -> Row]
          /\ \A i \in Jobs : job'[i].status # "absent" => job'[i].work \in Works
        BY <1>2, <1>3, OneRowChanged
    <1> QED
        BY <1>4 DEF Cancel, ClockStep, LeaseLapses, BackoffElapses, TypeOK, workerVars, writeVars

LEMMA TypeLoop ==
    ASSUME TypeOK, NEW k \in Workers, LoopStep(k) \/ LoopFault(k)
    PROVE  TypeOK'
    <1> USE DEF writeVars
    <1>1. CASE Start(k)
        BY <1>1 DEF Start, Goto, TypeOK
    <1>2. CASE ReadLapsed(k)
        <2>1. Sight(LapsedJobs) \subseteq Sighting
            BY Sightings DEF LapsedJobs
        <2> QED
            BY <1>2, <2>1 DEF ReadLapsed, Goto, TypeOK
    <1>3. CASE Recover(k)
        <2> PICK s \in seen[k] :
                /\ Goto(k, "recovering", FALSE, seen[k] \ {s})
                /\ job' = IF LeaseUnchanged(s)
                          THEN [job EXCEPT ![s.job] = IF AttemptsRemain(s.attempts)
                                                      THEN Released(@, TRUE)
                                                      ELSE Closed(@, "failed")]
                          ELSE job
            BY <1>3 DEF Recover
        <2>1. s.job \in Jobs
            BY DEF TypeOK, Sighting
        <2>2. /\ job' \in [Jobs -> Row]
              /\ \A i \in Jobs : job'[i].status # "absent" => job'[i].work \in Works
            <3>1. CASE ~LeaseUnchanged(s)
                BY <3>1 DEF TypeOK
            <3>2. CASE LeaseUnchanged(s)
                <4> DEFINE row == IF AttemptsRemain(s.attempts)
                                  THEN Released(job[s.job], TRUE)
                                  ELSE Closed(job[s.job], "failed")
                <4>1. job' = [job EXCEPT ![s.job] = row]
                    BY <3>2
                <4>2. row \in Row /\ row.work \in Works
                    BY <2>1, <3>2, ActiveRow, ReleasedRow, ClosedRow DEF LeaseUnchanged, Active, Settled
                <4> QED
                    BY <2>1, <4>1, <4>2, OneRowChanged
            <3> QED
                BY <3>1, <3>2
        <2> QED
            BY <1>3, <2>2 DEF Recover, Goto, TypeOK
    <1>4. CASE Recovered(k)
        BY <1>4 DEF Recovered, Goto, TypeOK
    <1>5. CASE ReadQueue(k)
        <2> PICK S \in Candidates : Goto(k, "claiming", took[k], Sight(S))
            BY <1>5 DEF ReadQueue
        <2>1. Sight(S) \subseteq Sighting
            BY Sightings DEF Candidates, DueJobs
        <2> QED
            BY <1>5, <2>1 DEF ReadQueue, Goto, TypeOK
    <1>6. CASE TryClaim(k)
        <2> PICK s \in seen[k] : ClaimOf(k, s) \/ ClaimMissed(k, s)
            BY <1>6 DEF TryClaim
        <2>1. s \in Sighting
            BY DEF TypeOK
        <2>2. CASE ClaimOf(k, s)
            <3> DEFINE w == job[s.job].work
                       row == Taken(job[s.job], k, s.attempts + 1)
            <3>1. s.job \in Jobs /\ s.attempts \in Nat /\ job[s.job].status \in Active
                BY <2>1, <2>2 DEF ClaimOf, Claimable, Sighting, Active
            <3>2. w \in Works /\ row \in Row /\ row.work = w
                BY <3>1, ActiveRow, TakenRow, s.attempts + 1 \in Nat
            <3>3. /\ job' \in [Jobs -> Row]
                  /\ \A i \in Jobs : job'[i].status # "absent" => job'[i].work \in Works
                BY <2>2, <3>1, <3>2, OneRowChanged DEF ClaimOf
            <3>4. turn[w] \in Nat /\ turn' \in [Works -> Nat]
                BY <2>2, <3>2 DEF ClaimOf, TypeOK
            <3>5. flight' \subseteq Attempt
                BY <2>2, <3>1, <3>2, <3>4 DEF ClaimOf, TypeOK, Attempt
            <3> QED
                BY <1>6, <2>2, <3>3, <3>4, <3>5 DEF TryClaim, ClaimOf, Goto, TypeOK
        <2>3. CASE ClaimMissed(k, s)
            BY <1>6, <2>3 DEF TryClaim, ClaimMissed, Goto, TypeOK
        <2> QED
            BY <2>2, <2>3
    <1>7. CASE StopClaiming(k)
        BY <1>7 DEF StopClaiming, Goto, TypeOK
    <1>8. CASE TickEnds(k)
        BY <1>8 DEF TickEnds, Goto, TypeOK
    <1>9. CASE LoopFault(k)
        <2>1. faults' \in Nat /\ flight' \subseteq Attempt
            BY <1>9, faults + 1 \in Nat DEF LoopFault, LoopError, Stop, Crash, Fault, TypeOK
        <2> QED
            BY <1>9, <2>1 DEF LoopFault, LoopError, Stop, Crash, Goto, TypeOK
    <1> QED
        BY <1>1, <1>2, <1>3, <1>4, <1>5, <1>6, <1>7, <1>8, <1>9 DEF LoopStep

LEMMA TypeAttempt ==
    ASSUME TypeOK, NEW x \in flight, AttemptStep(x)
    PROVE  TypeOK'
    <1> USE DEF workerVars, writeVars
    <1>0. x \in Attempt /\ x.job \in Jobs /\ x.work \in Works /\ x.turn \in Nat
        BY DEF TypeOK, Attempt
    <1>1. CASE AssertClaim(x)
        <2>1. [x EXCEPT !.phase = "executing"] \in Attempt
            BY <1>0 DEF Attempt
        <2> QED
            BY <1>1, <2>1 DEF AssertClaim, Drop, TypeOK
    <1>2. CASE Write(x)
        BY <1>0, <1>2 DEF Write, Drop, TypeOK
    <1>3. CASE Heartbeat(x)
        <2>1. CASE Owns(x)
            <3> DEFINE row == Renewed(job[x.job])
            <3>1. job' = [job EXCEPT ![x.job] = row] /\ flight' = flight
                BY <1>3, <2>1 DEF Heartbeat
            <3>2. row \in Row /\ row.work \in Works
                BY <1>0, <2>1, ActiveRow, RenewedRow DEF SameClaim, Owns, Active
            <3>3. /\ job' \in [Jobs -> Row]
                  /\ \A i \in Jobs : job'[i].status # "absent" => job'[i].work \in Works
                BY <1>0, <3>1, <3>2, OneRowChanged
            <3> QED
                BY <1>3, <3>1, <3>3 DEF Heartbeat, TypeOK
        <2>2. CASE ~Owns(x)
            BY <1>3, <2>2 DEF Heartbeat, Drop, TypeOK
        <2> QED
            BY <2>1, <2>2
    <1>4. CASE EndAttempt(x)
        <2>1. PICK row : /\ Settle(x, row)
                         /\ Current(x) => row \in Row /\ row.work \in Works
            <3>1. Current(x) => job[x.job].status \in Active
                BY DEF Current, Active
            <3>2. CASE Complete(x)
                BY <1>0, <3>1, <3>2, ActiveRow, ClosedRow DEF Complete, Settled
            <3>3. CASE Fail(x)
                BY <1>0, <3>1, <3>3, ActiveRow, ClosedRow DEF Fail, Settled
            <3>4. CASE Requeue(x)
                <4>1. Current(x) => /\ Released(job[x.job], FALSE) \in Row
                                    /\ Released(job[x.job], FALSE).work \in Works
                    BY <1>0, <3>1, ActiveRow, ReleasedRow
                <4> QED
                    BY <3>4, <4>1 DEF Requeue
            <3> QED
                BY <1>4, <3>2, <3>3, <3>4 DEF EndAttempt
        <2>2. /\ job' \in [Jobs -> Row]
              /\ \A i \in Jobs : job'[i].status # "absent" => job'[i].work \in Works
            <3>1. CASE Current(x)
                BY <1>0, <2>1, <3>1, OneRowChanged DEF Settle
            <3>2. CASE ~Current(x)
                BY <2>1, <3>2 DEF Settle, TypeOK
            <3> QED
                BY <3>1, <3>2
        <2> QED
            BY <2>1, <2>2 DEF Settle, Drop, TypeOK
    <1>5. CASE SettlementLost(x)
        BY <1>5 DEF SettlementLost, Drop, Fault, TypeOK
    <1> QED
        BY <1>1, <1>2, <1>3, <1>4, <1>5 DEF AttemptStep

LEMMA TypeNext == TypeOK /\ [Next]_vars => TypeOK'
    <1>1. ASSUME TypeOK, UNCHANGED vars PROVE TypeOK'
        BY <1>1 DEF vars, TypeOK
    <1> QED
        BY <1>1, TypeCaller, TypeJob, TypeLoop, TypeAttempt DEF Next

(* Every variable keeps its type: the rows, the loops' memory and the      *)
(* attempts in flight stay well formed whatever interleaves.               *)
THEOREM TypeCorrect == Spec => []TypeOK
    <1>1. Init => TypeOK
        BY TypeInit
    <1>2. TypeOK /\ [Next]_vars => TypeOK'
        BY TypeNext
    <1> QED
        BY <1>1, <1>2, PTL DEF Spec

-----------------------------------------------------------------------------
(* The inductive invariant.                                                *)

Rest == OneActiveJob /\ AttemptBudget /\ FlightInv /\ WrittenInv

LEMMA InvInit == Init => QueueInv
    <1> SUFFICES ASSUME Init PROVE QueueInv
        OBVIOUS
    <1>1. TypeOK
        BY TypeInit
    <1>2. OneActiveJob /\ AttemptBudget
        BY DEF Init, AbsentRow, OneActiveJob, AttemptBudget, Active
    <1>3. FlightInv /\ WrittenInv
        BY DEF Init, FlightInv, WrittenInv
    <1> QED
        BY <1>1, <1>2, <1>3 DEF QueueInv

(* Attempts may end, and nothing else happen.                              *)
LEMMA FlightShrinks ==
    ASSUME QueueInv, flight' \subseteq flight, job' = job, turn' = turn, written' = written
    PROVE  Rest'
    BY DEF QueueInv, Rest, OneActiveJob, AttemptBudget, FlightInv, WrittenInv, Current

(* An active row may be touched, settled, or put back with attempts left,  *)
(* while attempts end.                                                     *)
LEMMA ActiveRowChanges ==
    ASSUME QueueInv, NEW j \in Jobs, NEW row \in Row, job[j].status \in Active,
           job' = [job EXCEPT ![j] = row], row.work = job[j].work,
           row.attempts = job[j].attempts,
           \/ row.status \in Settled
           \/ row.status = "queued" /\ row.attempts < MaxAttempts
           \/ SameClaim(job[j], row),
           flight' \subseteq flight, turn' = turn, written' = written
    PROVE  Rest'
    <1> USE DEF QueueInv
    <1>0. job'[j] = row /\ \A i \in Jobs : i # j => job'[i] = job[i]
        BY DEF TypeOK
    <1>1. \A i \in Jobs :
            /\ job'[i].status \in Active => job[i].status \in Active
            /\ job'[i].work = job[i].work
            /\ job'[i].attempts = job[i].attempts
            /\ (job'[i].status = "running") =>
                  (job[i].status = "running" /\ job'[i].holder = job[i].holder)
            /\ job[i].status # "absent" => job'[i].status # "absent"
        BY <1>0 DEF SameClaim, Active, Settled
    <1>2. OneActiveJob'
        BY <1>1 DEF OneActiveJob
    <1>3. AttemptBudget'
        BY <1>0, <1>1 DEF AttemptBudget, SameClaim, Settled
    <1>4. \A x \in flight : x.job \in Jobs
        BY DEF TypeOK, Attempt
    <1>5. FlightInv'
        BY <1>1, <1>4 DEF FlightInv, Current
    <1>6. WrittenInv'
        BY DEF WrittenInv
    <1> QED
        BY <1>2, <1>3, <1>5, <1>6 DEF Rest

(* The partial unique index: an inserted job is the mission's only one.    *)
LEMMA InsertKeeps ==
    ASSUME QueueInv, NEW c \in Callers, Insert(c)
    PROVE  Rest'
    <1> USE DEF QueueInv
    <1>1. PICK j \in Jobs : /\ job[j].status = "absent"
                           /\ job' = [job EXCEPT ![j] = NewRow(caller[c].work, caller[c].reason)]
        BY DEF Insert
    <1>2. /\ job'[j].status = "queued" /\ job'[j].attempts = 0 /\ job'[j].work = caller[c].work
          /\ \A i \in Jobs : i # j => job'[i] = job[i]
        BY <1>1 DEF TypeOK, NewRow, AbsentRow
    <1>3. \A i \in Jobs : job[i].status \in Active => job[i].work # caller[c].work
        BY DEF Insert, UniqueIndexAdmits, ActiveJobs
    <1>4. OneActiveJob'
        BY <1>2, <1>3 DEF OneActiveJob
    <1>5. AttemptBudget'
        BY <1>2 DEF AttemptBudget
    <1>6. \A x \in flight : x.job \in Jobs /\ x.job # j
        BY <1>1 DEF TypeOK, Attempt, FlightInv
    <1>7. FlightInv'
        BY <1>2, <1>6 DEF FlightInv, Current, Insert, writeVars
    <1>8. WrittenInv'
        BY DEF WrittenInv, Insert, writeVars
    <1> QED
        BY <1>4, <1>5, <1>7, <1>8 DEF Rest

(* A claim raises the attempt above every attempt still in flight for the  *)
(* job, and the turn above every turn of the mission.                      *)
LEMMA ClaimKeeps ==
    ASSUME QueueInv, NEW k \in Workers, NEW s \in seen[k], ClaimOf(k, s), written' = written
    PROVE  Rest'
    <1> USE DEF QueueInv
    <1> DEFINE j == s.job
               w == job[j].work
               n == s.attempts + 1
               new == [worker |-> k, job |-> j, work |-> w, attempt |-> n,
                       turn |-> turn[w] + 1, phase |-> "claimed"]
    <1>1. /\ j \in Jobs /\ s.attempts \in Nat /\ n \in Nat
          /\ job[j].status = "queued" /\ job[j].attempts = s.attempts
        BY DEF TypeOK, Sighting, ClaimOf, Claimable
    <1>2. job[j] \in Row /\ w \in Works
        BY <1>1, ActiveRow DEF Active
    <1>3. /\ job'[j].status = "running" /\ job'[j].attempts = n /\ job'[j].holder = k
          /\ job'[j].work = w
          /\ \A i \in Jobs : i # j => job'[i] = job[i]
        <2> DEFINE row == Taken(job[j], k, n)
        <2>1. row.status = "running" /\ row.attempts = n /\ row.holder = k /\ row.work = w
            BY <1>1, <1>2, TakenRow
        <2> HIDE DEF row
        <2>2. job' = [job EXCEPT ![j] = row]
            BY DEF ClaimOf, row
        <2> QED
            BY <1>1, <2>1, <2>2 DEF TypeOK
    <1>4. OneActiveJob'
        BY <1>1, <1>3 DEF OneActiveJob, Active
    <1>5. AttemptBudget'
        BY <1>1, <1>3 DEF AttemptBudget
    <1>6. turn[w] \in Nat /\ turn'[w] = turn[w] + 1 /\ \A v \in Works : v # w => turn'[v] = turn[v]
        BY <1>2 DEF ClaimOf, TypeOK
    <1>7. flight' = flight \cup {new}
        BY DEF ClaimOf
    <1>8. \A x \in flight :
            /\ x.job \in Jobs /\ x.work \in Works /\ x.attempt \in Nat /\ x.turn \in Nat
            /\ (x.job = j) => x.attempt < n
        BY <1>1 DEF TypeOK, Attempt, FlightInv
    <1>9. \A x \in flight :
            /\ job'[x.job].status # "absent"
            /\ job'[x.job].work = x.work
            /\ x.attempt <= job'[x.job].attempts
            /\ x.turn <= turn'[x.work]
        <2> TAKE x \in flight
        <2>1. /\ job[x.job].status # "absent" /\ job[x.job].work = x.work
              /\ x.attempt <= job[x.job].attempts /\ x.turn <= turn[x.work]
            BY DEF FlightInv
        <2>2. turn[x.work] \in Nat
            BY <1>8 DEF TypeOK
        <2> QED
            BY <1>1, <1>3, <1>6, <1>8, <2>1, <2>2
    <1>10. \A x \in flight : Current(x)' =>
            /\ x.job # j
            /\ x.work # w
            /\ job'[x.job].holder = x.worker
            /\ x.turn = turn'[x.work]
        <2> SUFFICES ASSUME NEW x \in flight, Current(x)'
                     PROVE  /\ x.job # j /\ x.work # w
                            /\ job'[x.job].holder = x.worker /\ x.turn = turn'[x.work]
            OBVIOUS
        <2>1. x.job # j
            BY <1>3, <1>8, <1>1 DEF Current
        <2>2. Current(x)
            BY <1>3, <1>8, <2>1 DEF Current
        <2>3. x.work # w
            BY <1>1, <1>8, <2>1, <2>2 DEF Current, OneActiveJob, Active, FlightInv
        <2> QED
            BY <1>3, <1>6, <1>8, <2>1, <2>2, <2>3 DEF FlightInv
    <1>11. \A x, y \in flight' : (x.job = y.job /\ x.attempt = y.attempt) => x = y
        BY <1>1, <1>7, <1>8 DEF FlightInv
    <1>12. FlightInv'
        <2>1. ASSUME NEW x \in flight'
              PROVE  /\ job'[x.job].status # "absent"
                     /\ job'[x.job].work = x.work
                     /\ x.attempt <= job'[x.job].attempts
                     /\ x.turn <= turn'[x.work]
                     /\ Current(x)' => job'[x.job].holder = x.worker /\ x.turn = turn'[x.work]
            <3>1. CASE x \in flight
                BY <1>9, <1>10, <3>1
            <3>2. CASE x = new
                BY <1>1, <1>3, <1>6, <3>2
            <3> QED
                BY <1>7, <3>1, <3>2
        <2> QED
            BY <1>11, <2>1 DEF FlightInv
    <1>13. WrittenInv'
        BY <1>6 DEF WrittenInv, TypeOK
    <1> QED
        BY <1>4, <1>5, <1>12, <1>13 DEF Rest

LEMMA RestNext == QueueInv /\ [Next]_vars => Rest'
    <1> SUFFICES ASSUME QueueInv, [Next]_vars PROVE Rest'
        OBVIOUS
    <1> USE DEF workerVars, writeVars
    <1>1. ASSUME NEW c \in Callers, CallerStep(c) PROVE Rest'
        <2>1. CASE Insert(c)
            BY <2>1, InsertKeeps
        <2>2. CASE ~Insert(c)
            BY <1>1, <2>2, FlightShrinks DEF CallerStep, FindNoActiveJob, InsertRejected, Reread
        <2> QED
            BY <2>1, <2>2
    <1>2. ASSUME NEW j \in Jobs, Cancel(j) \/ ClockStep(j) PROVE Rest'
        <2>1. job[j].status \in Active /\ job[j] \in Row
            BY <1>2, ActiveRow DEF Cancel, ClockStep, LeaseLapses, BackoffElapses, Active, QueueInv
        <2>2. CASE Cancel(j)
            BY <2>1, <2>2, ClosedRow, ActiveRowChanges DEF Cancel, Settled
        <2>3. CASE LeaseLapses(j)
            <3> DEFINE row == [job[j] EXCEPT !.lapsed = TRUE]
            <3>1. row \in Row /\ SameClaim(job[j], row)
                BY <2>1, ClockedRow
            <3>2. job' = [job EXCEPT ![j] = row]
                BY <2>3 DEF LeaseLapses
            <3> QED
                BY <2>1, <2>3, <3>1, <3>2, ActiveRowChanges DEF LeaseLapses, SameClaim
        <2>4. CASE BackoffElapses(j)
            <3> DEFINE row == [job[j] EXCEPT !.due = TRUE]
            <3>1. row \in Row /\ SameClaim(job[j], row)
                BY <2>1, ClockedRow
            <3>2. job' = [job EXCEPT ![j] = row]
                BY <2>4 DEF BackoffElapses
            <3> QED
                BY <2>1, <2>4, <3>1, <3>2, ActiveRowChanges DEF BackoffElapses, SameClaim
        <2> QED
            BY <1>2, <2>2, <2>3, <2>4 DEF ClockStep
    <1>3. ASSUME NEW k \in Workers, LoopStep(k) \/ LoopFault(k) PROVE Rest'
        <2>1. CASE Recover(k)
            <3> PICK s \in seen[k] :
                    job' = IF LeaseUnchanged(s)
                           THEN [job EXCEPT ![s.job] = IF AttemptsRemain(s.attempts)
                                                       THEN Released(@, TRUE)
                                                       ELSE Closed(@, "failed")]
                           ELSE job
                BY <2>1 DEF Recover
            <3>0. s.job \in Jobs
                BY DEF QueueInv, TypeOK, Sighting
            <3>1. CASE ~LeaseUnchanged(s)
                BY <2>1, <3>1, FlightShrinks DEF Recover
            <3>2. CASE LeaseUnchanged(s)
                <4> DEFINE row == IF AttemptsRemain(s.attempts)
                                  THEN Released(job[s.job], TRUE)
                                  ELSE Closed(job[s.job], "failed")
                <4>1. job' = [job EXCEPT ![s.job] = row]
                    BY <3>2
                <4>2. job[s.job].status \in Active /\ job[s.job].attempts = s.attempts /\ job[s.job] \in Row
                    BY <3>0, <3>2, ActiveRow DEF LeaseUnchanged, Active, QueueInv
                <4>3. /\ row \in Row /\ row.work = job[s.job].work /\ row.attempts = job[s.job].attempts
                      /\ row.status \in Settled \/ (row.status = "queued" /\ row.attempts < MaxAttempts)
                    BY <4>2, ReleasedRow, ClosedRow DEF AttemptsRemain, Settled
                <4> HIDE DEF row
                <4> QED
                    BY <2>1, <3>0, <4>1, <4>2, <4>3, ActiveRowChanges DEF Recover
            <3> QED
                BY <3>1, <3>2
        <2>2. CASE TryClaim(k)
            <3> PICK s \in seen[k] : ClaimOf(k, s) \/ ClaimMissed(k, s)
                BY <2>2 DEF TryClaim
            <3>1. CASE ClaimOf(k, s)
                BY <2>2, <3>1, ClaimKeeps DEF TryClaim
            <3>2. CASE ClaimMissed(k, s)
                BY <2>2, <3>2, FlightShrinks DEF TryClaim, ClaimMissed
            <3> QED
                BY <3>1, <3>2
        <2>3. CASE ~Recover(k) /\ ~TryClaim(k)
            BY <1>3, <2>3, FlightShrinks
               DEF LoopStep, LoopFault, Start, ReadLapsed, Recovered, ReadQueue, StopClaiming,
                   TickEnds, LoopError, Stop, Crash
        <2> QED
            BY <2>1, <2>2, <2>3
    <1>4. ASSUME NEW x \in flight, AttemptStep(x) PROVE Rest'
        <2>0. x \in Attempt /\ x.job \in Jobs /\ x.work \in Works
            BY DEF QueueInv, TypeOK, Attempt
        <2>1. CASE AssertClaim(x)
            <3>1. CASE Owns(x)
                <4> DEFINE new == [x EXCEPT !.phase = "executing"]
                <4>1. /\ new.job = x.job /\ new.work = x.work /\ new.attempt = x.attempt
                      /\ new.turn = x.turn /\ new.worker = x.worker
                    BY <2>0 DEF Attempt
                <4> HIDE DEF new
                <4>2. flight' = (flight \ {x}) \cup {new}
                    BY <2>1, <3>1 DEF AssertClaim, new
                <4>3. FlightInv'
                    BY <2>1, <4>1, <4>2 DEF AssertClaim, FlightInv, Current, QueueInv
                <4> QED
                    BY <2>1, <4>3 DEF AssertClaim, Rest, QueueInv, OneActiveJob, AttemptBudget, WrittenInv
            <3>2. CASE ~Owns(x)
                BY <2>1, <3>2, FlightShrinks DEF AssertClaim, Drop
            <3> QED
                BY <3>1, <3>2
        <2>2. CASE Write(x)
            <3>1. CASE Owns(x)
                <4>1. x.turn <= turn[x.work]
                    BY DEF QueueInv, FlightInv
                <4>2. WrittenInv'
                    BY <2>0, <2>2, <3>1, <4>1 DEF Write, WrittenInv, QueueInv, TypeOK
                <4> QED
                    BY <2>2, <3>1, <4>2
                       DEF Write, Rest, QueueInv, OneActiveJob, AttemptBudget, FlightInv, Current
            <3>2. CASE ~Owns(x)
                BY <2>2, <3>2, FlightShrinks DEF Write, Drop
            <3> QED
                BY <3>1, <3>2
        <2>3. CASE Heartbeat(x)
            <3>1. CASE Owns(x)
                <4>1. job[x.job].status \in Active /\ job[x.job] \in Row
                    BY <2>0, <3>1, ActiveRow DEF Owns, Active, QueueInv
                <4>2. Renewed(job[x.job]) \in Row /\ SameClaim(job[x.job], Renewed(job[x.job]))
                    BY <4>1, RenewedRow
                <4>3. job' = [job EXCEPT ![x.job] = Renewed(job[x.job])] /\ flight' = flight
                    BY <2>3, <3>1 DEF Heartbeat
                <4> QED
                    BY <2>0, <2>3, <4>1, <4>2, <4>3, ActiveRowChanges DEF Heartbeat, SameClaim
            <3>2. CASE ~Owns(x)
                BY <2>3, <3>2, FlightShrinks DEF Heartbeat, Drop
            <3> QED
                BY <3>1, <3>2
        <2>4. CASE EndAttempt(x)
            <3>1. CASE ~Current(x)
                BY <2>4, <3>1, FlightShrinks DEF EndAttempt, Complete, Fail, Requeue, Settle, Drop
            <3>2. CASE Current(x)
                <4>1. job[x.job].status \in Active /\ job[x.job] \in Row /\ job[x.job].attempts = x.attempt
                    BY <2>0, <3>2, ActiveRow DEF Current, Active, QueueInv
                <4>2. PICK row \in Row :
                        /\ Settle(x, row)
                        /\ row.work = job[x.job].work /\ row.attempts = job[x.job].attempts
                        /\ row.status \in Settled \/ (row.status = "queued" /\ row.attempts < MaxAttempts)
                    <5>1. CASE Complete(x)
                        BY <4>1, <5>1, ClosedRow DEF Complete, Settled
                    <5>2. CASE Fail(x)
                        BY <4>1, <5>2, ClosedRow DEF Fail, Settled
                    <5>3. CASE Requeue(x)
                        <6> DEFINE row == Released(job[x.job], FALSE)
                        <6>1. /\ row \in Row /\ row.work = job[x.job].work
                              /\ row.attempts = job[x.job].attempts /\ row.status = "queued"
                            BY <4>1, ReleasedRow
                        <6> HIDE DEF row
                        <6>2. Settle(x, row) /\ x.attempt < MaxAttempts
                            BY <5>3 DEF Requeue, AttemptsRemain, row
                        <6> QED
                            BY <4>1, <6>1, <6>2
                    <5> QED
                        BY <2>4, <5>1, <5>2, <5>3 DEF EndAttempt
                <4> QED
                    BY <2>0, <3>2, <4>1, <4>2, ActiveRowChanges DEF Settle, Drop
            <3> QED
                BY <3>1, <3>2
        <2>5. CASE SettlementLost(x)
            BY <2>5, FlightShrinks DEF SettlementLost, Drop
        <2> QED
            BY <1>4, <2>1, <2>2, <2>3, <2>4, <2>5 DEF AttemptStep
    <1>5. CASE UNCHANGED vars
        BY <1>5, FlightShrinks DEF vars
    <1> QED
        BY <1>1, <1>2, <1>3, <1>4, <1>5 DEF Next

(* The queue's invariant holds in every reachable state: one active job    *)
(* per mission, attempts within their limit, and every attempt in flight   *)
(* traceable to a claim of its own.                                        *)
THEOREM QueueInvariant == Spec => []QueueInv
    <1>1. Init => QueueInv
        BY InvInit
    <1>2. QueueInv /\ [Next]_vars => QueueInv'
        BY TypeNext, RestNext DEF QueueInv, Rest
    <1> QED
        BY <1>1, <1>2, PTL DEF Spec

(* A mission never has two active jobs.                                    *)
THEOREM OneActiveJobAlways == Spec => []OneActiveJob
    <1>1. QueueInv => OneActiveJob
        BY DEF QueueInv
    <1> QED
        BY <1>1, QueueInvariant, PTL

(* A job is claimed at most MaxAttempts times.                             *)
THEOREM AttemptBudgetAlways == Spec => []AttemptBudget
    <1>1. QueueInv => AttemptBudget
        BY DEF QueueInv
    <1> QED
        BY <1>1, QueueInvariant, PTL

(* Two attempts of one mission can never both pass the guard trigger.      *)
THEOREM OneWriterAlways == Spec => []OneWriter
    <1>1. QueueInv => OneWriter
        <2> SUFFICES ASSUME QueueInv, NEW x \in flight, NEW y \in flight,
                            Owns(x), Owns(y), x.work = y.work
                     PROVE  x = y
            BY DEF OneWriter
        <2>1. x.job \in Jobs /\ y.job \in Jobs /\ job[x.job].work = job[y.job].work
            BY DEF QueueInv, TypeOK, Attempt, FlightInv
        <2>2. x.job = y.job
            BY <2>1 DEF Owns, QueueInv, OneActiveJob, Active
        <2> QED
            BY <2>2 DEF Owns, QueueInv, FlightInv
    <1> QED
        BY <1>1, QueueInvariant, PTL

(* Nothing of an earlier claim is written over a later claim's rows.       *)
THEOREM WritesInOrder == Spec => WritesInClaimOrder
    <1> DEFINE Ordered == \A w \in Works : written'[w] >= written[w]
    <1>1. QueueInv /\ [Next]_vars => [Ordered]_vars
        <2> SUFFICES ASSUME QueueInv, Next PROVE Ordered
            OBVIOUS
        <2> USE DEF workerVars, writeVars
        <2>0. written \in [Works -> Nat]
            BY DEF QueueInv, TypeOK
        <2>1. CASE \E x \in flight : Write(x) /\ Owns(x)
            <3> PICK x \in flight : Write(x) /\ Owns(x)
                BY <2>1
            <3>1. x.work \in Works /\ x.turn = turn[x.work]
                BY DEF QueueInv, TypeOK, Attempt, FlightInv, Owns, Current
            <3>2. turn[x.work] >= written[x.work]
                BY <2>0, <3>1 DEF QueueInv, WrittenInv, TypeOK
            <3> QED
                BY <2>0, <3>1, <3>2 DEF Write
        <2>2. CASE ~\E x \in flight : Write(x) /\ Owns(x)
            <3>1. written' = written
                <4>1. ASSUME NEW c \in Callers, CallerStep(c) PROVE written' = written
                    BY <4>1 DEF CallerStep, FindNoActiveJob, Insert, InsertRejected, Reread
                <4>2. ASSUME NEW j \in Jobs, Cancel(j) \/ ClockStep(j) PROVE written' = written
                    BY <4>2 DEF Cancel, ClockStep, LeaseLapses, BackoffElapses
                <4>3. ASSUME NEW k \in Workers, LoopStep(k) \/ LoopFault(k) PROVE written' = written
                    BY <4>3 DEF LoopStep, LoopFault, Start, ReadLapsed, Recover, Recovered, ReadQueue,
                                TryClaim, StopClaiming, TickEnds, LoopError, Stop, Crash
                <4>4. ASSUME NEW x \in flight, AttemptStep(x) PROVE written' = written
                    BY <2>2, <4>4 DEF AttemptStep, AssertClaim, Write, Heartbeat, EndAttempt, Complete,
                                      Fail, Requeue, Settle, SettlementLost
                <4> QED
                    BY <4>1, <4>2, <4>3, <4>4 DEF Next
            <3> QED
                BY <2>0, <3>1
        <2> QED
            BY <2>1, <2>2
    <1> QED
        BY <1>1, QueueInvariant, PTL DEF Spec, WritesInClaimOrder

-----------------------------------------------------------------------------
(* What may happen to a row in one step: a row that is run is left alone,  *)
(* renewed, given up because its lease ran out, or settled by its holder.  *)
LEMMA RowMoves ==
    ASSUME QueueInv, [Next]_vars, NEW j \in Jobs
    PROVE  \/ job'[j] = job[j]
           \/ job[j].status \in {"absent", "queued"}
           \/ job[j].status = "running" /\ (SameClaim(job[j], job'[j]) \/ job[j].lapsed)
           \/ \E x \in flight \ flight' : x.job = j /\ Owns(x)
    <1> USE DEF workerVars, writeVars
    <1>0. job \in [Jobs -> Row]
        BY DEF QueueInv, TypeOK
    <1>1. ASSUME NEW c \in Callers, CallerStep(c)
          PROVE  job'[j] = job[j] \/ job[j].status = "absent"
        BY <1>0, <1>1 DEF CallerStep, FindNoActiveJob, Insert, InsertRejected, Reread
    <1>2. ASSUME NEW i \in Jobs, Cancel(i) \/ ClockStep(i)
          PROVE  \/ job'[j] = job[j] \/ job[j].status = "queued"
                 \/ job[j].status = "running" /\ SameClaim(job[j], job'[j])
        <2>1. CASE LeaseLapses(i)
            <3> PICK row : row = [job[i] EXCEPT !.lapsed = TRUE]
                OBVIOUS
            <3>1. SameClaim(job[i], row) /\ job' = [job EXCEPT ![i] = row] /\ job[i].status = "running"
                BY <1>0, <2>1, ClockedRow DEF LeaseLapses
            <3> QED
                BY <1>0, <3>1
        <2>2. CASE Cancel(i) \/ BackoffElapses(i)
            BY <1>0, <2>2 DEF Cancel, BackoffElapses
        <2> QED
            BY <1>2, <2>1, <2>2 DEF ClockStep
    <1>3. ASSUME NEW k \in Workers, LoopStep(k) \/ LoopFault(k)
          PROVE  job'[j] = job[j] \/ job[j].status = "queued" \/ (job[j].status = "running" /\ job[j].lapsed)
        <2>1. CASE Recover(k)
            BY <1>0, <2>1 DEF Recover, LeaseUnchanged
        <2>2. CASE TryClaim(k)
            BY <1>0, <2>2 DEF TryClaim, ClaimOf, ClaimMissed, Claimable
        <2>3. CASE ~Recover(k) /\ ~TryClaim(k)
            BY <1>3, <2>3
               DEF LoopStep, LoopFault, Start, ReadLapsed, Recovered, ReadQueue, StopClaiming,
                   TickEnds, LoopError, Stop, Crash
        <2> QED
            BY <2>1, <2>2, <2>3
    <1>4. ASSUME NEW x \in flight, AttemptStep(x)
          PROVE  \/ job'[j] = job[j]
                 \/ job[j].status = "running" /\ SameClaim(job[j], job'[j])
                 \/ \E y \in flight \ flight' : y.job = j /\ Owns(y)
        <2>0. x.job \in Jobs
            BY DEF QueueInv, TypeOK, Attempt
        <2>1. CASE EndAttempt(x)
            <3>1. x \in flight \ flight' /\ (~Current(x) \/ j # x.job => job'[j] = job[j])
                BY <1>0, <2>0, <2>1 DEF EndAttempt, Complete, Fail, Requeue, Settle, Drop
            <3>2. Current(x) => Owns(x)
                BY DEF Current, Owns, QueueInv, FlightInv
            <3> QED
                BY <3>1, <3>2
        <2>2. CASE Heartbeat(x)
            <3>1. CASE Owns(x)
                <4> PICK row : row = Renewed(job[x.job])
                    OBVIOUS
                <4>1. /\ SameClaim(job[x.job], row) /\ job' = [job EXCEPT ![x.job] = row]
                      /\ job[x.job].status = "running"
                    BY <1>0, <2>0, <2>2, <3>1, RenewedRow DEF Heartbeat, Owns
                <4> QED
                    BY <1>0, <4>1
            <3>2. CASE ~Owns(x)
                BY <2>2, <3>2 DEF Heartbeat
            <3> QED
                BY <3>1, <3>2
        <2>3. CASE AssertClaim(x) \/ Write(x) \/ SettlementLost(x)
            BY <2>3 DEF AssertClaim, Write, SettlementLost
        <2> QED
            BY <1>4, <2>1, <2>2, <2>3 DEF AttemptStep
    <1>5. CASE UNCHANGED vars
        BY <1>5 DEF vars
    <1> QED
        BY <1>1, <1>2, <1>3, <1>4, <1>5 DEF Next

(* A worker that still executes loses its job only after its lease has run *)
(* out, although recovery reads first and writes later.                    *)
THEOREM LeasesAreKept == Spec => LiveLeaseKept
    <1> DEFINE Keeps == \A x \in flight \cap flight' :
                            (Current(x) /\ ~Current(x)') => job[x.job].lapsed
    <1>1. QueueInv /\ [Next]_vars => [Keeps]_vars
        <2> SUFFICES ASSUME QueueInv, [Next]_vars, NEW x \in flight \cap flight',
                            Current(x), ~Current(x)'
                     PROVE  job[x.job].lapsed
            OBVIOUS
        <2>1. x.job \in Jobs
            BY DEF QueueInv, TypeOK, Attempt
        <2>2. job'[x.job] # job[x.job] /\ ~SameClaim(job[x.job], job'[x.job])
            BY DEF Current, SameClaim
        <2>3. ~\E y \in flight \ flight' : y.job = x.job /\ Owns(y)
            BY DEF Owns, Current, QueueInv, FlightInv
        <2> QED
            BY <2>1, <2>2, <2>3, RowMoves DEF Current
    <1> QED
        BY <1>1, QueueInvariant, PTL DEF Spec, LiveLeaseKept

(* A running job is taken off by the attempt that holds it or by recovery  *)
(* of a lapsed lease, and a settled job stays as it was settled.           *)
THEOREM SettledByHolders == Spec => SettledByItsHolder
    <1> DEFINE Keeps ==
            \A j \in Jobs :
                /\ (job[j].status = "running" /\ job'[j].status # "running") =>
                      \/ job[j].lapsed
                      \/ \E x \in flight \ flight' : x.job = j /\ Owns(x)
                /\ job[j].status \in Settled => job'[j] = job[j]
    <1>1. QueueInv /\ [Next]_vars => [Keeps]_vars
        <2> SUFFICES ASSUME QueueInv, [Next]_vars, NEW j \in Jobs
                     PROVE  /\ (job[j].status = "running" /\ job'[j].status # "running") =>
                                  \/ job[j].lapsed
                                  \/ \E x \in flight \ flight' : x.job = j /\ Owns(x)
                            /\ job[j].status \in Settled => job'[j] = job[j]
            OBVIOUS
        <2> QED
            BY RowMoves DEF Settled, Owns, SameClaim
    <1> QED
        BY <1>1, QueueInvariant, PTL DEF Spec, SettledByItsHolder

-----------------------------------------------------------------------------
(* The execution queue implements MissionQueue, for every set of missions, *)
(* jobs, workers and callers: seen from a mission, its active row is its   *)
(* slot, and every statement moves the slot as MissionQueue says, or not.  *)

Slots == [w \in Works |-> SlotOf(w)]

(* What a mission sees of a row of its own.                                *)
View(row) == [state |-> row.status, attempts |-> row.attempts, holder |-> row.holder]

IdleView == [state |-> "idle", attempts |-> 0, holder |-> None]

-----------------------------------------------------------------------------
(* The slot of a mission with an active job is the view of that job's row, *)
(* because there is only one.                                              *)
LEMMA SlotOfActive ==
    ASSUME OneActiveJob, NEW j \in Jobs, job[j].status \in Active
    PROVE  SlotOf(job[j].work) = View(job[j])
    <1>1. ActiveJobs(job[j].work) = {j}
        BY DEF ActiveJobs, OneActiveJob
    <1>2. (CHOOSE i \in {j} : TRUE) = j
        OBVIOUS
    <1> QED
        BY <1>1, <1>2 DEF SlotOf, View

LEMMA SlotOfIdle ==
    ASSUME NEW w, ActiveJobs(w) = {}
    PROVE  SlotOf(w) = IdleView
    BY DEF SlotOf, IdleView

(* The same in the next state.                                             *)
LEMMA NextSlotOfActive ==
    ASSUME OneActiveJob', NEW j \in Jobs, job'[j].status \in Active, NEW w, job'[j].work = w
    PROVE  SlotOf(w)' = View(job'[j])
    <1>1. ActiveJobs(w)' = {j}
        BY DEF ActiveJobs, OneActiveJob
    <1>2. (CHOOSE i \in {j} : TRUE) = j
        OBVIOUS
    <1> QED
        BY <1>1, <1>2 DEF SlotOf, View

LEMMA NextSlotOfIdle ==
    ASSUME NEW w, ActiveJobs(w)' = {}
    PROVE  SlotOf(w)' = IdleView
    BY DEF SlotOf, IdleView

(* A row that is written moves the slot of its own mission only.           *)
LEMMA OtherSlotsStay ==
    ASSUME TypeOK, NEW j \in Jobs, NEW row \in Row, job' = [job EXCEPT ![j] = row],
           NEW w \in Works, row.work = w, job[j].status \notin Active \/ job[j].work = w,
           NEW v \in Works, v # w
    PROVE  SlotOf(v)' = SlotOf(v)
    <1>1. job'[j] = row /\ \A i \in Jobs : i # j => job'[i] = job[i]
        BY DEF TypeOK
    <1>2. ActiveJobs(v)' = ActiveJobs(v)
        BY <1>1 DEF ActiveJobs
    <1>3. j \notin ActiveJobs(v)
        BY DEF ActiveJobs
    <1>4. CASE ActiveJobs(v) = {}
        BY <1>2, <1>4 DEF SlotOf
    <1>5. CASE ActiveJobs(v) # {}
        <2> DEFINE a == CHOOSE i \in ActiveJobs(v) : TRUE
        <2>1. a \in ActiveJobs(v)
            BY <1>5
        <2>2. a \in Jobs /\ a # j
            BY <1>3, <2>1 DEF ActiveJobs
        <2>3. job'[a] = job[a]
            BY <1>1, <2>2
        <2>4. SlotOf(v) = View(job[a])
            BY <1>5 DEF SlotOf, View
        <2>5. SlotOf(v)' = View(job'[a])
            BY <1>2, <1>5 DEF SlotOf, View
        <2> QED
            BY <2>3, <2>4, <2>5
    <1> QED
        BY <1>4, <1>5

(* What a statement on an active row shows: a row still active is its      *)
(* mission's slot, a settled one leaves the slot idle.                     *)
LEMMA ActiveRowSeen ==
    ASSUME TypeOK, OneActiveJob, OneActiveJob', NEW j \in Jobs, job[j].status \in Active,
           NEW row \in Row, row.work = job[j].work, row.status \in Active \cup Settled,
           job' = [job EXCEPT ![j] = row]
    PROVE  /\ job[j].work \in Works
           /\ Slots[job[j].work] = View(job[j])
           /\ Slots' = [Slots EXCEPT ![job[j].work] =
                            IF row.status \in Active THEN View(row) ELSE IdleView]
    <1> PICK new : new = IF row.status \in Active THEN View(row) ELSE IdleView
        OBVIOUS
    <1>1. PICK w \in Works : w = job[j].work
        BY ActiveRow
    <1>2. Slots[w] = View(job[j])
        BY <1>1, SlotOfActive DEF Slots
    <1>3. job'[j] = row /\ \A i \in Jobs : i # j => job'[i] = job[i]
        BY DEF TypeOK
    <1>4. SlotOf(w)' = new
        <2>1. CASE row.status \in Active
            BY <1>1, <1>3, <2>1, NextSlotOfActive
        <2>2. CASE row.status \notin Active
            <3>1. ActiveJobs(w)' = {}
                BY <1>1, <1>3, <2>2 DEF ActiveJobs, OneActiveJob
            <3> QED
                BY <2>2, <3>1, NextSlotOfIdle
        <2> QED
            BY <2>1, <2>2
    <1>5. \A v \in Works : v # w => SlotOf(v)' = SlotOf(v)
        BY <1>1, OtherSlotsStay
    <1>6. Slots' = [Slots EXCEPT ![w] = new]
        BY <1>4, <1>5 DEF Slots
    <1> QED
        BY <1>1, <1>2, <1>6

-----------------------------------------------------------------------------
(* Statements that leave the rows alone, or change nothing a mission sees. *)
LEMMA SlotsStay == job' = job => Slots' = Slots
    BY DEF Slots, SlotOf, ActiveJobs

LEMMA SameView ==
    ASSUME TypeOK, OneActiveJob, OneActiveJob', NEW j \in Jobs, job[j].status \in Active,
           NEW row \in Row, SameClaim(job[j], row), job' = [job EXCEPT ![j] = row]
    PROVE  Slots' = Slots
    <1>1. /\ job[j].work \in Works /\ Slots[job[j].work] = View(job[j])
          /\ Slots' = [Slots EXCEPT ![job[j].work] = View(row)]
        BY ActiveRowSeen DEF SameClaim
    <1>2. View(row) = View(job[j])
        BY DEF View, SameClaim
    <1> QED
        BY <1>1, <1>2 DEF Slots

(* Enqueueing is a request for the mission.                                *)
LEMMA InsertRequests ==
    ASSUME QueueInv, QueueInv', NEW c \in Callers, Insert(c)
    PROVE  \E w \in Works : Promise!Request(w)
    <1>1. PICK w \in Works : w = caller[c].work
        BY DEF Insert, QueueInv, TypeOK
    <1>2. PICK j \in Jobs : /\ job[j].status = "absent"
                            /\ job' = [job EXCEPT ![j] = NewRow(w, caller[c].reason)]
        BY <1>1 DEF Insert
    <1>3. PICK row \in Row : row = NewRow(w, caller[c].reason)
        BY <1>1, InsertedRow DEF QueueInv, TypeOK
    <1>4. row.work = w /\ row.status = "queued" /\ row.attempts = 0 /\ row.holder = None
        BY <1>3 DEF NewRow, AbsentRow
    <1>5. job' = [job EXCEPT ![j] = row] /\ job'[j] = row
        BY <1>2, <1>3 DEF QueueInv, TypeOK
    <1>6. SlotOf(w)' = View(row)
        BY <1>4, <1>5, NextSlotOfActive DEF Active, QueueInv
    <1>7. Slots' = [Slots EXCEPT ![w] = View(row)]
        <2>1. TypeOK /\ job[j].status \notin Active
            BY <1>2 DEF QueueInv, Active
        <2>2. \A v \in Works : v # w => SlotOf(v)' = SlotOf(v)
            BY <1>4, <1>5, <2>1, OtherSlotsStay
        <2> QED
            BY <1>6, <2>2 DEF Slots
    <1>8. Slots[w] = IdleView
        BY <1>1, SlotOfIdle DEF Slots, Insert, UniqueIndexAdmits
    <1>9. UNCHANGED <<turn, written>>
        BY DEF Insert, writeVars
    <1>10. Promise!Request(w)
        <2>1. Slots[w].state = "idle"
            BY <1>8 DEF IdleView
        <2>2. View(row) = [state |-> "queued", attempts |-> 0, holder |-> None]
            BY <1>4 DEF View
        <2> QED
            BY <1>7, <1>9, <2>1, <2>2 DEF Promise!Request, Slots
    <1> QED
        BY <1>10

(* Settling or withdrawing a job retires the mission, putting it back on   *)
(* the queue with attempts left releases it.                               *)
LEMMA SettledRetires ==
    ASSUME QueueInv, QueueInv', NEW j \in Jobs, job[j].status \in Active,
           NEW row \in Row, row.work = job[j].work, row.status \in Settled,
           job' = [job EXCEPT ![j] = row], UNCHANGED <<turn, written>>
    PROVE  \E w \in Works : Promise!Retire(w)
    <1>1. PICK w \in Works : w = job[j].work
        BY ActiveRow DEF QueueInv
    <1>2. Slots[w] = View(job[j]) /\ Slots' = [Slots EXCEPT ![w] = IdleView]
        BY <1>1, ActiveRowSeen DEF QueueInv, Active, Settled
    <1>3. Promise!Retire(w)
        <2>1. Slots[w].state \in {"queued", "running"}
            BY <1>2 DEF View, Active
        <2> QED
            BY <1>2, <2>1 DEF Promise!Retire, Promise!IdleSlot, IdleView, Slots
    <1> QED
        BY <1>3

LEMMA RequeuedReleases ==
    ASSUME QueueInv, QueueInv', NEW j \in Jobs, job[j].status = "running",
           job[j].attempts < MaxAttempts,
           NEW row \in Row, row.work = job[j].work, row.status = "queued",
           row.attempts = job[j].attempts, row.holder = None,
           job' = [job EXCEPT ![j] = row], UNCHANGED <<turn, written>>
    PROVE  \E w \in Works : Promise!Release(w)
    <1>1. PICK w \in Works : w = job[j].work
        BY ActiveRow DEF QueueInv, Active
    <1>2. Slots[w] = View(job[j]) /\ Slots' = [Slots EXCEPT ![w] = View(row)]
        BY <1>1, ActiveRowSeen DEF QueueInv, Active
    <1>3. Promise!Release(w)
        <2>1. /\ Slots[w].state = "running" /\ Slots[w].attempts < MaxAttempts
              /\ View(row) = [state |-> "queued", attempts |-> Slots[w].attempts, holder |-> None]
            BY <1>2 DEF View
        <2> HIDE DEF Slots
        <2>2. Slots' = [Slots EXCEPT ![w] = [state |-> "queued", attempts |-> @.attempts,
                                             holder |-> None]]
            BY <1>2, <2>1
        <2> QED
            BY <2>1, <2>2 DEF Promise!Release, Slots
    <1> QED
        BY <1>3

(* A claim that matches is a claim of the mission: the budget of attempts, *)
(* which a claim does not look at, is what whoever requeued it looked at.  *)
LEMMA ClaimClaims ==
    ASSUME QueueInv, QueueInv', NEW k \in Workers, NEW s \in Sighting, ClaimOf(k, s),
           written' = written
    PROVE  \E w \in Works : Promise!Claim(w, k)
    <1>1. /\ s.job \in Jobs /\ job[s.job].status = "queued" /\ job[s.job].attempts = s.attempts
          /\ s.attempts \in Nat /\ s.attempts < MaxAttempts
        BY DEF ClaimOf, Claimable, Sighting, QueueInv, AttemptBudget
    <1>2. PICK w \in Works : w = job[s.job].work
        BY <1>1, ActiveRow DEF QueueInv, Active
    <1>3. PICK row : row = Taken(job[s.job], k, s.attempts + 1)
        OBVIOUS
    <1>4. /\ row \in Row /\ row.work = w /\ row.status = "running"
          /\ row.attempts = s.attempts + 1 /\ row.holder = k
        <2>1. job[s.job] \in Row /\ job[s.job].work = w
            BY <1>1, <1>2, ActiveRow DEF QueueInv, Active
        <2>2. s.attempts + 1 \in Nat
            BY <1>1
        <2> QED
            BY <1>3, <2>1, <2>2, TakenRow
    <1>5. job' = [job EXCEPT ![s.job] = row] /\ turn' = [turn EXCEPT ![w] = @ + 1]
        BY <1>2, <1>3 DEF ClaimOf
    <1>6. Slots[w] = View(job[s.job]) /\ Slots' = [Slots EXCEPT ![w] = View(row)]
        BY <1>1, <1>2, <1>4, <1>5, ActiveRowSeen DEF QueueInv, Active
    <1>7. Promise!Claim(w, k)
        <2>1. /\ Slots[w].state = "queued" /\ Slots[w].attempts < MaxAttempts
              /\ View(row) = [state |-> "running", attempts |-> Slots[w].attempts + 1, holder |-> k]
            BY <1>1, <1>4, <1>6 DEF View
        <2> HIDE DEF Slots
        <2>2. Slots' = [Slots EXCEPT ![w] = [state |-> "running", attempts |-> @.attempts + 1,
                                             holder |-> k]]
            BY <1>6, <2>1
        <2> QED
            BY <1>5, <2>1, <2>2 DEF Promise!Claim, Slots
    <1> QED
        BY <1>7

-----------------------------------------------------------------------------
(* Every step of the queue is a step of its promise or leaves it alone.    *)

Kept == UNCHANGED <<Slots, turn, written>>

LEMMA CallerMaps ==
    ASSUME QueueInv, QueueInv', NEW c \in Callers, CallerStep(c)
    PROVE  Promise!QNext \/ Kept
    <1>1. CASE Insert(c)
        BY <1>1, InsertRequests DEF Promise!QNext
    <1>2. CASE ~Insert(c)
        BY <1>2, SlotsStay DEF CallerStep, FindNoActiveJob, InsertRejected, Reread, Kept, writeVars
    <1> QED
        BY <1>1, <1>2

LEMMA JobMaps ==
    ASSUME QueueInv, QueueInv', NEW j \in Jobs, Cancel(j) \/ ClockStep(j)
    PROVE  Promise!QNext \/ Kept
    <1>1. job[j].status \in Active /\ job[j] \in Row /\ UNCHANGED <<turn, written>>
        BY ActiveRow DEF Cancel, ClockStep, LeaseLapses, BackoffElapses, Active, QueueInv, writeVars
    <1>2. CASE Cancel(j)
        <2> PICK row : row = Closed(job[j], "cancelled")
            OBVIOUS
        <2>1. /\ row \in Row /\ row.work = job[j].work /\ row.status \in Settled
              /\ job' = [job EXCEPT ![j] = row]
            BY <1>1, <1>2, ClosedRow DEF Cancel, Settled
        <2> QED
            BY <1>1, <2>1, SettledRetires DEF Promise!QNext
    <1>3. CASE ClockStep(j)
        <2>1. PICK row \in Row : SameClaim(job[j], row) /\ job' = [job EXCEPT ![j] = row]
            BY <1>1, <1>3, ClockedRow DEF ClockStep, LeaseLapses, BackoffElapses
        <2>2. Slots' = Slots
            BY <1>1, <2>1, SameView DEF QueueInv
        <2> QED
            BY <1>1, <2>2 DEF Kept
    <1> QED
        BY <1>2, <1>3

LEMMA LoopMaps ==
    ASSUME QueueInv, QueueInv', NEW k \in Workers, LoopStep(k) \/ LoopFault(k)
    PROVE  Promise!QNext \/ Kept
    <1>1. CASE Recover(k)
        <2> PICK s \in seen[k] :
                job' = IF LeaseUnchanged(s)
                       THEN [job EXCEPT ![s.job] = IF AttemptsRemain(s.attempts)
                                                   THEN Released(@, TRUE)
                                                   ELSE Closed(@, "failed")]
                       ELSE job
            BY <1>1 DEF Recover
        <2>0. s.job \in Jobs /\ UNCHANGED <<turn, written>>
            BY <1>1 DEF QueueInv, TypeOK, Sighting, Recover, writeVars
        <2>1. CASE ~LeaseUnchanged(s)
            BY <2>0, <2>1, SlotsStay DEF Kept
        <2>2. CASE LeaseUnchanged(s)
            <3>1. /\ job[s.job].status = "running" /\ job[s.job].attempts = s.attempts
                  /\ job[s.job] \in Row
                BY <2>0, <2>2, ActiveRow DEF LeaseUnchanged, Active, QueueInv
            <3>2. CASE AttemptsRemain(s.attempts)
                <4> PICK row : row = Released(job[s.job], TRUE)
                    OBVIOUS
                <4>1. /\ row \in Row /\ row.work = job[s.job].work /\ row.status = "queued"
                      /\ row.attempts = job[s.job].attempts
                    BY <3>1, ReleasedRow
                <4>2. row.holder = None
                    BY <3>1 DEF Released, Row
                <4>3. job' = [job EXCEPT ![s.job] = row]
                    BY <2>2, <3>2
                <4> QED
                    BY <2>0, <3>1, <3>2, <4>1, <4>2, <4>3, RequeuedReleases
                       DEF Promise!QNext, AttemptsRemain
            <3>3. CASE ~AttemptsRemain(s.attempts)
                <4> PICK row : row = Closed(job[s.job], "failed")
                    OBVIOUS
                <4>1. row \in Row /\ row.work = job[s.job].work /\ row.status \in Settled
                    BY <3>1, ClosedRow DEF Settled
                <4>2. job' = [job EXCEPT ![s.job] = row]
                    BY <2>2, <3>3
                <4> QED
                    BY <2>0, <3>1, <4>1, <4>2, SettledRetires DEF Promise!QNext, Active
            <3> QED
                BY <3>2, <3>3
        <2> QED
            BY <2>1, <2>2
    <1>2. CASE TryClaim(k)
        <2> PICK s \in seen[k] : ClaimOf(k, s) \/ ClaimMissed(k, s)
            BY <1>2 DEF TryClaim
        <2>1. s \in Sighting /\ written' = written
            BY <1>2 DEF TryClaim, QueueInv, TypeOK
        <2>2. CASE ClaimOf(k, s)
            BY <2>1, <2>2, ClaimClaims DEF Promise!QNext
        <2>3. CASE ClaimMissed(k, s)
            BY <2>1, <2>3, SlotsStay DEF ClaimMissed, Kept
        <2> QED
            BY <2>2, <2>3
    <1>3. CASE ~Recover(k) /\ ~TryClaim(k)
        BY <1>3, SlotsStay
           DEF LoopStep, LoopFault, Start, ReadLapsed, Recovered, ReadQueue, StopClaiming,
               TickEnds, LoopError, Stop, Crash, Kept, writeVars
    <1> QED
        BY <1>1, <1>2, <1>3

LEMMA AttemptMaps ==
    ASSUME QueueInv, QueueInv', NEW x \in flight, AttemptStep(x)
    PROVE  Promise!QNext \/ Kept
    <1>0. x \in Attempt /\ x.job \in Jobs /\ x.work \in Works /\ job[x.job].work = x.work
        BY DEF QueueInv, TypeOK, Attempt, FlightInv
    <1>1. CASE AssertClaim(x) \/ SettlementLost(x)
        BY <1>1, SlotsStay DEF AssertClaim, SettlementLost, Kept, writeVars
    <1>2. CASE Write(x)
        <2>1. CASE Owns(x)
            <3>1. PICK w \in Works : w = x.work
                BY <1>0
            <3>2. Slots[w].state = "running"
                <4>1. job[x.job].status = "running" /\ job[x.job].work = w
                    BY <1>0, <2>1, <3>1 DEF Owns
                <4>2. SlotOf(w) = View(job[x.job])
                    BY <1>0, <4>1, SlotOfActive DEF Active, QueueInv
                <4> QED
                    BY <4>1, <4>2 DEF Slots, View
            <3>3. x.turn = turn[w]
                BY <2>1, <3>1 DEF Owns, Current, QueueInv, FlightInv
            <3>4. Slots' = Slots /\ turn' = turn /\ written' = [written EXCEPT ![w] = turn[w]]
                BY <1>2, <2>1, <3>1, <3>3, SlotsStay DEF Write
            <3>5. Promise!HolderWrites(w)
                BY <3>2, <3>4 DEF Promise!HolderWrites, Slots
            <3> QED
                BY <3>5 DEF Promise!QNext
        <2>2. CASE ~Owns(x)
            BY <1>2, <2>2, SlotsStay DEF Write, Kept
        <2> QED
            BY <2>1, <2>2
    <1>3. CASE Heartbeat(x)
        <2>1. CASE Owns(x)
            <3>1. job[x.job].status \in Active /\ job[x.job] \in Row
                BY <1>0, <2>1, ActiveRow DEF Owns, Active, QueueInv
            <3>2. PICK row \in Row : SameClaim(job[x.job], row) /\ job' = [job EXCEPT ![x.job] = row]
                BY <1>3, <2>1, <3>1, RenewedRow DEF Heartbeat
            <3>3. Slots' = Slots
                BY <1>0, <3>1, <3>2, SameView DEF QueueInv
            <3> QED
                BY <1>3, <3>3 DEF Heartbeat, Kept, writeVars
        <2>2. CASE ~Owns(x)
            BY <1>3, <2>2, SlotsStay DEF Heartbeat, Kept, writeVars
        <2> QED
            BY <2>1, <2>2
    <1>4. CASE EndAttempt(x)
        <2>0. UNCHANGED <<turn, written>>
            BY <1>4 DEF EndAttempt, Complete, Fail, Requeue, Settle, writeVars
        <2>1. CASE ~Current(x)
            BY <1>4, <2>0, <2>1, SlotsStay DEF EndAttempt, Complete, Fail, Requeue, Settle, Kept
        <2>2. CASE Current(x)
            <3>1. /\ job[x.job].status = "running" /\ job[x.job].attempts = x.attempt
                  /\ job[x.job] \in Row
                BY <1>0, <2>2, ActiveRow DEF Current, Active, QueueInv
            <3>2. CASE Complete(x) \/ Fail(x)
                <4>1. PICK st \in Settled : Settle(x, Closed(job[x.job], st))
                    BY <3>2 DEF Complete, Fail, Settled
                <4>2. PICK row : row = Closed(job[x.job], st)
                    OBVIOUS
                <4>3. row \in Row /\ row.work = job[x.job].work /\ row.status \in Settled
                    BY <3>1, <4>2, ClosedRow
                <4>4. job' = [job EXCEPT ![x.job] = row]
                    BY <2>2, <4>1, <4>2 DEF Settle
                <4> QED
                    BY <1>0, <2>0, <3>1, <4>3, <4>4, SettledRetires DEF Promise!QNext, Active
            <3>3. CASE Requeue(x)
                <4>1. PICK row : row = Released(job[x.job], FALSE)
                    OBVIOUS
                <4>2. /\ row \in Row /\ row.work = job[x.job].work /\ row.status = "queued"
                      /\ row.attempts = job[x.job].attempts
                    BY <3>1, <4>1, ReleasedRow
                <4>3. row.holder = None
                    BY <3>1, <4>1 DEF Released, Row
                <4>4. job' = [job EXCEPT ![x.job] = row] /\ job[x.job].attempts < MaxAttempts
                    BY <2>2, <3>1, <3>3, <4>1 DEF Requeue, Settle, AttemptsRemain
                <4> QED
                    BY <1>0, <2>0, <3>1, <4>2, <4>3, <4>4, RequeuedReleases DEF Promise!QNext
            <3> QED
                BY <1>4, <3>2, <3>3 DEF EndAttempt
        <2> QED
            BY <2>1, <2>2
    <1> QED
        BY <1>1, <1>2, <1>3, <1>4 DEF AttemptStep

(* The execution queue keeps its promise to every mission: one slot, taken *)
(* by one worker at a time, at most MaxAttempts times a request, written   *)
(* through only under the latest claim.                                    *)
THEOREM KeepsItsPromise == Spec => ImplementsMissionQueue
    <1>1. Init => Promise!QInit
        <2> SUFFICES ASSUME Init PROVE Promise!QInit
            OBVIOUS
        <2>1. \A w \in Works : ActiveJobs(w) = {}
            BY DEF Init, ActiveJobs, AbsentRow, Active
        <2>2. \A w \in Works : SlotOf(w) = Promise!IdleSlot
            BY <2>1, SlotOfIdle DEF IdleView, Promise!IdleSlot
        <2> QED
            BY <2>2 DEF Init, Promise!QInit
    <1>2. QueueInv /\ QueueInv' /\ [Next]_vars => [Promise!QNext]_(Promise!qvars)
        <2> SUFFICES ASSUME QueueInv, QueueInv', [Next]_vars PROVE Promise!QNext \/ Kept
            BY DEF Kept, Promise!qvars, Slots
        <2>1. CASE Next
            BY <2>1, CallerMaps, JobMaps, LoopMaps, AttemptMaps DEF Next
        <2>2. CASE UNCHANGED vars
            BY <2>2, SlotsStay DEF vars, Kept
        <2> QED
            BY <2>1, <2>2
    <1> QED
        BY <1>1, <1>2, QueueInvariant, PTL DEF Spec, ImplementsMissionQueue, Promise!QSpec
=============================================================================
