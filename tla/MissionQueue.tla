----------------------------- MODULE MissionQueue -----------------------------
(***************************************************************************)
(* What the execution queue promises, seen from a mission: it is idle,     *)
(* waiting for a worker, or run by one worker; it is run at most           *)
(* MaxAttempts times per request; and its rows are only ever written under *)
(* the latest claim made for it.  ExecutionQueue implements this.          *)
(***************************************************************************)
EXTENDS Naturals

CONSTANTS Works, Workers, None, MaxAttempts

VARIABLES
    slot,      \* mission -> who is to run it
    turn,      \* mission -> claims made for it so far
    written    \* mission -> the claim that last wrote its rows

qvars == <<slot, turn, written>>

IdleSlot == [state |-> "idle", attempts |-> 0, holder |-> None]

QInit ==
    /\ slot = [w \in Works |-> IdleSlot]
    /\ turn = [w \in Works |-> 0]
    /\ written = [w \in Works |-> 0]

(* Somebody asks for the mission to be run.                                *)
Request(w) ==
    /\ slot[w].state = "idle"
    /\ slot' = [slot EXCEPT ![w] = [state |-> "queued", attempts |-> 0, holder |-> None]]
    /\ UNCHANGED <<turn, written>>

Claim(w, k) ==
    /\ slot[w].state = "queued"
    /\ slot[w].attempts < MaxAttempts
    /\ slot' = [slot EXCEPT ![w] = [state |-> "running", attempts |-> @.attempts + 1,
                                    holder |-> k]]
    /\ turn' = [turn EXCEPT ![w] = @ + 1]
    /\ UNCHANGED written

(* The worker holding the mission writes under its own claim.              *)
HolderWrites(w) ==
    /\ slot[w].state = "running"
    /\ written' = [written EXCEPT ![w] = turn[w]]
    /\ UNCHANGED <<slot, turn>>

(* The attempt ends, or its worker is given up on, with attempts left.     *)
Release(w) ==
    /\ slot[w].state = "running"
    /\ slot[w].attempts < MaxAttempts
    /\ slot' = [slot EXCEPT ![w] = [state |-> "queued", attempts |-> @.attempts,
                                    holder |-> None]]
    /\ UNCHANGED <<turn, written>>

(* The mission is settled by whoever runs it, or withdrawn before that.    *)
Retire(w) ==
    /\ slot[w].state \in {"queued", "running"}
    /\ slot' = [slot EXCEPT ![w] = IdleSlot]
    /\ UNCHANGED <<turn, written>>

QNext ==
    \E w \in Works :
        \/ Request(w) \/ HolderWrites(w) \/ Release(w) \/ Retire(w)
        \/ \E k \in Workers : Claim(w, k)

QSpec == QInit /\ [][QNext]_qvars
=============================================================================
