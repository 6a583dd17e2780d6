------------------------------ MODULE LiveFeed ------------------------------
(***************************************************************************)
(* What the execution stream promises whoever watches a company: each      *)
(* event that is recorded while they watch is told to them, and no event   *)
(* is told twice.                                                          *)
(***************************************************************************)
EXTENDS Naturals

CONSTANTS
    Listeners,   \* who may watch, each once
    MaxEvents    \* bound: events recorded

VARIABLES
    recorded,   \* how many events were recorded: their numbers are 1..recorded
    from,       \* listener -> how many there were when it came, Away when it is not there
    told        \* listener -> event -> how often it was told

feed == <<recorded, from, told>>

Away == MaxEvents + 1

Init ==
    /\ recorded = 0
    /\ from = [l \in Listeners |-> Away]
    /\ told = [l \in Listeners |-> [e \in 1..MaxEvents |-> 0]]

Watches(l) == from[l] # Away
Owed(l)    == {e \in 1..recorded : Watches(l) /\ e > from[l] /\ told[l][e] = 0}

Record == recorded < MaxEvents /\ recorded' = recorded + 1 /\ UNCHANGED <<from, told>>
Come(l)   == ~Watches(l) /\ from' = [from EXCEPT ![l] = recorded] /\ UNCHANGED <<recorded, told>>
Go(l)  == Watches(l) /\ from' = [from EXCEPT ![l] = Away] /\ UNCHANGED <<recorded, told>>

(* One read may tell several listeners of several events.                  *)
Tell ==
    /\ \E es \in SUBSET (1..recorded) :
        told' = [l \in Listeners |-> [e \in 1..MaxEvents |->
                    told[l][e] + IF Watches(l) /\ e \in es THEN 1 ELSE 0]]
    /\ \A l \in Listeners, e \in 1..MaxEvents : told'[l][e] <= 1
    /\ UNCHANGED <<recorded, from>>

Tells(l, e) == e \in Owed(l) /\ Tell /\ told'[l][e] = 1

Next == Record \/ (\E l \in Listeners : Come(l) \/ Go(l)) \/ Tell

Spec == Init /\ [][Next]_feed /\ \A l \in Listeners, e \in 1..MaxEvents : WF_feed(Tells(l, e))
=============================================================================
