--------------------------- MODULE ExecutionStream ---------------------------
(***************************************************************************)
(* The reader of the event log that everybody who watches a company        *)
(* shares: it reads forward from its newest event, reaching back for       *)
(* events that a process with a slower clock, or a slower write, adds      *)
(* behind it, and forgets those it told once they are many.                *)
(*                                                                         *)
(* A read is two steps: the rows are fetched, then told.  Events are the   *)
(* numbers of the order in which they became visible; a stamp differs from *)
(* the API's clock by one of Drifts.  Tails are numbered, since whoever    *)
(* closes late closes the tail it came for.                                *)
(***************************************************************************)
EXTENDS Integers, Sequences, FiniteSets

CONSTANTS
    Listeners,     \* who may watch, each once
    Lookback,      \* how far a read reaches back behind the newest event
    Drifts,        \* how far stamps are off the API's clock
    BatchLimit,    \* events a read returns at most
    SeenCapacity,  \* ids that are remembered
    MaxInWindow,   \* bound: events within one lookback
    MaxEvents,     \* bound: events recorded
    MaxTime        \* bound: the clock

ASSUME StreamAssumption ==
    /\ IsFiniteSet(Listeners)
    /\ Lookback \in Nat /\ BatchLimit \in Nat \ {0} /\ SeenCapacity \in Nat
    /\ MaxEvents \in Nat /\ MaxTime \in Nat /\ MaxInWindow \in Nat

(* The lookback is chosen to cover what the clocks may differ.             *)
ASSUME DriftAssumption == 0 \in Drifts /\ Drifts \subseteq Int /\ \A a, b \in Drifts : a - b <= Lookback

VARIABLES
    now,      \* the API's clock
    stamps,   \* event -> its timestamp
    tail,     \* the tail in the map, 0 when there is none
    cursor,   \* its newest event's stamp
    seen,     \* the events it remembers, oldest first
    batch,    \* the rows it has fetched, while it is reading
    sub,      \* listener -> its subscription
    opened,   \* tails opened so far
    from,     \* listener -> how many events there were when it came (history)
    told      \* listener -> event -> how often it was told (history)

vars == <<now, stamps, tail, cursor, seen, batch, sub, opened, from, told>>
rest == <<now, stamps, opened, from>>

Feed   == INSTANCE LiveFeed WITH recorded <- Len(stamps)
Away   == MaxEvents + 1
Events == 1..Len(stamps)
Idle   == <<0>>

Init ==
    /\ now = 0 /\ stamps = <<>>
    /\ tail = 0 /\ cursor = 0 /\ seen = <<>> /\ batch = Idle /\ opened = 0
    /\ sub = [l \in Listeners |-> [tail |-> 0, closed |-> FALSE]]
    /\ from = [l \in Listeners |-> Away]
    /\ told = [l \in Listeners |-> [e \in 1..MaxEvents |-> 0]]

-----------------------------------------------------------------------------
(* The processes that record events, and time.                             *)

Sparse(log) ==
    \A e \in DOMAIN log :
        Cardinality({d \in DOMAIN log : log[d] \in log[e]..log[e] + Lookback}) <= MaxInWindow

Record ==
    /\ Len(stamps) < MaxEvents
    /\ \E d \in Drifts : stamps' = Append(stamps, now + d)
    /\ Sparse(stamps')
    /\ UNCHANGED <<now, tail, cursor, seen, batch, sub, opened, from, told>>

Pass ==
    /\ now < MaxTime /\ now' = now + 1
    /\ UNCHANGED <<stamps, tail, cursor, seen, batch, sub, opened, from, told>>

-----------------------------------------------------------------------------
(* Watching.                                                               *)

Told(t) == {l \in Listeners : sub[l].tail = t /\ t # 0 /\ ~sub[l].closed}

Subscribe(l) ==
    /\ sub[l].tail = 0
    /\ IF tail # 0 THEN UNCHANGED <<tail, cursor, seen, batch, opened>>
       ELSE /\ opened' = opened + 1 /\ tail' = opened'
            /\ cursor' = now /\ seen' = <<>> /\ batch' = Idle
    /\ sub' = [sub EXCEPT ![l].tail = tail']
    /\ from' = [from EXCEPT ![l] = Len(stamps)]
    /\ UNCHANGED <<now, stamps, told>>

(* Closing again does nothing.                                             *)
(* Mutant: it closes again.                                                *)
MutClosesAgain(l) == sub[l].tail # 0

Closable(l) == sub[l].tail # 0 /\ ~sub[l].closed

(* Whoever leaves last takes the tail with it.                             *)
Close(l) ==
    /\ Closable(l)
    /\ sub' = [sub EXCEPT ![l].closed = TRUE]
    /\ from' = [from EXCEPT ![l] = Away]
    /\ IF Told(sub[l].tail) \subseteq {l}
       THEN tail' = 0 /\ cursor' = 0 /\ seen' = <<>> /\ batch' = Idle
       ELSE UNCHANGED <<tail, cursor, seen, batch>>
    /\ UNCHANGED <<now, stamps, opened, told>>

-----------------------------------------------------------------------------
(* Reading.                                                                *)

(* Mutant: a read begins at the newest event.                              *)
MutNoLookback == cursor

Since == cursor - Lookback

(* Oldest first, and those of one stamp in any order.                      *)
Batches ==
    LET found == {e \in Events : stamps[e] >= Since}
        size  == IF Cardinality(found) < BatchLimit THEN Cardinality(found) ELSE BatchLimit
    IN {b \in [1..size -> found] :
            /\ \A i, j \in 1..size : i < j => b[i] # b[j] /\ stamps[b[i]] <= stamps[b[j]]
            /\ \A e \in found, i \in 1..size : stamps[e] < stamps[b[i]] => \E j \in 1..size : b[j] = e}

Fetch ==
    /\ tail # 0 /\ batch = Idle
    /\ batch' \in Batches
    /\ UNCHANGED <<rest, tail, cursor, seen, sub, told>>

IsNew(e) == \A i \in DOMAIN seen : seen[i] # e

(* The rows it does not remember, in the order they were read.             *)
Fresh ==
    LET new == {i \in DOMAIN batch : IsNew(batch[i])}
    IN {[k \in DOMAIN row |-> batch[row[k]]] :
            row \in {r \in [1..Cardinality(new) -> new] : \A j, k \in DOMAIN r : j < k => r[j] < r[k]}}

Prune(ids) == IF Len(ids) > SeenCapacity THEN SubSeq(ids, Len(ids) - SeenCapacity + 1, Len(ids)) ELSE ids

Newest == IF batch = <<>> THEN cursor ELSE stamps[batch[Len(batch)]]

Deliver ==
    /\ batch # Idle
    /\ \E fresh \in Fresh :
           /\ seen' = Prune(seen \o fresh)
           /\ told' = [l \in Listeners |-> [e \in 1..MaxEvents |->
                         told[l][e] + IF l \in Told(tail) /\ \E i \in DOMAIN fresh : fresh[i] = e
                                      THEN 1 ELSE 0]]
    /\ cursor' = IF Newest > cursor THEN Newest ELSE cursor
    /\ batch' = Idle
    /\ UNCHANGED <<rest, tail, sub>>

(* The read failed: the cursor stays.                                      *)
Fail ==
    /\ tail # 0 /\ batch # Idle
    /\ batch' = Idle
    /\ UNCHANGED <<rest, tail, cursor, seen, sub, told>>

Next ==
    \/ Record \/ Pass \/ Fetch \/ Deliver \/ Fail
    \/ \E l \in Listeners : Subscribe(l) \/ Close(l)

(* The timer fires while the tail is open, and reads do not fail for ever. *)
Fairness == WF_vars(Fetch) /\ SF_vars(Deliver)

Spec == Init /\ [][Next]_vars /\ Fairness

-----------------------------------------------------------------------------
(* Every variable has its type, and no more ids are remembered than fit.   *)
TypeOK ==
    /\ now \in 0..MaxTime
    /\ stamps \in Seq(Int) /\ Len(stamps) <= MaxEvents
    /\ tail \in 0..opened /\ opened \in 0..Cardinality(Listeners) /\ cursor \in Int
    /\ seen \in Seq(Events) /\ Len(seen) <= SeenCapacity
    /\ batch \in {Idle} \cup Seq(Events) /\ Len(batch) <= BatchLimit
    /\ sub \in [Listeners -> [tail: 0..opened, closed: BOOLEAN]]
    /\ from \in [Listeners -> 0..Away]
    /\ told \in [Listeners -> [1..MaxEvents -> Nat]]

(* Whoever watches belongs to the tail that is read, also after somebody   *)
(* who left closes a second time.                                          *)
ListenersAreRead ==
    /\ TypeOK
    /\ \A l \in Listeners : sub[l].tail # 0 /\ ~sub[l].closed => sub[l].tail = tail

(* Every event recorded while somebody watches is told to them, and none   *)
(* twice, whatever the clocks and the failing reads: the abstract feed.    *)
EveryEventOnce == Feed!Spec
=============================================================================
