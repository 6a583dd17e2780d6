------------------------ MODULE ExecutionStreamProofs ------------------------
(***************************************************************************)
(* What the shared reader of the event log keeps for any number of         *)
(* listeners, events, clocks and failed reads: whoever watches belongs to  *)
(* the tail that is read, and nobody is told of an event twice, as long as *)
(* the reader remembers almost two windows of events.                      *)
(*                                                                         *)
(* An event that is read again lies within one lookback of the newest.     *)
(* What was remembered after it is younger than a lookback before it       *)
(* (Memory), and older than a lookback after it: two windows, which share  *)
(* the event itself.  So it has not been pruned.                           *)
(***************************************************************************)
EXTENDS ExecutionStream, FiniteSetTheorems, SequenceTheorems, WellFoundedInduction, TLAPS

(* What is remembered holds the events that can be read again.             *)
Remembers == SeenCapacity >= 2 * MaxInWindow - 1

Watching(l) == sub[l].tail # 0 /\ ~sub[l].closed

(* One tail at a time, opened for somebody new; whoever watches is in it.  *)
Tails ==
    /\ tail \in {0, opened}
    /\ tail = 0 => batch = Idle
    /\ \A l \in Listeners : Watching(l) => sub[l].tail = tail
    /\ \A l \in Listeners : sub[l].closed => sub[l].tail # 0
    /\ \A l \in Listeners : from[l] # Away <=> Watching(l)
    /\ opened <= Cardinality({l \in Listeners : sub[l].tail # 0})

(* The rows that were fetched are distinct, in order, and not too old.     *)
Rows ==
    batch # Idle =>
        /\ \A j, k \in DOMAIN batch :
               j < k => batch[j] # batch[k] /\ stamps[batch[j]] <= stamps[batch[k]]
        /\ \A k \in DOMAIN batch : stamps[batch[k]] >= cursor - Lookback

(* What is remembered later is not much older, and nothing is newer than   *)
(* the cursor.                                                             *)
Memory ==
    /\ \A i, j \in DOMAIN seen :
           i < j => seen[i] # seen[j] /\ stamps[seen[j]] >= stamps[seen[i]] - Lookback
    /\ \A i \in DOMAIN seen : stamps[seen[i]] <= cursor

(* Whoever was told of an event that can be read again: it is remembered.  *)
Once ==
    \A l \in Listeners, e \in 1..MaxEvents :
        /\ told[l][e] \in {0, 1}
        /\ told[l][e] = 1 => e \in Events /\ sub[l].tail # 0
        /\ Watching(l) /\ told[l][e] = 1 /\ stamps[e] >= cursor - Lookback =>
               \E i \in DOMAIN seen : seen[i] = e

IInv == TypeOK /\ Sparse(stamps) /\ Tails /\ Rows /\ Memory

-----------------------------------------------------------------------------
(* Events within a lookback of each other.                                 *)

Window(e) == {d \in Events : stamps[d] \in stamps[e]..stamps[e] + Lookback}

LEMMA EventsFinite ==
    ASSUME TypeOK
    PROVE  /\ Len(stamps) \in Nat /\ DOMAIN stamps = Events /\ \A e \in Events : stamps[e] \in Int
           /\ \A S \in SUBSET Events : IsFiniteSet(S) /\ Cardinality(S) \in Nat
<1>1. Len(stamps) \in Nat /\ DOMAIN stamps = Events /\ \A e \in Events : stamps[e] \in Int
  BY DEF TypeOK, Events
<1>2. IsFiniteSet(Events)
  BY <1>1, FS_Interval DEF Events
<1> QED BY <1>1, <1>2, FS_Subset, FS_CardinalityType

LEMMA WindowsAreSparse ==
    ASSUME TypeOK, Sparse(stamps), NEW e \in Events
    PROVE  Cardinality(Window(e)) <= MaxInWindow
BY EventsFinite DEF Sparse, Window

(* Some event of a set is the earliest.                                    *)
LEMMA Earliest ==
    ASSUME TypeOK, NEW S \in SUBSET Events, S # {}
    PROVE  \E e \in S : \A d \in S : stamps[e] <= stamps[d]
<1> DEFINE upTo(e) == {d \in Events : stamps[d] <= stamps[e]}
           segments == {upTo(e) : e \in S}
<1>1. segments \subseteq FiniteSubsetsOf(Events) /\ segments # {}
  BY EventsFinite DEF FiniteSubsetsOf
<1>2. PICK x \in segments : \A y \in segments : ~ (<<y, x>> \in StrictSubsetOrdering(Events))
  <2> HIDE DEF segments
  <2> QED BY <1>1, FS_StrictSubsetOrderingWellFounded, WFMin
<1>3. PICK e \in S : x = upTo(e)
  OBVIOUS
<1>4. ASSUME NEW d \in S, stamps[d] < stamps[e]
      PROVE  FALSE
  <2>1. upTo(d) \in SUBSET Events /\ upTo(e) \in SUBSET Events
    OBVIOUS
  <2>2. upTo(d) \subseteq upTo(e) /\ e \in upTo(e) /\ e \notin upTo(d)
    BY <1>4, EventsFinite
  <2>3. <<upTo(d), upTo(e)>> \in StrictSubsetOrdering(Events)
    BY <2>1, <2>2 DEF StrictSubsetOrdering
  <2>4. upTo(d) \in segments
    OBVIOUS
  <2> QED BY <1>2, <1>3, <2>3, <2>4
<1> QED BY <1>4, EventsFinite

(* Two windows share their event.                                          *)
LEMMA TwoWindows ==
    ASSUME TypeOK, Sparse(stamps), NEW e \in Events, NEW W \in SUBSET Events,
           \A d \in W : stamps[d] \in stamps[e] - Lookback..stamps[e] + Lookback
    PROVE  Cardinality(W) <= 2 * MaxInWindow - 1
<1> USE EventsFinite, StreamAssumption
<1> DEFINE before == {d \in W : stamps[d] < stamps[e]}
<1>1. Cardinality(before) <= MaxInWindow - 1
  <2>1. e \in Window(e)
    BY DEF Window
  <2>2. CASE before = {}
    <3>1. Cardinality(before) = 0
      BY <2>2, FS_EmptySet
    <3>2. Cardinality(Window(e)) # 0
      BY <2>1, FS_EmptySet DEF Window
    <3>3. Cardinality(Window(e)) \in Nat
      BY DEF Window
    <3> QED BY <3>1, <3>2, <3>3, WindowsAreSparse
  <2>3. CASE before # {}
    <3>1. PICK first \in before : \A d \in before : stamps[first] <= stamps[d]
      BY <2>3, Earliest
    <3>2. before \cup {e} \subseteq Window(first)
      BY <3>1 DEF Window
    <3>3. Cardinality(before \cup {e}) <= Cardinality(Window(first))
      BY <3>2, FS_Subset DEF Window
    <3>4. IsFiniteSet(before) /\ Cardinality(before) \in Nat /\ e \notin before
      OBVIOUS
    <3>5. Cardinality(before \cup {e}) = Cardinality(before) + 1
      <4> HIDE DEF before
      <4> QED BY <3>4, FS_AddElement
    <3>6. Cardinality(Window(first)) \in Nat /\ Cardinality(Window(first)) <= MaxInWindow
      BY <3>1, WindowsAreSparse DEF Window
    <3> HIDE DEF before
    <3> QED BY <3>3, <3>4, <3>5, <3>6
  <2> QED BY <2>2, <2>3
<1>2. Cardinality(before \cup Window(e)) <= Cardinality(before) + Cardinality(Window(e))
  <2>1. before \in SUBSET Events /\ Window(e) \in SUBSET Events
    BY DEF Window
  <2> HIDE DEF before
  <2>2. /\ IsFiniteSet(before) /\ IsFiniteSet(Window(e))
        /\ Cardinality(before) \in Nat /\ Cardinality(Window(e)) \in Nat
        /\ Cardinality(before \cap Window(e)) \in Nat
    BY <2>1
  <2>3. Cardinality(before \cup Window(e)) =
            Cardinality(before) + Cardinality(Window(e)) - Cardinality(before \cap Window(e))
    BY <2>2, FS_Union
  <2> QED BY <2>2, <2>3
<1>3. W \subseteq before \cup Window(e)
  BY DEF Window
<1>4. Cardinality(W) <= Cardinality(before \cup Window(e))
  <2>1. before \cup Window(e) \in SUBSET Events
    BY DEF Window
  <2> HIDE DEF before
  <2> QED BY <1>3, <2>1, FS_Subset
<1>5. /\ Cardinality(W) \in Nat /\ Cardinality(before) \in Nat
      /\ Cardinality(Window(e)) \in Nat /\ Cardinality(before \cup Window(e)) \in Nat
  BY DEF Window
<1> HIDE DEF before
<1> QED BY <1>1, <1>2, <1>4, <1>5, WindowsAreSparse

-----------------------------------------------------------------------------
(* Rows and what is remembered.                                            *)

LEMMA PruneKeepsTheLast ==
    ASSUME NEW S, NEW ids \in Seq(S), NEW left, left = Prune(ids)
    PROVE  /\ left \in Seq(S) /\ Len(left) \in 0..SeenCapacity /\ Len(left) <= Len(ids)
           /\ Len(left) < Len(ids) => Len(left) = SeenCapacity
           /\ \A i \in 1..Len(left) : left[i] = ids[i + (Len(ids) - Len(left))]
<1> USE StreamAssumption
<1>1. Len(ids) \in Nat /\ \A i \in 1..Len(ids) : ids[i] \in S
  OBVIOUS
<1>2. CASE Len(ids) > SeenCapacity
  <2> DEFINE n == Len(ids)
             m == n - SeenCapacity + 1
  <2>1. m \in Int /\ n \in Int /\ m <= n + 1 /\ n - m + 1 = SeenCapacity /\ \A i \in m..n : ids[i] \in S
    BY <1>1, <1>2
  <2>2. left = SubSeq(ids, m, n)
    BY <1>2 DEF Prune
  <2> HIDE DEF n, m
  <2>3. /\ left \in Seq(S) /\ Len(left) = (IF m <= n THEN n - m + 1 ELSE 0)
        /\ \A i \in 1..n - m + 1 : left[i] = ids[m + i - 1]
    BY <2>1, <2>2, SubSeqProperties
  <2>4. Len(left) = SeenCapacity
    BY <2>1, <2>3
  <2>5. \A i \in 1..Len(left) : left[i] = ids[i + (n - Len(left))]
    <3>1. \A i \in 1..Len(left) : m + i - 1 = i + (n - Len(left))
      BY <2>1, <2>4
    <3> QED BY <2>1, <2>3, <2>4, <3>1
  <2> QED BY <1>2, <2>3, <2>4, <2>5 DEF n
<1>3. CASE Len(ids) <= SeenCapacity
  <2>1. left = ids
    BY <1>1, <1>3 DEF Prune
  <2> QED BY <1>1, <1>3, <2>1
<1> QED BY <1>1, <1>2, <1>3

(* The new rows are some of the batch's, in its order, not remembered.     *)
LEMMA FreshRows ==
    ASSUME TypeOK, batch \in Seq(Events), NEW fresh \in Fresh
    PROVE  /\ fresh \in Seq(Events)
           /\ \E row \in [1..Len(fresh) -> 1..Len(batch)] :
                  /\ \A j, k \in 1..Len(fresh) : j < k => row[j] < row[k]
                  /\ \A k \in 1..Len(fresh) : fresh[k] = batch[row[k]] /\ IsNew(fresh[k])
<1> DEFINE new == {i \in DOMAIN batch : IsNew(batch[i])}
           n == Cardinality(new)
<1>1. DOMAIN batch = 1..Len(batch) /\ Len(batch) \in Nat /\ \A i \in 1..Len(batch) : batch[i] \in Events
  OBVIOUS
<1>2. n \in Nat
  <2>1. new \in SUBSET (1..Len(batch)) /\ IsFiniteSet(1..Len(batch))
    BY <1>1, FS_Interval
  <2> HIDE DEF new
  <2> QED BY <2>1, FS_Subset, FS_CardinalityType
<1>3. PICK row \in [1..n -> new] : /\ \A j, k \in DOMAIN row : j < k => row[j] < row[k]
                                   /\ fresh = [k \in DOMAIN row |-> batch[row[k]]]
  BY DEF Fresh
<1>4. \A k \in 1..n : row[k] \in 1..Len(batch) /\ IsNew(batch[row[k]]) /\ batch[row[k]] \in Events
  BY <1>1, <1>3
<1>5. fresh \in [1..n -> Events]
  BY <1>3, <1>4
<1> HIDE DEF n, new
<1>6. fresh \in Seq(Events) /\ Len(fresh) = n
  BY <1>2, <1>5
<1>7. row \in [1..n -> 1..Len(batch)]
  BY <1>3, <1>4
<1> QED BY <1>3, <1>4, <1>6, <1>7

-----------------------------------------------------------------------------
(* The steps.                                                              *)

LEMMA InitSound ==
    ASSUME Init
    PROVE  IInv /\ Once
<1> USE StreamAssumption DEF Init
<1>1. TypeOK
  <2>1. Cardinality(Listeners) \in Nat
    BY FS_CardinalityType
  <2>2. stamps = <<>> /\ seen = <<>> /\ batch = Idle /\ Len(Idle) = 1
    BY DEF Idle
  <2> QED BY <2>1, <2>2 DEF TypeOK, Events, Away
<1>2. Sparse(stamps) /\ Rows /\ Memory
  BY DEF Sparse, Rows, Memory
<1>3. Tails
  <2> DEFINE came == {l \in Listeners : sub[l].tail # 0}
  <2>1. came = {} /\ opened = 0
    OBVIOUS
  <2>2. opened <= Cardinality(came)
    <3> HIDE DEF came, Init
    <3> QED BY <2>1, FS_EmptySet
  <2>3. \A l \in Listeners : from[l] = Away /\ sub[l].tail = 0
    OBVIOUS
  <2> QED BY <2>2, <2>3 DEF Tails, Watching
<1>4. Once
  BY DEF Once, Watching
<1> QED BY <1>1, <1>2, <1>3, <1>4 DEF IInv

(* An event is recorded: those there were keep their stamps.               *)
LEMMA RecordSound ==
    ASSUME IInv, Record
    PROVE  IInv' /\ (Once => Once')
<1> USE StreamAssumption, DriftAssumption
<1>1. PICK d \in Drifts : stamps' = Append(stamps, now + d)
  BY DEF Record
<1>2. /\ stamps \in Seq(Int) /\ Len(stamps) \in Nat /\ Len(stamps) < MaxEvents /\ now + d \in Int
      /\ UNCHANGED <<now, tail, cursor, seen, batch, sub, opened, from, told>>
  BY DEF IInv, TypeOK, Record
<1>3. /\ stamps' \in Seq(Int) /\ Len(stamps') = Len(stamps) + 1
      /\ Events \subseteq Events' /\ \A e \in Events : stamps'[e] = stamps[e]
  BY <1>1, <1>2 DEF Events
<1>4. /\ seen \in Seq(Events') /\ batch \in {Idle} \cup Seq(Events')
      /\ seen \in [DOMAIN seen -> Events] /\ (batch # Idle => batch \in [DOMAIN batch -> Events])
  <2>1. seen \in Seq(Events) /\ batch \in {Idle} \cup Seq(Events)
    BY DEF IInv, TypeOK
  <2> QED BY <1>3, <2>1, SeqMonotonic, LenProperties
<1>5. TypeOK'
  <2>1. /\ now \in 0..MaxTime /\ tail \in 0..opened /\ opened \in 0..Cardinality(Listeners)
        /\ cursor \in Int /\ Len(seen) <= SeenCapacity /\ Len(batch) <= BatchLimit
        /\ sub \in [Listeners -> [tail: 0..opened, closed: BOOLEAN]]
        /\ from \in [Listeners -> 0..Away] /\ told \in [Listeners -> [1..MaxEvents -> Nat]]
    BY DEF IInv, TypeOK
  <2>2. Len(stamps') <= MaxEvents
    BY <1>2, <1>3
  <2> QED BY <1>2, <1>3, <1>4, <2>1, <2>2 DEF TypeOK, Away, Idle
<1>6. Tails'
  BY <1>2 DEF IInv, Tails, Watching, Away, Idle
<1>7. Rows'
  BY <1>2, <1>3, <1>4 DEF IInv, Rows, Idle
<1>8. Memory'
  BY <1>2, <1>3, <1>4 DEF IInv, Memory
<1>9. Once => Once'
  BY <1>2, <1>3 DEF Once, Watching
<1>10. Sparse(stamps)'
  BY DEF Record, Sparse
<1> QED BY <1>5, <1>6, <1>7, <1>8, <1>9, <1>10 DEF IInv

LEMMA PassSound ==
    ASSUME IInv, Pass
    PROVE  IInv' /\ (Once => Once')
<1>1. now' \in 0..MaxTime /\ UNCHANGED <<stamps, tail, cursor, seen, batch, sub, opened, from, told>>
  BY StreamAssumption DEF IInv, TypeOK, Pass
<1> QED BY <1>1 DEF IInv, TypeOK, Sparse, Tails, Rows, Memory, Once, Watching, Events, Away, Idle

(* Whoever comes finds the tail that is open, or opens one, which nobody   *)
(* else watches; they come once, and have been told of nothing.            *)
LEMMA SubscribeSound ==
    ASSUME IInv, NEW l \in Listeners, Subscribe(l)
    PROVE  IInv' /\ (Once => Once')
<1> USE StreamAssumption
<1>1. /\ sub[l].tail = 0 /\ sub' = [sub EXCEPT ![l].tail = tail'] /\ from' = [from EXCEPT ![l] = Len(stamps)]
      /\ UNCHANGED <<now, stamps, told>>
  BY DEF Subscribe
<1>2. \/ tail # 0 /\ UNCHANGED <<tail, cursor, seen, batch, opened>>
      \/ tail = 0 /\ opened' = opened + 1 /\ tail' = opened' /\ cursor' = now /\ seen' = <<>> /\ batch' = Idle
  BY DEF Subscribe
<1>3. /\ sub \in [Listeners -> [tail: 0..opened, closed: BOOLEAN]] /\ from \in [Listeners -> 0..Away]
      /\ tail \in 0..opened /\ opened \in Nat /\ cursor \in Int /\ now \in Int
      /\ Len(stamps) \in 0..MaxEvents
  <2>1. Cardinality(Listeners) \in Nat
    BY FS_CardinalityType
  <2> QED BY <2>1 DEF IInv, TypeOK
<1>4. tail' \in 1..opened' /\ opened' \in Nat /\ opened <= opened' /\ cursor' \in Int
  BY <1>2, <1>3
<1>5. /\ sub' \in [Listeners -> [tail: 0..opened', closed: BOOLEAN]]
      /\ sub'[l].tail = tail' /\ sub'[l].closed = sub[l].closed /\ \A k \in Listeners \ {l} : sub'[k] = sub[k]
  <2>1. sub' \in [Listeners -> [tail: 0..opened', closed: BOOLEAN]]
    <3>1. sub \in [Listeners -> [tail: 0..opened', closed: BOOLEAN]]
      BY <1>3, <1>4
    <3>2. tail' \in 0..opened'
      BY <1>4
    <3> QED BY <1>1, <3>1, <3>2
  <2> QED BY <1>1, <1>3, <2>1
<1>6. from' \in [Listeners -> 0..Away] /\ from'[l] # Away /\ \A k \in Listeners \ {l} : from'[k] = from[k]
  BY <1>1, <1>3 DEF Away
<1>7. opened' <= Cardinality({k \in Listeners : sub'[k].tail # 0})
  <2> DEFINE came == {k \in Listeners : sub[k].tail # 0}
  <2>1. {k \in Listeners : sub'[k].tail # 0} = came \cup {l} /\ l \notin came
    BY <1>1, <1>4, <1>5
  <2>2. IsFiniteSet(came) /\ Cardinality(came) \in Nat
    BY FS_Subset, FS_CardinalityType
  <2>3. opened <= Cardinality(came)
    BY DEF IInv, Tails
  <2> HIDE DEF came
  <2>4. Cardinality(came \cup {l}) = Cardinality(came) + 1
    BY <2>1, <2>2, FS_AddElement
  <2>5. Cardinality({k \in Listeners : sub'[k].tail # 0}) = Cardinality(came) + 1
    BY <2>1, <2>4
  <2>6. opened' <= opened + 1
    BY <1>2, <1>3
  <2> QED BY <1>3, <1>4, <2>2, <2>3, <2>5, <2>6
<1>8. TypeOK'
  <2>1. opened' \in 0..Cardinality(Listeners)
    <3>1. {k \in Listeners : sub'[k].tail # 0} \in SUBSET Listeners
      OBVIOUS
    <3>2. Cardinality({k \in Listeners : sub'[k].tail # 0}) <= Cardinality(Listeners)
      BY <3>1, FS_Subset
    <3>3. /\ Cardinality({k \in Listeners : sub'[k].tail # 0}) \in Nat /\ Cardinality(Listeners) \in Nat
      BY <3>1, FS_Subset, FS_CardinalityType
    <3> QED BY <1>4, <1>7, <3>2, <3>3
  <2>2. seen' \in Seq(Events) /\ Len(seen') <= SeenCapacity
    <3>1. seen' = seen \/ seen' = <<>>
      BY <1>2
    <3>2. seen \in Seq(Events) /\ Len(seen) <= SeenCapacity
      BY DEF IInv, TypeOK
    <3>3. <<>> \in Seq(Events) /\ Len(<<>>) = 0
      BY EmptySeq
    <3>4. CASE seen' = seen
      BY <3>2, <3>4
    <3>5. CASE seen' = <<>>
      BY <3>3, <3>5
    <3> QED BY <3>1, <3>4, <3>5
  <2>3. batch' \in {Idle} \cup Seq(Events) /\ Len(batch') <= BatchLimit
    <3>1. batch' = batch \/ batch' = Idle
      BY <1>2
    <3>2. batch \in {Idle} \cup Seq(Events) /\ Len(batch) <= BatchLimit
      BY DEF IInv, TypeOK
    <3>3. Len(Idle) = 1
      BY DEF Idle
    <3>4. CASE batch' = batch
      BY <3>2, <3>4
    <3>5. CASE batch' = Idle
      BY <3>3, <3>5
    <3> QED BY <3>1, <3>4, <3>5
  <2>4. /\ now \in 0..MaxTime /\ stamps \in Seq(Int) /\ Len(stamps) <= MaxEvents
        /\ told \in [Listeners -> [1..MaxEvents -> Nat]]
    BY DEF IInv, TypeOK
  <2> QED BY <1>1, <1>4, <1>5, <1>6, <2>1, <2>2, <2>3, <2>4 DEF TypeOK, Events, Away, Idle
<1>9. Tails'
  <2>1. ~sub[l].closed
    BY <1>1 DEF IInv, Tails
  <2>2. \A k \in Listeners : Watching(k) => tail # 0 /\ sub[k].tail = tail
    BY DEF IInv, Tails, Watching
  <2>3. tail' \in {0, opened'} /\ (tail' = 0 => batch' = Idle)
    BY <1>2, <1>4 DEF IInv, Tails
  <2>4. \A k \in Listeners : Watching(k)' <=> k = l \/ Watching(k)
    BY <1>4, <1>5, <2>1 DEF Watching
  <2>5. \A k \in Listeners : Watching(k)' => sub'[k].tail = tail'
    BY <1>2, <1>5, <2>2, <2>4
  <2>6. \A k \in Listeners : from'[k] # Away <=> Watching(k)'
    BY <1>6, <2>4 DEF IInv, Tails
  <2>7. \A k \in Listeners : sub'[k].closed => sub'[k].tail # 0
    BY <1>5, <2>1 DEF IInv, Tails
  <2> QED BY <1>7, <2>3, <2>5, <2>6, <2>7 DEF Tails, Watching, Away, Idle
<1>10. Rows' /\ Memory' /\ Sparse(stamps)'
  BY <1>1, <1>2 DEF IInv, Rows, Memory, Sparse, Idle
<1>11. Once => Once'
  <2> SUFFICES ASSUME Once, NEW k \in Listeners, NEW e \in 1..MaxEvents
               PROVE  /\ told[k][e] \in {0, 1}
                      /\ told[k][e] = 1 => e \in Events /\ sub'[k].tail # 0
                      /\ Watching(k)' /\ told[k][e] = 1 /\ stamps[e] >= cursor' - Lookback =>
                             \E i \in DOMAIN seen' : seen'[i] = e
    BY <1>1 DEF Once, Watching, Events
  <2>1. told[k][e] \in {0, 1} /\ (told[k][e] = 1 => e \in Events /\ sub[k].tail # 0)
    BY DEF Once
  <2>2. CASE k = l
    BY <1>1, <2>1, <2>2
  <2>3. CASE k # l
    <3>1. sub'[k] = sub[k] /\ (Watching(k)' <=> Watching(k))
      BY <1>5, <2>3 DEF Watching
    <3>2. Watching(k) => UNCHANGED <<cursor, seen>>
      BY <1>2 DEF IInv, Tails, Watching
    <3>3. Watching(k) /\ told[k][e] = 1 /\ stamps[e] >= cursor - Lookback => \E i \in DOMAIN seen : seen[i] = e
      BY DEF Once
    <3> QED BY <2>1, <3>1, <3>2, <3>3
  <2> QED BY <2>2, <2>3
<1> QED BY <1>8, <1>9, <1>10, <1>11 DEF IInv

(* Whoever leaves was in the tail; if nobody else is, the tail goes.       *)
LEMMA CloseSound ==
    ASSUME IInv, NEW l \in Listeners, Close(l)
    PROVE  IInv' /\ (Once => Once')
<1> USE StreamAssumption
<1>1. /\ sub[l].tail # 0 /\ ~sub[l].closed
      /\ sub' = [sub EXCEPT ![l].closed = TRUE] /\ from' = [from EXCEPT ![l] = Away]
      /\ UNCHANGED <<now, stamps, opened, told>>
  BY DEF Close, Closable
<1>2. \/ Told(sub[l].tail) \subseteq {l} /\ tail' = 0 /\ cursor' = 0 /\ seen' = <<>> /\ batch' = Idle
      \/ ~(Told(sub[l].tail) \subseteq {l}) /\ UNCHANGED <<tail, cursor, seen, batch>>
  BY DEF Close
<1>3. /\ sub \in [Listeners -> [tail: 0..opened, closed: BOOLEAN]] /\ from \in [Listeners -> 0..Away]
      /\ tail \in 0..opened /\ opened \in 0..Cardinality(Listeners) /\ cursor \in Int /\ Away \in Nat
  BY DEF IInv, TypeOK, Away
<1>4. /\ sub' \in [Listeners -> [tail: 0..opened, closed: BOOLEAN]]
      /\ \A k \in Listeners : sub'[k].tail = sub[k].tail
      /\ sub'[l].closed /\ \A k \in Listeners \ {l} : sub'[k] = sub[k]
  BY <1>1, <1>3
<1>5. from' \in [Listeners -> 0..Away] /\ from'[l] = Away /\ \A k \in Listeners \ {l} : from'[k] = from[k]
  BY <1>1, <1>3
<1>6. \A k \in Listeners : Watching(k)' <=> k # l /\ Watching(k)
  BY <1>4 DEF Watching
<1>7. TypeOK'
  <2>1. tail' \in 0..opened' /\ cursor' \in Int /\ opened' = opened
    BY <1>1, <1>2, <1>3
  <2>2. seen' \in Seq(Events) /\ Len(seen') <= SeenCapacity
    <3>1. CASE seen' = seen
      BY <3>1 DEF IInv, TypeOK
    <3>2. CASE seen' = <<>>
      <4>1. <<>> \in Seq(Events) /\ Len(<<>>) = 0
        BY EmptySeq
      <4> QED BY <3>2, <4>1
    <3> QED BY <1>2, <3>1, <3>2
  <2>3. batch' \in {Idle} \cup Seq(Events) /\ Len(batch') <= BatchLimit
    <3>1. CASE batch' = batch
      BY <3>1 DEF IInv, TypeOK
    <3>2. CASE batch' = Idle
      <4>1. Len(Idle) = 1
        BY DEF Idle
      <4> QED BY <3>2, <4>1
    <3> QED BY <1>2, <3>1, <3>2
  <2>4. /\ now \in 0..MaxTime /\ stamps \in Seq(Int) /\ Len(stamps) <= MaxEvents
        /\ told \in [Listeners -> [1..MaxEvents -> Nat]]
    BY DEF IInv, TypeOK
  <2> QED BY <1>1, <1>3, <1>4, <1>5, <2>1, <2>2, <2>3, <2>4 DEF TypeOK, Events, Away, Idle
<1>8. tail' = tail \/ (tail' = 0 /\ \A k \in Listeners : Watching(k) => k = l)
  <2>1. \A k \in Listeners : Watching(k) => sub[k].tail = tail
    BY DEF IInv, Tails
  <2>2. sub[l].tail = tail
    BY <1>1, <2>1 DEF Watching
  <2>3. \A k \in Listeners : Watching(k) => k \in Told(sub[l].tail)
    BY <1>1, <2>1, <2>2 DEF Told, Watching
  <2> QED BY <1>2, <2>3
<1>9. Tails'
  <2>1. tail' \in {0, opened} /\ (tail' = 0 => batch' = Idle)
    BY <1>2 DEF IInv, Tails
  <2>2. \A k \in Listeners : Watching(k)' => sub'[k].tail = tail'
    BY <1>4, <1>6, <1>8 DEF IInv, Tails
  <2>3. \A k \in Listeners : sub'[k].closed => sub'[k].tail # 0
    BY <1>1, <1>4 DEF IInv, Tails
  <2>4. \A k \in Listeners : from'[k] # Away <=> Watching(k)'
    BY <1>5, <1>6 DEF IInv, Tails
  <2>5. {k \in Listeners : sub'[k].tail # 0} = {k \in Listeners : sub[k].tail # 0}
    BY <1>4
  <2>6. opened <= Cardinality({k \in Listeners : sub[k].tail # 0})
    BY DEF IInv, Tails
  <2> QED BY <1>1, <2>1, <2>2, <2>3, <2>4, <2>5, <2>6 DEF Tails, Watching, Away, Idle
<1>10. Rows' /\ Memory' /\ Sparse(stamps)'
  BY <1>1, <1>2 DEF IInv, Rows, Memory, Sparse, Idle
<1>11. Once => Once'
  <2> SUFFICES ASSUME Once, NEW k \in Listeners, NEW e \in 1..MaxEvents
               PROVE  /\ told[k][e] \in {0, 1}
                      /\ told[k][e] = 1 => e \in Events /\ sub'[k].tail # 0
                      /\ Watching(k)' /\ told[k][e] = 1 /\ stamps[e] >= cursor' - Lookback =>
                             \E i \in DOMAIN seen' : seen'[i] = e
    BY <1>1 DEF Once, Watching, Events
  <2>1. /\ told[k][e] \in {0, 1} /\ (told[k][e] = 1 => e \in Events /\ sub[k].tail # 0)
        /\ Watching(k) /\ told[k][e] = 1 /\ stamps[e] >= cursor - Lookback => \E i \in DOMAIN seen : seen[i] = e
    BY DEF Once
  <2>2. Watching(k)' => Watching(k) /\ UNCHANGED <<cursor, seen>>
    <3>1. Watching(k) => sub[k].tail = tail /\ tail # 0
      BY DEF IInv, Tails, Watching
    <3> QED BY <1>2, <1>6, <1>8, <3>1
  <2> QED BY <1>4, <2>1, <2>2
<1> QED BY <1>7, <1>9, <1>10, <1>11 DEF IInv

(* The rows that are fetched, or that no row is held any more.             *)
LEMMA BatchTyped ==
    ASSUME TypeOK, NEW rows \in Batches
    PROVE  /\ rows \in Seq(Events) /\ Len(rows) <= BatchLimit
           /\ \A j, k \in DOMAIN rows : j < k => rows[j] # rows[k] /\ stamps[rows[j]] <= stamps[rows[k]]
           /\ \A k \in DOMAIN rows : stamps[rows[k]] >= Since
<1> USE StreamAssumption
<1> DEFINE found == {e \in Events : stamps[e] >= Since}
           size  == IF Cardinality(found) < BatchLimit THEN Cardinality(found) ELSE BatchLimit
<1>1. size \in Nat /\ size <= BatchLimit
  <2>1. Cardinality(found) \in Nat
    BY EventsFinite
  <2> HIDE DEF found
  <2> QED BY <2>1
<1>2. /\ rows \in [1..size -> found]
      /\ \A i, j \in 1..size : i < j => rows[i] # rows[j] /\ stamps[rows[i]] <= stamps[rows[j]]
  BY DEF Batches
<1> HIDE DEF size
<1>3. rows \in [1..size -> Events] /\ \A k \in 1..size : stamps[rows[k]] >= Since
  BY <1>2
<1>4. rows \in Seq(Events) /\ Len(rows) = size
  BY <1>1, <1>3
<1> QED BY <1>1, <1>2, <1>3, <1>4

LEMMA FetchSound ==
    ASSUME IInv, Fetch
    PROVE  IInv' /\ (Once => Once')
<1> USE StreamAssumption
<1>1. tail # 0 /\ batch' \in Batches /\ UNCHANGED <<now, stamps, opened, from, tail, cursor, seen, sub, told>>
  BY DEF Fetch, rest
<1>2. /\ batch' \in Seq(Events) /\ Len(batch') <= BatchLimit
      /\ \A j, k \in DOMAIN batch' : j < k => batch'[j] # batch'[k] /\ stamps[batch'[j]] <= stamps[batch'[k]]
      /\ \A k \in DOMAIN batch' : stamps[batch'[k]] >= Since
  <2>1. TypeOK
    BY DEF IInv
  <2> QED BY <1>1, <2>1, BatchTyped
<1>3. TypeOK'
  BY <1>1, <1>2 DEF IInv, TypeOK, Events, Away, Idle
<1>4. Tails' /\ Memory' /\ Sparse(stamps)'
  BY <1>1 DEF IInv, Tails, Memory, Sparse, Watching, Away, Idle
<1>5. Rows'
  BY <1>1, <1>2 DEF Rows, Since
<1>6. Once => Once'
  BY <1>1 DEF Once, Watching, Events
<1> QED BY <1>3, <1>4, <1>5, <1>6 DEF IInv

LEMMA FailSound ==
    ASSUME IInv, Fail
    PROVE  IInv' /\ (Once => Once')
<1> USE StreamAssumption
<1>1. batch' = Idle /\ UNCHANGED <<now, stamps, opened, from, tail, cursor, seen, sub, told>>
  BY DEF Fail, rest
<1>2. TypeOK'
  <2>1. Len(Idle) = 1
    BY DEF Idle
  <2> QED BY <1>1, <2>1 DEF IInv, TypeOK, Events, Away, Idle
<1>3. Tails' /\ Memory' /\ Sparse(stamps)' /\ Rows'
  BY <1>1 DEF IInv, Tails, Memory, Sparse, Rows, Watching, Away, Idle
<1>4. Once => Once'
  BY <1>1 DEF Once, Watching, Events
<1> QED BY <1>2, <1>3, <1>4 DEF IInv

-----------------------------------------------------------------------------
(* What a read does with its rows.                                         *)

(* Distinct events, none much older than one before it.                    *)
Ordered(ids) ==
    \A i, j \in 1..Len(ids) : i < j => ids[i] # ids[j] /\ stamps[ids[j]] >= stamps[ids[i]] - Lookback

(* An event that can be read again is among the last that were remembered. *)
LEMMA Recent ==
    ASSUME TypeOK, Sparse(stamps), Remembers, NEW ids \in Seq(Events), Ordered(ids),
           NEW p \in 1..Len(ids), \A i \in 1..Len(ids) : stamps[ids[i]] <= stamps[ids[p]] + Lookback
    PROVE  Len(ids) - p + 1 <= SeenCapacity
<1> USE StreamAssumption
<1> DEFINE n == Len(ids)
           W == {ids[i] : i \in p..n}
           f == [i \in p..n |-> ids[i]]
<1>1. n \in Nat /\ p \in 1..n /\ \A i \in 1..n : ids[i] \in Events
  OBVIOUS
<1>2. \A d \in W : d \in Events /\ stamps[d] \in stamps[ids[p]] - Lookback..stamps[ids[p]] + Lookback
  <2> SUFFICES ASSUME NEW i \in p..n
               PROVE  ids[i] \in Events /\ stamps[ids[i]] \in stamps[ids[p]] - Lookback..stamps[ids[p]] + Lookback
    OBVIOUS
  <2>1. i \in 1..n /\ i >= p /\ stamps[ids[i]] \in Int /\ stamps[ids[p]] \in Int /\ ids[i] \in Events
    BY <1>1, EventsFinite
  <2>2. stamps[ids[i]] >= stamps[ids[p]] - Lookback
    BY <1>1, <2>1 DEF Ordered
  <2> QED BY <2>1, <2>2
<1>3. Cardinality(W) <= 2 * MaxInWindow - 1
  <2>1. W \in SUBSET Events /\ ids[p] \in Events
    BY <1>1, <1>2
  <2> HIDE DEF W
  <2> QED BY <1>2, <2>1, TwoWindows
<1>4. f \in Injection(p..n, W)
  <2>1. f \in [p..n -> W]
    OBVIOUS
  <2>2. \A i, j \in p..n : f[i] = f[j] => i = j
    <3>1. \A i, j \in p..n : i < j => ids[i] # ids[j]
      BY <1>1 DEF Ordered
    <3> QED BY <1>1, <3>1
  <2> QED BY <2>1, <2>2 DEF Injection, IsInjective
<1>5. IsFiniteSet(W) /\ Cardinality(W) \in Nat
  <2>1. W \in SUBSET Events
    BY <1>2
  <2> HIDE DEF W
  <2> QED BY <2>1, EventsFinite
<1>6. Cardinality(p..n) <= Cardinality(W)
  <2> HIDE DEF f, W
  <2> QED BY <1>4, <1>5, FS_Injection
<1>7. Cardinality(p..n) = n - p + 1
  <2>1. p \in Int /\ n \in Int /\ p <= n
    BY <1>1
  <2> HIDE DEF n
  <2> QED BY <2>1, FS_Interval
<1> HIDE DEF W, n
<1>8. n - p + 1 <= SeenCapacity
  BY <1>1, <1>3, <1>5, <1>6, <1>7 DEF Remembers
<1> QED BY <1>8 DEF n

(* The rows in hand, the memory and the cursor, as functions of intervals. *)
LEMMA InHand ==
    ASSUME IInv, batch # Idle
    PROVE  /\ Len(seen) \in Nat /\ DOMAIN seen = 1..Len(seen) /\ cursor \in Int
           /\ \A i \in 1..Len(seen) : seen[i] \in Events /\ stamps[seen[i]] \in Int
           /\ batch \in Seq(Events) /\ Len(batch) \in Nat /\ DOMAIN batch = 1..Len(batch)
           /\ \A k \in 1..Len(batch) : batch[k] \in Events /\ stamps[batch[k]] \in Int
<1>1. seen \in Seq(Events) /\ batch \in Seq(Events) /\ cursor \in Int
  BY DEF IInv, TypeOK
<1>2. \A e \in Events : stamps[e] \in Int
  BY EventsFinite DEF IInv
<1> QED BY <1>1, <1>2

LEMMA NewestIsNewest ==
    ASSUME IInv, batch # Idle, NEW c, c = (IF Newest > cursor THEN Newest ELSE cursor)
    PROVE  c \in Int /\ c >= cursor /\ \A k \in 1..Len(batch) : stamps[batch[k]] <= c
<1>1. CASE batch = <<>>
  <2>1. Newest = cursor
    BY <1>1 DEF Newest
  <2> QED BY <1>1, <2>1, InHand
<1>2. CASE batch # <<>>
  <2>1. Len(batch) \in 1..Len(batch)
    BY <1>2, InHand
  <2>2. \A k \in 1..Len(batch) : k < Len(batch) => stamps[batch[k]] <= stamps[batch[Len(batch)]]
    BY <2>1, InHand DEF IInv, Rows
  <2>3. Newest = stamps[batch[Len(batch)]] /\ Newest \in Int
    BY <1>2, <2>1, InHand DEF Newest
  <2> QED BY <2>1, <2>2, <2>3, InHand
<1> QED BY <1>1, <1>2

(* The memory and the new rows, one after the other.                       *)
JoinedIn(ids, fresh) ==
    /\ ids \in Seq(Events) /\ Ordered(ids)
    /\ fresh \in Seq(Events) /\ Len(ids) = Len(seen) + Len(fresh)
    /\ \A i \in 1..Len(seen) : i \in 1..Len(ids) /\ ids[i] = seen[i]
    /\ \A k \in 1..Len(fresh) :
           /\ Len(seen) + k \in 1..Len(ids) /\ ids[Len(seen) + k] = fresh[k]
           /\ IsNew(fresh[k]) /\ stamps[fresh[k]] >= cursor - Lookback

LEMMA Joined ==
    ASSUME IInv, batch # Idle, NEW fresh \in Fresh, NEW ids, ids = seen \o fresh,
           NEW c \in Int, c >= cursor, \A k \in 1..Len(batch) : stamps[batch[k]] <= c
    PROVE  JoinedIn(ids, fresh) /\ \A i \in 1..Len(ids) : stamps[ids[i]] <= c
<1> USE StreamAssumption
<1> DEFINE n == Len(seen)
           m == Len(fresh)
<1>1. TypeOK /\ seen \in Seq(Events)
  BY DEF IInv, TypeOK
<1>2. /\ fresh \in Seq(Events) /\ n \in Nat /\ m \in Nat
      /\ \A k \in 1..m : fresh[k] \in Events /\ stamps[fresh[k]] \in Int
  <2>1. fresh \in Seq(Events)
    BY <1>1, FreshRows, InHand
  <2>2. \A k \in 1..m : fresh[k] \in Events
    BY <2>1
  <2> QED BY <1>1, <2>1, <2>2, EventsFinite
<1>3. PICK row \in [1..m -> 1..Len(batch)] :
          /\ \A j, k \in 1..m : j < k => row[j] < row[k]
          /\ \A k \in 1..m : fresh[k] = batch[row[k]] /\ IsNew(fresh[k])
  BY <1>1, FreshRows, InHand
<1>4. /\ ids \in Seq(Events) /\ Len(ids) = n + m
      /\ \A i \in 1..n + m : ids[i] = IF i <= n THEN seen[i] ELSE fresh[i - n]
  BY <1>1, <1>2, ConcatProperties
<1>5. n \in Nat /\ m \in Nat
  BY <1>2
<1>6. \A i \in 1..n + m : ids[i] = IF i <= n THEN seen[i] ELSE fresh[i - n]
  BY <1>4
<1>7. /\ \A i \in 1..n + m : i \in 1..n \/ i \in n + 1..n + m
      /\ \A i \in 1..n : i \in 1..n + m /\ i <= n
      /\ \A i \in n + 1..n + m : i \in 1..n + m /\ ~(i <= n) /\ i - n \in 1..m
      /\ \A k \in 1..m : n + k \in n + 1..n + m /\ (n + k) - n = k /\ n + k \in 1..n + m
  <2> HIDE DEF n, m
  <2> QED BY <1>5
<1> HIDE DEF n, m
<1>8. \A k \in 1..m :
          row[k] \in 1..Len(batch) /\ stamps[fresh[k]] >= cursor - Lookback /\ stamps[fresh[k]] <= c
  <2>1. \A k \in 1..Len(batch) : stamps[batch[k]] >= cursor - Lookback
    BY InHand DEF IInv, Rows
  <2> QED BY <1>3, <2>1
<1>9. \A j, k \in 1..m : j < k => fresh[j] # fresh[k] /\ stamps[fresh[j]] <= stamps[fresh[k]]
  <2>1. \A j, k \in 1..Len(batch) : j < k => batch[j] # batch[k] /\ stamps[batch[j]] <= stamps[batch[k]]
    BY InHand DEF IInv, Rows
  <2> SUFFICES ASSUME NEW j \in 1..m, NEW k \in 1..m, j < k
               PROVE  fresh[j] # fresh[k] /\ stamps[fresh[j]] <= stamps[fresh[k]]
    OBVIOUS
  <2>2. row[j] \in 1..Len(batch) /\ row[k] \in 1..Len(batch) /\ row[j] < row[k]
    BY <1>3
  <2>3. fresh[j] = batch[row[j]] /\ fresh[k] = batch[row[k]]
    BY <1>3
  <2> QED BY <2>1, <2>2, <2>3
<1>10. \A k \in 1..m, i \in 1..n : seen[i] # fresh[k]
  BY <1>3, InHand DEF IsNew, n
<1>11. \A i, j \in 1..n : i < j => seen[i] # seen[j] /\ stamps[seen[j]] >= stamps[seen[i]] - Lookback
  BY InHand DEF IInv, Memory, n
<1>12. \A i \in 1..n : stamps[seen[i]] <= cursor /\ stamps[seen[i]] \in Int /\ seen[i] \in Events
  BY InHand DEF IInv, Memory, n
<1>13. \A i \in 1..n : ids[i] = seen[i]
  <2> SUFFICES ASSUME NEW i \in 1..n PROVE ids[i] = seen[i]
    OBVIOUS
  <2>1. i \in 1..n + m /\ i <= n
    BY <1>5, <1>7
  <2> QED BY <1>6, <2>1
<1>14. \A i \in n + 1..n + m : ids[i] = fresh[i - n] /\ i - n \in 1..m
  <2> SUFFICES ASSUME NEW i \in n + 1..n + m PROVE ids[i] = fresh[i - n] /\ i - n \in 1..m
    OBVIOUS
  <2>1. i \in 1..n + m /\ ~(i <= n) /\ i - n \in 1..m
    BY <1>5, <1>7
  <2> QED BY <1>6, <2>1
<1>15. Ordered(ids)
  <2> SUFFICES ASSUME NEW i \in 1..n + m, NEW j \in 1..n + m, i < j
               PROVE  ids[i] # ids[j] /\ stamps[ids[j]] >= stamps[ids[i]] - Lookback
    BY <1>4 DEF Ordered
  <2>1. CASE j \in 1..n
    <3>1. i \in 1..n
      BY <1>5, <2>1
    <3> QED BY <1>11, <1>13, <2>1, <3>1
  <2>2. CASE i \in 1..n /\ j \in n + 1..n + m
    <3>1. ids[i] = seen[i] /\ ids[j] = fresh[j - n] /\ j - n \in 1..m
      BY <1>13, <1>14, <2>2
    <3>2. stamps[fresh[j - n]] >= cursor - Lookback /\ stamps[fresh[j - n]] \in Int /\ seen[i] # fresh[j - n]
      BY <1>2, <1>8, <1>10, <2>2, <3>1
    <3>3. stamps[seen[i]] <= cursor /\ stamps[seen[i]] \in Int /\ cursor \in Int
      BY <1>12, <2>2, InHand
    <3> QED BY <3>1, <3>2, <3>3
  <2>3. CASE i \in n + 1..n + m /\ j \in n + 1..n + m
    <3>1. ids[i] = fresh[i - n] /\ ids[j] = fresh[j - n] /\ i - n \in 1..m /\ j - n \in 1..m
      BY <1>14, <2>3
    <3>4. i - n < j - n
      BY <1>5
    <3>2. fresh[i - n] # fresh[j - n] /\ stamps[fresh[i - n]] <= stamps[fresh[j - n]]
      BY <1>9, <3>1, <3>4
    <3>3. stamps[fresh[i - n]] \in Int /\ stamps[fresh[j - n]] \in Int
      BY <1>2, <3>1
    <3> QED BY <3>1, <3>2, <3>3
  <2>4. CASE i \in n + 1..n + m /\ j \in 1..n
    BY <1>5, <2>4
  <2> QED BY <1>7, <2>1, <2>2, <2>3, <2>4
<1>16. \A i \in 1..n + m : stamps[ids[i]] <= c
  <2> SUFFICES ASSUME NEW i \in 1..n + m PROVE stamps[ids[i]] <= c
    OBVIOUS
  <2>1. CASE i \in 1..n
    <3>1. ids[i] = seen[i] /\ stamps[seen[i]] <= cursor /\ stamps[seen[i]] \in Int /\ cursor \in Int
      BY <1>12, <1>13, <2>1, InHand
    <3> QED BY <3>1
  <2>2. CASE i \in n + 1..n + m
    BY <1>8, <1>14, <2>2
  <2> QED BY <1>7, <2>1, <2>2
<1>17. \A k \in 1..m : ids[n + k] = fresh[k]
  <2> SUFFICES ASSUME NEW k \in 1..m PROVE ids[n + k] = fresh[k]
    OBVIOUS
  <2>1. n + k \in n + 1..n + m /\ (n + k) - n = k
    BY <1>5, <1>7
  <2> QED BY <1>14, <2>1
<1> QED BY <1>2, <1>3, <1>4, <1>7, <1>8, <1>13, <1>15, <1>16, <1>17
        DEF JoinedIn, n, m

LEMMA DeliverSound ==
    ASSUME IInv, Deliver
    PROVE  IInv' /\ (Remembers /\ Once => Once')
<1> USE StreamAssumption
<1>1. PICK fresh \in Fresh :
          /\ seen' = Prune(seen \o fresh)
          /\ told' = [l \in Listeners |-> [e \in 1..MaxEvents |->
                        told[l][e] + IF l \in Told(tail) /\ \E i \in DOMAIN fresh : fresh[i] = e
                                     THEN 1 ELSE 0]]
  BY DEF Deliver
<1>2. /\ batch # Idle /\ batch' = Idle /\ cursor' = (IF Newest > cursor THEN Newest ELSE cursor)
      /\ UNCHANGED <<now, stamps, opened, from, tail, sub>>
  BY DEF Deliver, rest
<1>3. cursor' \in Int /\ cursor' >= cursor /\ \A k \in 1..Len(batch) : stamps[batch[k]] <= cursor'
  BY <1>2, NewestIsNewest
<1> DEFINE ids == seen \o fresh
<1>4. /\ ids \in Seq(Events) /\ Ordered(ids) /\ \A i \in 1..Len(ids) : stamps[ids[i]] <= cursor'
      /\ fresh \in Seq(Events) /\ Len(ids) = Len(seen) + Len(fresh)
      /\ \A i \in 1..Len(seen) : i \in 1..Len(ids) /\ ids[i] = seen[i]
      /\ \A k \in 1..Len(fresh) :
             /\ Len(seen) + k \in 1..Len(ids) /\ ids[Len(seen) + k] = fresh[k]
             /\ IsNew(fresh[k]) /\ stamps[fresh[k]] >= cursor - Lookback
  <2>1. ids = seen \o fresh /\ batch # Idle
    BY <1>2
  <2>2. ASSUME NEW c \in Int, c >= cursor, \A k \in 1..Len(batch) : stamps[batch[k]] <= c
        PROVE  JoinedIn(ids, fresh) /\ \A i \in 1..Len(ids) : stamps[ids[i]] <= c
    <3> HIDE DEF ids
    <3> QED BY <2>1, <2>2, Joined
  <2> HIDE DEF ids
  <2>3. JoinedIn(ids, fresh) /\ \A i \in 1..Len(ids) : stamps[ids[i]] <= cursor'
    BY <1>3, <2>2
  <2> QED BY <2>3 DEF JoinedIn
<1> HIDE DEF ids
<1> DEFINE gone == Len(ids) - Len(seen')
<1>5. /\ seen' \in Seq(Events) /\ Len(seen') \in 0..SeenCapacity /\ Len(seen') <= Len(ids)
      /\ Len(seen') < Len(ids) => Len(seen') = SeenCapacity
      /\ \A i \in 1..Len(seen') : seen'[i] = ids[i + gone]
  <2>1. seen' = Prune(ids) /\ ids \in Seq(Events)
    BY <1>1, <1>4 DEF ids
  <2> QED BY <2>1, PruneKeepsTheLast
<1>6. /\ Len(ids) \in Nat /\ Len(seen') \in Nat /\ DOMAIN seen' = 1..Len(seen') /\ gone \in Nat
      /\ \A i \in 1..Len(seen') : i + gone \in 1..Len(ids)
  BY <1>4, <1>5
<1>7. Memory'
  <2> HIDE DEF gone
  <2>1. \A i, j \in 1..Len(seen') : i < j => i + gone < j + gone
    BY <1>6
  <2>2. \A i, j \in 1..Len(seen') : i < j => seen'[i] # seen'[j] /\ stamps[seen'[j]] >= stamps[seen'[i]] - Lookback
    <3> SUFFICES ASSUME NEW i \in 1..Len(seen'), NEW j \in 1..Len(seen'), i < j
                 PROVE  seen'[i] # seen'[j] /\ stamps[seen'[j]] >= stamps[seen'[i]] - Lookback
      OBVIOUS
    <3>1. i + gone \in 1..Len(ids) /\ j + gone \in 1..Len(ids) /\ i + gone < j + gone
      BY <1>6, <2>1
    <3>2. seen'[i] = ids[i + gone] /\ seen'[j] = ids[j + gone]
      BY <1>5
    <3> QED BY <1>4, <3>1, <3>2 DEF Ordered
  <2>3. \A i \in 1..Len(seen') : stamps[seen'[i]] <= cursor'
    BY <1>4, <1>5, <1>6
  <2> QED BY <1>2, <1>6, <2>2, <2>3 DEF Memory
<1>8. TypeOK'
  <2>1. told' \in [Listeners -> [1..MaxEvents -> Nat]]
    <3>1. told \in [Listeners -> [1..MaxEvents -> Nat]]
      BY DEF IInv, TypeOK
    <3> QED BY <1>1, <3>1
  <2>2. Len(Idle) = 1
    BY DEF Idle
  <2> QED BY <1>2, <1>3, <1>5, <2>1, <2>2 DEF IInv, TypeOK, Events, Away, Idle
<1>9. Tails' /\ Rows' /\ Sparse(stamps)'
  BY <1>2 DEF IInv, Tails, Rows, Sparse, Watching, Away, Idle
<1>10. ASSUME Remembers, Once PROVE Once'
  <2>1. tail # 0
    BY <1>2 DEF IInv, Tails
  <2>2. \A l \in Listeners : l \in Told(tail) <=> Watching(l)
    BY <2>1 DEF IInv, Tails, Told, Watching
  <2> SUFFICES ASSUME NEW l \in Listeners, NEW e \in 1..MaxEvents
               PROVE  /\ told'[l][e] \in {0, 1}
                      /\ told'[l][e] = 1 => e \in Events /\ sub[l].tail # 0
                      /\ Watching(l) /\ told'[l][e] = 1 /\ stamps[e] >= cursor' - Lookback =>
                             \E i \in DOMAIN seen' : seen'[i] = e
    BY <1>2 DEF Once, Watching, Events
  <2>3. /\ told[l][e] \in {0, 1} /\ (told[l][e] = 1 => e \in Events /\ sub[l].tail # 0)
        /\ Watching(l) /\ told[l][e] = 1 /\ stamps[e] >= cursor - Lookback => \E i \in 1..Len(seen) : seen[i] = e
    BY <1>2, <1>10, InHand DEF Once
  <2> DEFINE new == Watching(l) /\ \E i \in 1..Len(fresh) : fresh[i] = e
  <2>4. told'[l][e] = told[l][e] + IF new THEN 1 ELSE 0
    <3>1. DOMAIN fresh = 1..Len(fresh)
      BY <1>4
    <3> QED BY <1>1, <2>2, <3>1
  <2>5. ASSUME new
        PROVE  told[l][e] = 0 /\ e \in Events /\ sub[l].tail # 0 /\ \E i \in 1..Len(ids) : ids[i] = e
    <3>1. PICK k \in 1..Len(fresh) : fresh[k] = e
      BY <2>5
    <3>2. IsNew(e) /\ stamps[e] >= cursor - Lookback /\ e \in Events
      BY <1>4, <3>1
    <3>3. \A i \in 1..Len(seen) : seen[i] # e
      BY <1>2, <3>2, InHand DEF IsNew
    <3> QED BY <1>4, <2>3, <2>5, <3>1, <3>2, <3>3 DEF Watching
  <2> HIDE DEF new
  <2>6. told'[l][e] = 1 => new \/ told[l][e] = 1
    BY <2>3, <2>4
  <2>7. Watching(l) /\ told'[l][e] = 1 /\ stamps[e] >= cursor' - Lookback => \E i \in 1..Len(ids) : ids[i] = e
    <3> SUFFICES ASSUME Watching(l), told[l][e] = 1, stamps[e] >= cursor' - Lookback
                 PROVE  \E i \in 1..Len(ids) : ids[i] = e
      BY <2>5, <2>6
    <3>1. stamps[e] >= cursor - Lookback
      <4>1. stamps[e] \in Int
        BY <2>3, EventsFinite DEF IInv
      <4> QED BY <1>2, <1>3, <4>1, InHand
    <3> QED BY <1>4, <2>3, <3>1
  <2>8. ASSUME NEW p \in 1..Len(ids), stamps[ids[p]] >= cursor' - Lookback
        PROVE  \E i \in DOMAIN seen' : seen'[i] = ids[p]
    <3>1. ids[p] \in Events /\ stamps[ids[p]] \in Int
      BY <1>4, EventsFinite DEF IInv
    <3>2. \A i \in 1..Len(ids) : stamps[ids[i]] <= stamps[ids[p]] + Lookback
      <4>1. \A i \in 1..Len(ids) : ids[i] \in Events /\ stamps[ids[i]] \in Int
        BY <1>4, EventsFinite DEF IInv
      <4> QED BY <1>3, <1>4, <2>8, <3>1, <4>1
    <3>3. Len(ids) - p + 1 <= SeenCapacity
      BY <1>4, <1>10, <3>2, Recent DEF IInv
    <3>4. p - gone \in 1..Len(seen') /\ (p - gone) + gone = p
      <4>1. /\ Len(seen') < Len(ids) => Len(seen') = SeenCapacity
            /\ Len(seen') <= Len(ids) /\ SeenCapacity \in Nat /\ p \in 1..Len(ids)
        BY <1>5, <2>8, StreamAssumption
      <4>2. ASSUME NEW n \in Nat, NEW m \in Nat, NEW q \in 1..n, m <= n, m < n => m = SeenCapacity,
                   n - q + 1 <= SeenCapacity, SeenCapacity \in Nat
            PROVE  q - (n - m) \in 1..m /\ (q - (n - m)) + (n - m) = q
        <5>1. CASE m = n
          BY <4>2, <5>1
        <5>2. CASE m = SeenCapacity
          BY <4>2, <5>2
        <5> QED BY <4>2, <5>1, <5>2
      <4>3. Len(ids) \in Nat /\ Len(seen') \in Nat
        BY <1>6
      <4> HIDE DEF Remembers
      <4> QED BY ONLY <3>3, <4>1, <4>2, <4>3
    <3> HIDE DEF gone
    <3> QED BY <1>5, <1>6, <3>4
  <2> QED BY <2>3, <2>4, <2>5, <2>7, <2>8 DEF new
<1> QED BY <1>7, <1>8, <1>9, <1>10 DEF IInv

-----------------------------------------------------------------------------
(* What every run keeps.                                                   *)

LEMMA NextSound ==
    ASSUME IInv, [Next]_vars
    PROVE  IInv' /\ (Remembers /\ Once => Once')
<1>1. CASE Next
  BY <1>1, RecordSound, PassSound, SubscribeSound, CloseSound, FetchSound, DeliverSound, FailSound DEF Next
<1>2. CASE UNCHANGED vars
  BY <1>2 DEF vars, IInv, TypeOK, Sparse, Tails, Rows, Memory, Once, Watching, Events, Away, Idle
<1> QED BY <1>1, <1>2

LEMMA Invariance == Spec => []IInv
<1>1. Init => IInv
  BY InitSound
<1>2. IInv /\ [Next]_vars => IInv'
  BY NextSound
<1> QED BY <1>1, <1>2, PTL DEF Spec

(* Whoever watches belongs to the tail that is read, for any number of     *)
(* listeners who come, leave, and close again after they left.             *)
THEOREM WatchersAreRead == Spec => []ListenersAreRead
<1>1. IInv => ListenersAreRead
  BY DEF IInv, Tails, Watching, ListenersAreRead
<1> QED BY <1>1, Invariance, PTL

(* Nobody is told of an event twice, or of one that was not recorded, with *)
(* any clocks, failed reads and batches, when the reader remembers all but *)
(* one of the events of two windows.                                       *)
AtMostOnce ==
    \A l \in Listeners, e \in 1..MaxEvents : told[l][e] \in {0, 1} /\ (told[l][e] = 1 => e \in Events)

LEMMA OnceHolds == Remembers => (Spec => []Once)
<1> SUFFICES ASSUME Remembers
             PROVE  Spec => []Once
  OBVIOUS
<1>1. Init => Once
  BY InitSound
<1>2. IInv /\ Once /\ [Next]_vars => Once'
  BY NextSound
<1> QED BY <1>1, <1>2, Invariance, PTL DEF Spec

THEOREM ToldAtMostOnce == Remembers => (Spec => []AtMostOnce)
<1>1. Once => AtMostOnce
  BY DEF Once, AtMostOnce
<1> QED BY <1>1, OnceHolds, PTL

-----------------------------------------------------------------------------
(* The reader is a live feed: each of its steps is one of the feed, or none.*)

LEMMA FeedInit ==
    ASSUME Init
    PROVE  Feed!Init
<1>1. Len(stamps) = 0
  BY EmptySeq DEF Init
<1> QED BY <1>1 DEF Init, Feed!Init, Away, Feed!Away

LEMMA FeedTell ==
    ASSUME IInv, Deliver, Once'
    PROVE  Feed!Tell
<1>1. PICK fresh \in Fresh :
          told' = [l \in Listeners |-> [e \in 1..MaxEvents |->
                     told[l][e] + IF l \in Told(tail) /\ \E i \in DOMAIN fresh : fresh[i] = e THEN 1 ELSE 0]]
  BY DEF Deliver
<1>2. batch \in Seq(Events) /\ tail # 0 /\ TypeOK /\ UNCHANGED <<stamps, from>>
  BY DEF Deliver, rest, IInv, Tails, TypeOK
<1> DEFINE es == {fresh[i] : i \in DOMAIN fresh}
<1>3. es \in SUBSET (1..Len(stamps))
  <2>1. fresh \in Seq(Events)
    BY <1>2, FreshRows
  <2> QED BY <2>1 DEF Events
<1>4. \A l \in Listeners : l \in Told(tail) <=> Feed!Watches(l)
  <2>1. \A l \in Listeners : (from[l] # Away <=> Watching(l)) /\ (Watching(l) => sub[l].tail = tail)
    BY DEF IInv, Tails
  <2> QED BY <1>2, <2>1 DEF Told, Watching, Feed!Watches, Feed!Away, Away
<1>5. \A e : e \in es <=> \E i \in DOMAIN fresh : fresh[i] = e
  OBVIOUS
<1> HIDE DEF es
<1>6. told' = [l \in Listeners |-> [e \in 1..MaxEvents |->
                 told[l][e] + IF Feed!Watches(l) /\ e \in es THEN 1 ELSE 0]]
  BY <1>1, <1>4, <1>5
<1>7. \A l \in Listeners, e \in 1..MaxEvents : told'[l][e] <= 1
  BY DEF Once
<1> QED BY <1>2, <1>3, <1>6, <1>7 DEF Feed!Tell

LEMMA FeedStep ==
    ASSUME IInv, [Next]_vars, Once'
    PROVE  [Feed!Next]_<<Len(stamps), from, told>>
<1>1. CASE Record
  <2>1. PICK d \in Drifts : stamps' = Append(stamps, now + d)
    BY <1>1 DEF Record
  <2>2. Len(stamps') = Len(stamps) + 1
    <3>1. stamps \in Seq(Int) /\ now + d \in Int
      BY StreamAssumption, DriftAssumption DEF IInv, TypeOK
    <3> QED BY <2>1, <3>1
  <2> QED BY <1>1, <2>2 DEF Record, Feed!Next, Feed!Record
<1>2. CASE Pass \/ Fetch \/ Fail \/ UNCHANGED vars
  BY <1>2 DEF Pass, Fetch, Fail, vars, rest
<1>3. CASE Deliver
  BY <1>3, FeedTell DEF Feed!Next
<1>4. ASSUME NEW l \in Listeners, Subscribe(l)
      PROVE  Feed!Come(l)
  <2>1. from[l] = Away
    BY <1>4 DEF Subscribe, IInv, Tails, Watching
  <2> QED BY <1>4, <2>1 DEF Subscribe, Feed!Come, Feed!Watches, Feed!Away, Away
<1>5. ASSUME NEW l \in Listeners, Close(l)
      PROVE  Feed!Go(l)
  <2>1. from[l] # Away
    BY <1>5 DEF Close, Closable, IInv, Tails, Watching
  <2> QED BY <1>5, <2>1 DEF Close, Feed!Go, Feed!Watches, Feed!Away, Away
<1> QED BY <1>1, <1>2, <1>3, <1>4, <1>5 DEF Next, Feed!Next

(* The safety half of EveryEventOnce: every run is one of the live feed,   *)
(* which tells nobody twice and nobody who is not there.                   *)
THEOREM ReaderIsAFeed ==
    Remembers => (Spec => Feed!Init /\ [][Feed!Next]_<<Len(stamps), from, told>>)
<1> SUFFICES ASSUME Remembers
             PROVE  Spec => Feed!Init /\ [][Feed!Next]_<<Len(stamps), from, told>>
  OBVIOUS
<1>1. Init => Feed!Init
  BY FeedInit
<1>2. IInv /\ [Next]_vars /\ Once' => [Feed!Next]_<<Len(stamps), from, told>>
  BY FeedStep
<1> QED BY <1>1, <1>2, Invariance, OnceHolds, PTL DEF Spec
=============================================================================
