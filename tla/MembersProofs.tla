----------------------------- MODULE MembersProofs -----------------------------
(***************************************************************************)
(* What Members keeps for every set of rows, people and calls: its types,  *)
(* one membership for a person, access for members only, the row of who    *)
(* accepted an invitation, an owner, and where waits can close a circle.   *)
(*                                                                         *)
(* The owner is kept because whoever takes one away holds the              *)
(* organization's row from its count of the others to its commit, and the  *)
(* row it changes from before that: LosersHold, with LocksHeld.            *)
(***************************************************************************)
EXTENDS Members, TLAPS

USE MembersAssumption

Holding == {"trigger", "commit"}
Writing == Holding \cup {"lock"}
Changes == {"role", "suspend", "reactivate", "remove", "claim"}
There   == {"invited", "active", "suspended"}

(* A call is about a row, and what it is about to write comes from a row   *)
(* that was there.                                                         *)
WellAimed(c) ==
    /\ c.pc # "idle" => c.target \in Members
    /\ c.op = "role" => c.role \in Roles
    /\ c.pc = "insert" => c.role \in Roles
    /\ c.pc = "target" => c.op \in Ops \ {"invite"}
    /\ c.pc = "accept" => c.who \in People
    /\ c.pc = "attach" => c.who \in People /\ c.op = "claim"
    /\ c.pc \in Writing => c.op \in Changes
    /\ c.pc \in Writing \cup {"attach"} => c.copy.status \in There /\ c.copy.role \in Roles

(* The row had a person, and has one until it is removed.                  *)
HadPerson(row) == row.user # Nobody \/ row = Removed
Met(m)         == HadPerson(member[m])

(* A call that would make a row anything but an invitation read one with a *)
(* person.                                                                 *)
PeopleOf(c, row) ==
    /\ c.pc = "attach" => row # Absent /\ (c.copy.user # Nobody => HadPerson(row))
    /\ c.pc \in Writing /\ (c.op \in {"suspend", "reactivate"} \/ c.copy.status # "invited") =>
            HadPerson(row)

PeopleBehind(c) == PeopleOf(c, member[c.target])

CallsWell == \A r \in Requests : WellAimed(req[r]) /\ PeopleBehind(req[r])

(* A statement past its row's lock holds it, and the row is there.         *)
LocksHeld ==
    \A r \in Requests : req[r].pc \in Holding =>
        rowLock[req[r].target] = r /\ Exists(req[r].target)

(* Who is about to commit the loss of an owner holds the organization, and *)
(* another owner is there.                                                 *)
LosersHold ==
    \A r \in Requests :
        req[r].pc = "commit" /\ LosesOwner(req[r], member[req[r].target]) =>
            /\ orgLock = r
            /\ \E m \in Members \ {req[r].target} : ActiveOwner(m)

IInv ==
    /\ TypeOK /\ CallsWell /\ LocksHeld /\ LosersHold
    /\ OneMembershipEach /\ GrantsOfMembers

-----------------------------------------------------------------------------
(* Rows and calls.                                                         *)

(* What a row can be.                                                      *)
LEMMA RowParts ==
    ASSUME NEW row \in Row
    PROVE  /\ row = [status |-> row.status, role |-> row.role, user |-> row.user]
           /\ row.user \in People \cup {Nobody} /\ row.role \in Roles \cup {"none"}
           /\ row.status \in There \cup {"absent", "removed"}
           /\ row.status = "absent" => row = Absent
           /\ row.status = "removed" => row = Removed
           /\ row.user # Nobody => row.status \in There
           /\ row.status \in There => row.role \in Roles
           /\ row.status \in {"active", "suspended"} => row.user # Nobody
    BY DEF Row, Absent, Removed, There

(* What makes a row.                                                       *)
LEMMA MakesRow ==
    /\ Absent \in Row /\ Removed \in Row
    /\ \A s \in There, o \in Roles, u \in People : [status |-> s, role |-> o, user |-> u] \in Row
    /\ \A o \in Roles : [status |-> "invited", role |-> o, user |-> Nobody] \in Row
    BY DEF Row, There

(* An accepted invitation is a row of its person.                          *)
LEMMA AcceptedRow ==
    ASSUME NEW row \in Row, row.status \in There, NEW u \in People
    PROVE  /\ Accepted(row, u) \in Row
           /\ Accepted(row, u).status = "active" /\ Accepted(row, u).user = u
    <1> DEFINE new == Accepted(row, u)
    <1>1. row \in [status: There, role: Roles, user: People \cup {Nobody}]
        BY DEF Row, Absent, Removed, There
    <1>2. new \in [status: There, role: Roles, user: People] /\ new.status = "active" /\ new.user = u
        BY <1>1 DEF There, Accepted
    <1> QED
        BY <1>2 DEF Row, There

(* A call that ends, and one that starts anew, are calls.                  *)
LEMMA IdleCall == Idle \in Call /\ WellAimed(Idle) /\ PeopleBehind(Idle) /\ Idle.pc = "idle"
    BY MakesRow DEF Idle, Call, WellAimed, PeopleBehind, Writing, Holding, Absent, PeopleOf

(* Writing one call leaves the others.                                     *)
LEMMA OneCall ==
    ASSUME TypeOK, NEW r \in Requests, NEW c \in Call, Becomes(r, c)
    PROVE  /\ req' \in [Requests -> Call] /\ req'[r] = c
           /\ \A q \in Requests \ {r} : req'[q] = req[q]
    BY DEF TypeOK, Becomes

(* The row an update or delete leaves is a row of the same person, or gone.*)
LEMMA WrittenRow ==
    ASSUME NEW row \in Row, NEW c \in Call, c.op \in Changes, row.status \in There,
           c.copy.status \in There, c.copy.role \in Roles,
           c.op = "role" => c.role \in Roles,
           c.op \in {"suspend", "reactivate"} \/ c.copy.status # "invited" => row.user # Nobody
    PROVE  /\ NewRow(c, row) \in Row
           /\ c.op = "remove" => NewRow(c, row) = Removed
           /\ c.op # "remove" => NewRow(c, row).user = row.user /\ NewRow(c, row).status \in There
    <1>1. row = [status |-> row.status, role |-> row.role, user |-> row.user]
        BY DEF Row, Absent, Removed
    <1>2. row.user \in People \cup {Nobody}
        BY RowParts
    <1>3. CASE c.op = "role"
        <2>1. NewRow(c, row) = [status |-> c.copy.status, role |-> c.role, user |-> row.user]
            BY <1>1, <1>3 DEF NewRow
        <2> QED
            BY <2>1, <1>2, <1>3, MakesRow
    <1>4. CASE c.op = "suspend"
        <2>1. NewRow(c, row) = [status |-> "suspended", role |-> c.copy.role, user |-> row.user]
            BY <1>1, <1>4 DEF NewRow
        <2> QED
            BY <2>1, <1>2, <1>4, MakesRow DEF There
    <1>5. CASE c.op = "reactivate"
        <2>1. NewRow(c, row) = [status |-> "active", role |-> c.copy.role, user |-> row.user]
            BY <1>1, <1>5 DEF NewRow
        <2> QED
            BY <2>1, <1>2, <1>5, MakesRow DEF There
    <1>6. CASE c.op = "claim"
        <2>1. NewRow(c, row) = [status |-> c.copy.status, role |-> "owner", user |-> row.user]
            BY <1>1, <1>6 DEF NewRow
        <2> QED
            BY <2>1, <1>2, <1>6, MakesRow
    <1>7. CASE c.op = "remove"
        <2>1. NewRow(c, row) = Removed
            BY <1>7 DEF NewRow
        <2> QED
            BY <2>1, <1>7, MakesRow
    <1> QED
        BY <1>3, <1>4, <1>5, <1>6, <1>7 DEF Changes

-----------------------------------------------------------------------------
(* The invariant, first for the steps that write no row and take no lock,  *)
(* then for those that fill a row nobody is writing.                       *)

(* A step that only moves a call on keeps the invariant, unless it moves it*)
(* past a lock.                                                            *)
LEMMA OnlyCalls ==
    ASSUME IInv, NEW r \in Requests, NEW c \in Call, Becomes(r, c),
           WellAimed(c), PeopleBehind(c), c.pc \notin Holding,
           UNCHANGED <<Rows, Locks>>, calls' \in Nat
    PROVE  IInv'
    <1> USE DEF Rows, Locks
    <1>1. /\ req' \in [Requests -> Call] /\ req'[r] = c
          /\ \A q \in Requests \ {r} : req'[q] = req[q]
        BY OneCall DEF IInv
    <1>2. TypeOK'
        BY <1>1 DEF IInv, TypeOK
    <1>3. CallsWell'
        <2> SUFFICES ASSUME NEW q \in Requests
                     PROVE  (WellAimed(req[q]) /\ PeopleBehind(req[q]))'
            BY DEF CallsWell
        <2>1. WellAimed(req'[q]) /\ PeopleBehind(req'[q])
            BY <1>1 DEF IInv, CallsWell
        <2> QED
            BY <2>1 DEF WellAimed, PeopleBehind, Met, PeopleOf, HadPerson
    <1>4. LocksHeld'
        BY <1>1 DEF IInv, LocksHeld, Exists
    <1>5. LosersHold'
        BY <1>1 DEF IInv, LosersHold, LosesOwner, ActiveOwner, NewRow, Holding
    <1>6. OneMembershipEach' /\ GrantsOfMembers'
        BY DEF IInv, OneMembershipEach, GrantsOfMembers, Exists
    <1> QED
        BY <1>2, <1>3, <1>4, <1>5, <1>6 DEF IInv

(* A row that is new, or an invitation nobody is writing, gets a person or *)
(* stays an invitation: the invariant holds on.                            *)
LEMMA Joins ==
    ASSUME IInv, NEW r \in Requests, NEW c \in Call, Becomes(r, c),
           NEW t \in Members, NEW row \in Row, row.status \in There,
           \/ member[t] = Absent
           \/ Unclaimed(member[t]) /\ rowLock[t] = Nobody,
           ~Taken(t, row.user),
           member' = [member EXCEPT ![t] = row], UNCHANGED <<granted, Locks>>, calls' \in Nat,
           WellAimed(c), PeopleOf(c, member'[c.target]), c.pc \notin Holding
    PROVE  /\ IInv'
           /\ \A m \in Members : member[m].user # Nobody \/ ActiveOwner(m) => member'[m] = member[m]
    <1> USE DEF Locks
    <1>1. /\ req' \in [Requests -> Call] /\ req'[r] = c
          /\ \A q \in Requests \ {r} : req'[q] = req[q]
        BY OneCall DEF IInv
    <1>2. /\ member \in [Members -> Row] /\ member'[t] = row
          /\ \A m \in Members \ {t} : member'[m] = member[m]
        BY DEF IInv, TypeOK
    <1>3. TypeOK'
        BY <1>1, <1>2 DEF IInv, TypeOK
    <1>4. member[t].user = Nobody /\ ~ActiveOwner(t) /\ member[t] # Removed /\ row # Removed /\ row # Absent
        BY DEF Absent, Removed, Unclaimed, ActiveOwner, There
    <1>5. \A q \in Requests : req[q].pc \in Holding => req[q].target \in Members \ {t}
        BY DEF IInv, LocksHeld, CallsWell, WellAimed, Holding, Exists, Absent
    <1>6. \A m \in Members : Met(m) => Met(m)'
        BY <1>2, <1>4 DEF Met, HadPerson
    <1>7. CallsWell'
        <2> SUFFICES ASSUME NEW q \in Requests
                     PROVE  (WellAimed(req[q]) /\ PeopleBehind(req[q]))'
            BY DEF CallsWell
        <2>1. CASE q = r
            BY <2>1, <1>1 DEF WellAimed, PeopleBehind, Met, PeopleOf, HadPerson
        <2>2. CASE q # r
            <3>1. req'[q] = req[q] /\ WellAimed(req[q]) /\ PeopleBehind(req[q])
                BY <1>1, <2>2 DEF IInv, CallsWell
            <3>2. req[q].pc # "idle" => req[q].target \in Members
                BY <3>1 DEF WellAimed
            <3>3. PeopleBehind(req[q])'
                BY <3>1, <3>2, <1>2, <1>4, <1>6 DEF PeopleBehind, Writing, Holding, PeopleOf, Met
            <3> QED
                BY <3>1, <3>3 DEF WellAimed
        <2> QED
            BY <2>1, <2>2
    <1>8. LocksHeld'
        BY <1>1, <1>2, <1>5 DEF IInv, LocksHeld, Exists
    <1>9. LosersHold'
        <2> SUFFICES ASSUME NEW q \in Requests, req'[q].pc = "commit",
                            LosesOwner(req[q], member[req[q].target])'
                     PROVE  /\ orgLock' = q
                            /\ \E m \in Members \ {req'[q].target} : ActiveOwner(m)'
            BY DEF LosersHold
        <2>1. q # r /\ req'[q] = req[q]
            BY <1>1 DEF Holding
        <2>2. member'[req[q].target] = member[req[q].target]
            BY <2>1, <1>2, <1>5 DEF Holding
        <2>3. LosesOwner(req[q], member[req[q].target])
            BY <2>1, <2>2 DEF LosesOwner, NewRow
        <2>4. PICK m \in Members \ {req[q].target} : ActiveOwner(m) /\ orgLock = q
            BY <2>1, <2>3 DEF IInv, LosersHold
        <2> QED
            BY <2>1, <2>4, <1>2, <1>4 DEF ActiveOwner
    <1>10. OneMembershipEach'
        <2>1. \A m \in Members : member[m].user # Nobody => Exists(m)
            BY <1>2, RowParts DEF Exists, There
        <2> QED
            BY <2>1, <1>2 DEF IInv, OneMembershipEach, Taken
    <1>11. GrantsOfMembers'
        BY <1>2 DEF IInv, TypeOK, GrantsOfMembers, Exists, There
    <1> QED
        BY <1>2, <1>3, <1>4, <1>7, <1>8, <1>9, <1>10, <1>11 DEF IInv

(* A call that is past no lock, and whose row or organization is unlocked  *)
(* or locked by it, changes the locks: rows stay.                          *)
LEMMA OnlyLocks ==
    ASSUME IInv, NEW r \in Requests, NEW c \in Call, Becomes(r, c),
           WellAimed(c), PeopleBehind(c),
           UNCHANGED <<member, calls>>, granted' \subseteq Members,
           \A m \in granted' : m \in granted \/ Exists(m),
           rowLock' \in [Members -> Requests \cup {Nobody}],
           orgLock' \in Requests \cup {Nobody}, referring' \subseteq Requests,
           \A m \in Members : rowLock'[m] = rowLock[m] \/ rowLock[m] = Nobody \/ rowLock[m] = r,
           orgLock' = orgLock \/ orgLock = Nobody \/ orgLock = r,
           c.pc \in Holding => rowLock'[c.target] = r /\ Exists(c.target),
           c.pc = "commit" /\ LosesOwner(c, member[c.target]) =>
               orgLock' = r /\ \E m \in Members \ {c.target} : ActiveOwner(m)
    PROVE  IInv'
    <1>1. /\ req' \in [Requests -> Call] /\ req'[r] = c
          /\ \A q \in Requests \ {r} : req'[q] = req[q]
        BY OneCall DEF IInv
    <1>2. TypeOK'
        BY <1>1 DEF IInv, TypeOK
    <1>3. CallsWell'
        <2> SUFFICES ASSUME NEW q \in Requests
                     PROVE  (WellAimed(req[q]) /\ PeopleBehind(req[q]))'
            BY DEF CallsWell
        <2>1. WellAimed(req'[q]) /\ PeopleBehind(req'[q])
            BY <1>1 DEF IInv, CallsWell
        <2> QED
            BY <2>1 DEF WellAimed, PeopleBehind, Met, PeopleOf, HadPerson
    <1>4. LocksHeld'
        <2> SUFFICES ASSUME NEW q \in Requests, req'[q].pc \in Holding
                     PROVE  rowLock'[req'[q].target] = q /\ Exists(req[q].target)'
            BY DEF LocksHeld
        <2>1. CASE q = r
            BY <2>1, <1>1 DEF Exists
        <2>2. CASE q # r
            <3>1. /\ req'[q] = req[q] /\ req[q].target \in Members
                  /\ rowLock[req[q].target] = q /\ Exists(req[q].target)
                BY <2>2, <1>1 DEF IInv, LocksHeld, CallsWell, WellAimed, Holding
            <3> QED
                BY <3>1, <2>2 DEF Exists
        <2> QED
            BY <2>1, <2>2
    <1>5. LosersHold'
        <2> SUFFICES ASSUME NEW q \in Requests, req'[q].pc = "commit",
                            LosesOwner(req'[q], member[req'[q].target])
                     PROVE  /\ orgLock' = q
                            /\ \E m \in Members \ {req'[q].target} : ActiveOwner(m)
            BY DEF LosersHold, LosesOwner, NewRow, ActiveOwner
        <2>1. CASE q = r
            BY <2>1, <1>1
        <2>2. CASE q # r
            <3>1. req'[q] = req[q] /\ orgLock = q
                BY <2>2, <1>1 DEF IInv, LosersHold
            <3>2. \E m \in Members \ {req'[q].target} : ActiveOwner(m)
                BY <2>2, <3>1 DEF IInv, LosersHold
            <3> QED
                BY <3>1, <3>2, <2>2
        <2> QED
            BY <2>1, <2>2
    <1>6. OneMembershipEach' /\ GrantsOfMembers'
        BY DEF IInv, OneMembershipEach, GrantsOfMembers, Exists
    <1> QED
        BY <1>2, <1>3, <1>4, <1>5, <1>6 DEF IInv

(* An update or delete of a row the call holds.                            *)
LEMMA CommitKeeps ==
    ASSUME IInv, NEW r \in Requests, Commit(r)
    PROVE  /\ IInv'
           /\ HasOwner => HasOwner'
           /\ \A m \in Members : member[m].user # Nobody =>
                  member'[m].user = member[m].user \/ member'[m] = Removed
    <1> DEFINE c == req[r]
               t == c.target
               row == NewRow(c, member[t])
    <1>1. /\ c \in Call /\ c.pc = "commit" /\ c.op \in Changes /\ t \in Members
          /\ c.copy.status \in There /\ c.copy.role \in Roles
          /\ c.op = "role" => c.role \in Roles
          /\ c.op \in {"suspend", "reactivate"} \/ c.copy.status # "invited" => Met(t)
        BY DEF IInv, TypeOK, Commit, At, CallsWell, WellAimed, PeopleBehind, Writing, Holding, PeopleOf, Met
    <1>2. member[t] \in Row /\ Exists(t) /\ rowLock[t] = r
        BY <1>1 DEF IInv, TypeOK, LocksHeld, Holding
    <1>3. member[t].status \in There /\ member[t] # Removed
        BY <1>2, RowParts DEF Exists, Removed, Absent
    <1>4. /\ row \in Row
          /\ c.op = "remove" => row = Removed
          /\ c.op # "remove" => row.user = member[t].user /\ row.status \in There
        <2>1. c.op \in {"suspend", "reactivate"} \/ c.copy.status # "invited" => member[t].user # Nobody
            BY <1>1, <1>3 DEF Met, HadPerson
        <2> HIDE DEF c, t
        <2> QED
            BY <1>1, <1>2, <1>3, <2>1, WrittenRow DEF row
    <1>5. /\ Becomes(r, Idle) /\ UNCHANGED <<referring, calls>>
          /\ member' = [member EXCEPT ![t] = row]
          /\ granted' = IF c.op = "remove" THEN granted \ {t} ELSE granted
          /\ rowLock' = [rowLock EXCEPT ![t] = Nobody]
          /\ orgLock' = Released(r)
        BY DEF Commit, Answer
    <1> HIDE DEF row
    <1>6. /\ req' \in [Requests -> Call] /\ req'[r] = Idle
          /\ \A q \in Requests \ {r} : req'[q] = req[q]
        BY <1>5, OneCall, IdleCall DEF IInv
    <1>7. /\ member' \in [Members -> Row] /\ member'[t] = row
          /\ \A m \in Members \ {t} : member'[m] = member[m]
        BY <1>1, <1>4, <1>5 DEF IInv, TypeOK
    <1>8. TypeOK'
        BY <1>1, <1>5, <1>6, <1>7 DEF IInv, TypeOK, Released
    <1>9. row # Absent /\ (Met(t) => row.user # Nobody \/ row = Removed)
        BY <1>1, <1>3, <1>4 DEF Met, Absent, Removed, There, HadPerson
    <1>10. CallsWell'
        <2> SUFFICES ASSUME NEW q \in Requests
                     PROVE  (WellAimed(req[q]) /\ PeopleBehind(req[q]))'
            BY DEF CallsWell
        <2>1. CASE q = r
            BY <2>1, <1>6, IdleCall DEF WellAimed, PeopleBehind, Met, Writing, Holding, PeopleOf, HadPerson
        <2>2. CASE q # r
            <3>1. req'[q] = req[q] /\ WellAimed(req[q]) /\ PeopleBehind(req[q])
                BY <1>6, <2>2 DEF IInv, CallsWell
            <3>2. req[q].pc # "idle" => req[q].target \in Members
                BY <3>1 DEF WellAimed
            <3>3. \A m \in Members : Met(m) => Met(m)'
                BY <1>7, <1>9 DEF Met, HadPerson
            <3>4. PeopleBehind(req[q])'
                BY <3>1, <3>2, <3>3, <1>7, <1>9 DEF PeopleBehind, Writing, Holding, PeopleOf, Met
            <3> QED
                BY <3>1, <3>4 DEF WellAimed
        <2> QED
            BY <2>1, <2>2
    <1>11. \A q \in Requests \ {r} : req[q].pc \in Holding => req[q].target \in Members \ {t}
        BY <1>2 DEF IInv, LocksHeld, CallsWell, WellAimed, Holding
    <1>12. LocksHeld'
        <2> SUFFICES ASSUME NEW q \in Requests, req'[q].pc \in Holding
                     PROVE  rowLock'[req'[q].target] = q /\ Exists(req[q].target)'
            BY DEF LocksHeld
        <2>1. q # r /\ req'[q] = req[q] /\ req[q].target \in Members \ {t}
            BY <1>6, <1>11, IdleCall DEF Holding
        <2>2. rowLock[req[q].target] = q /\ Exists(req[q].target)
            BY <2>1 DEF IInv, LocksHeld
        <2> QED
            BY <2>1, <2>2, <1>5, <1>7 DEF Exists, IInv, TypeOK
    <1>13. ~LosesOwner(c, member[t]) /\ ActiveOwner(t) =>
               member'[t].status = "active" /\ member'[t].role = "owner"
        BY <1>7 DEF LosesOwner, ActiveOwner, row
    <1>14. LosersHold'
        <2> SUFFICES ASSUME NEW q \in Requests, req'[q].pc = "commit",
                            LosesOwner(req'[q], member'[req'[q].target])
                     PROVE  /\ orgLock' = q
                            /\ \E m \in Members \ {req'[q].target} : ActiveOwner(m)'
            BY DEF LosersHold, LosesOwner, NewRow, ActiveOwner
        <2>1. q # r /\ req'[q] = req[q] /\ req[q].target \in Members \ {t}
            BY <1>6, <1>11, IdleCall DEF Holding
        <2>2. LosesOwner(req[q], member[req[q].target])
            BY <2>1, <1>7
        <2>3. orgLock = q
            BY <2>1, <2>2 DEF IInv, LosersHold
        <2>4. PICK m \in Members \ {req[q].target} : ActiveOwner(m)
            BY <2>1, <2>2 DEF IInv, LosersHold
        <2>5. ~LosesOwner(c, member[t])
            BY <1>1, <2>1, <2>3 DEF IInv, LosersHold
        <2>6. ActiveOwner(m)'
            BY <2>4, <2>5, <1>7, <1>13 DEF ActiveOwner
        <2> QED
            BY <2>1, <2>3, <2>4, <2>6, <1>5 DEF Released
    <1>15. OneMembershipEach'
        BY <1>1, <1>4, <1>7 DEF IInv, OneMembershipEach, Removed, Absent
    <1>16. GrantsOfMembers'
        BY <1>4, <1>5, <1>7 DEF IInv, TypeOK, GrantsOfMembers, Exists, There
    <1>17. HasOwner => HasOwner'
        <2> SUFFICES ASSUME NEW m \in Members, ActiveOwner(m)
                     PROVE  \E n \in Members : ActiveOwner(n)'
            BY DEF HasOwner
        <2>1. CASE LosesOwner(c, member[t])
            <3>1. PICK n \in Members \ {t} : ActiveOwner(n)
                BY <2>1, <1>1 DEF IInv, LosersHold
            <3> QED
                BY <3>1, <1>7 DEF ActiveOwner
        <2>2. CASE ~LosesOwner(c, member[t])
            BY <2>2, <1>7, <1>13 DEF ActiveOwner
        <2> QED
            BY <2>1, <2>2
    <1>18. \A m \in Members : member[m].user # Nobody =>
               member'[m].user = member[m].user \/ member'[m] = Removed
        BY <1>4, <1>7
    <1> QED
        BY <1>8, <1>10, <1>12, <1>14, <1>15, <1>16, <1>17, <1>18 DEF IInv

-----------------------------------------------------------------------------
(* The actions.                                                            *)

(* A row no longer an invitation keeps its person, owners stay owners.     *)
PeopleStay ==
    \A m \in Members : member[m].user # Nobody =>
        member'[m].user = member[m].user \/ member'[m] = Removed

(* A request that is let in is about a row.                                *)
LEMMA ActingAsKeeps ==
    ASSUME IInv, NEW r \in Requests, ActingAs(r)
    PROVE  IInv'
    <1>1. PICK a \in Members, op \in Ops, t \in Members, role \in Roles :
              Becomes(r, [op |-> op, pc |-> IF op = "invite" THEN "insert" ELSE "target",
                          who |-> Nobody, actor |-> a, actorRole |-> member[a].role,
                          target |-> t, copy |-> Absent, role |-> role])
        BY DEF ActingAs
    <1>2. member[a].role \in Roles \cup {"none"}
        BY RowParts DEF IInv, TypeOK
    <1> DEFINE d == [op |-> op, pc |-> IF op = "invite" THEN "insert" ELSE "target",
                     who |-> Nobody, actor |-> a, actorRole |-> member[a].role,
                     target |-> t, copy |-> Absent, role |-> role]
    <1>3. d \in Call /\ Becomes(r, d)
        BY <1>1, <1>2, MakesRow DEF Call
    <1>4. WellAimed(d) /\ PeopleBehind(d) /\ d.pc \notin Holding
        BY DEF WellAimed, PeopleBehind, Writing, Holding, PeopleOf
    <1>5. UNCHANGED <<Rows, Locks>> /\ calls' \in Nat
        BY DEF ActingAs, IInv, TypeOK
    <1> HIDE DEF d
    <1> QED
        BY <1>3, <1>4, <1>5, OnlyCalls

(* The member read becomes the copy.                                       *)
LEMMA ReadTargetKeeps ==
    ASSUME IInv, NEW r \in Requests, ReadTarget(r)
    PROVE  IInv'
    <1> DEFINE c == req[r]
               t == member[c.target]
               d == [c EXCEPT !.copy = t, !.pc = IF c.op = "share" THEN "share" ELSE "lock"]
    <1>1. c \in Call /\ c.pc = "target" /\ c.op \in Ops \ {"invite"} /\ c.target \in Members
          /\ (c.op = "role" => c.role \in Roles)
        BY DEF IInv, TypeOK, ReadTarget, At, CallsWell, WellAimed
    <1>2. UNCHANGED <<Rows, Locks>> /\ calls' \in Nat
        BY DEF ReadTarget, IInv, TypeOK
    <1>3. CASE Exists(c.target) /\ Allowed(c, t)
        <2>1. t \in Row
            BY <1>1 DEF IInv, TypeOK
        <2>2. t.status \in There
            BY <2>1, <1>3, RowParts DEF Exists
        <2>3. t.role \in Roles /\ (t.status # "invited" => t.user # Nobody)
            BY <2>1, <2>2, RowParts DEF There
        <2>4. c.op \in {"suspend", "reactivate"} => t.status # "invited"
            BY <1>3 DEF Allowed
        <2>5. Becomes(r, d)
            BY <1>3 DEF ReadTarget
        <2>6. /\ d \in Call /\ d.op = c.op /\ d.target = c.target /\ d.copy = t /\ d.role = c.role
              /\ d.pc = IF c.op = "share" THEN "share" ELSE "lock"
            BY <1>1, <2>1 DEF Call
        <2> HIDE DEF d, c, t
        <2>7. WellAimed(d)
            BY <1>1, <2>2, <2>3, <2>6 DEF WellAimed, Writing, Holding, Changes, Ops
        <2>8. PeopleBehind(d)
            BY <2>3, <2>4, <2>6 DEF PeopleBehind, Met, Writing, Holding, t, PeopleOf, HadPerson
        <2> QED
            BY <1>2, <2>5, <2>6, <2>7, <2>8, OnlyCalls DEF Holding
    <1>4. CASE ~(Exists(c.target) /\ Allowed(c, t))
        <2>1. Becomes(r, Idle)
            BY <1>4 DEF ReadTarget, Answer
        <2> QED
            BY <2>1, <1>2, IdleCall, OnlyCalls DEF Holding
    <1> QED
        BY <1>3, <1>4

(* An invitation adds a row without a person, or nothing.                  *)
LEMMA InsertKeeps ==
    ASSUME IInv, NEW r \in Requests, Insert(r)
    PROVE  IInv' /\ (HasOwner => HasOwner') /\ PeopleStay
    <1>1. Becomes(r, Idle) /\ UNCHANGED <<granted, Locks>> /\ calls' \in Nat
        BY DEF Insert, Answer, IInv, TypeOK
    <1>2. CASE UNCHANGED member
        BY <1>1, <1>2, IdleCall, OnlyCalls DEF Rows, Holding, HasOwner, ActiveOwner, PeopleStay
    <1>3. CASE ~UNCHANGED member
        <2>1. PICK t \in Members :
                  /\ CanAssignRole(req[r].actorRole, req[r].role)
                  /\ member[t] = Absent
                  /\ member' = [member EXCEPT ![t] =
                          [status |-> "invited", role |-> req[r].role, user |-> Nobody]]
            BY <1>3 DEF Insert
        <2> DEFINE row == [status |-> "invited", role |-> req[r].role, user |-> Nobody]
        <2>2. req[r].role \in Roles \cup {"none"} /\ req[r].pc = "insert"
            BY DEF IInv, TypeOK, Call, Insert, At
        <2>3. req[r].role \in Roles
            BY <2>2 DEF IInv, CallsWell, WellAimed
        <2>4. row \in Row /\ row.status \in There /\ ~Taken(t, row.user)
            BY <2>3, MakesRow DEF There, Taken
        <2>5. WellAimed(Idle) /\ PeopleOf(Idle, member'[Idle.target])
            BY IdleCall DEF PeopleOf, Writing, Holding, Idle
        <2>6. /\ IInv'
              /\ \A m \in Members : member[m].user # Nobody \/ ActiveOwner(m) => member'[m] = member[m]
            BY <1>1, <2>1, <2>4, <2>5, IdleCall, Joins DEF Holding
        <2> QED
            BY <2>6 DEF HasOwner, ActiveOwner, PeopleStay
    <1> QED
        BY <1>2, <1>3

(* Grants and their locks.                                                 *)
LEMMA GrantsKeep ==
    ASSUME IInv, NEW r \in Requests, Revoke(r) \/ Share(r) \/ Grant(r)
    PROVE  IInv'
    <1>1. /\ req[r] \in Call /\ WellAimed(req[r]) /\ PeopleBehind(req[r])
          /\ UNCHANGED <<member, calls>>
          /\ rowLock \in [Members -> Requests \cup {Nobody}] /\ UNCHANGED rowLock
          /\ orgLock \in Requests \cup {Nobody} /\ UNCHANGED orgLock
          /\ granted \subseteq Members /\ referring \subseteq Requests
        BY DEF IInv, TypeOK, CallsWell, Revoke, Share, Grant, Locks, Rows
    <1>2. CASE Revoke(r)
        <2>1. Becomes(r, Idle) /\ UNCHANGED referring /\ granted' \subseteq granted
            BY <1>2 DEF Revoke, Answer, Locks
        <2> QED
            BY <1>1, <2>1, IdleCall, OnlyLocks DEF Holding
    <1>3. CASE Share(r)
        <2> DEFINE d == [req[r] EXCEPT !.pc = "grant"]
        <2>1. Becomes(r, d) /\ referring' \subseteq Requests /\ UNCHANGED granted /\ req[r].pc = "share"
            BY <1>1, <1>3 DEF Share, Goto, Rows, At
        <2>2. /\ d \in Call /\ d.pc = "grant" /\ d.target = req[r].target /\ d.op = req[r].op
              /\ d.role = req[r].role
            BY <1>1 DEF Call
        <2> HIDE DEF d
        <2>3. WellAimed(d) /\ PeopleBehind(d)
            BY <1>1, <2>1, <2>2 DEF WellAimed, PeopleBehind, Writing, Holding, PeopleOf
        <2> QED
            BY <1>1, <2>1, <2>2, <2>3, OnlyLocks DEF Holding
    <1>4. CASE Grant(r)
        <2>1. req[r].target \in Members
            BY <1>1, <1>4 DEF Grant, At, WellAimed
        <2>2. /\ Becomes(r, Idle) /\ referring' \subseteq Requests /\ granted' \subseteq Members
              /\ \A m \in granted' : m \in granted \/ Exists(m)
            BY <1>1, <1>4, <2>1 DEF Grant, Answer, Referable
        <2> QED
            BY <1>1, <2>2, IdleCall, OnlyLocks DEF Holding
    <1> QED
        BY <1>2, <1>3, <1>4

(* A deadlock is broken by ending one of the two calls.                    *)
LEMMA BreakDeadlockKeeps ==
    ASSUME IInv, NEW r \in Requests, BreakDeadlock(r)
    PROVE  IInv'
    <1>1. PICK q \in Requests :
              /\ RemovedBy(q, req[r].target) /\ At(q, "trigger")
              /\ \/ Answer(r) /\ referring' = referring \ {r} /\ UNCHANGED rowLock
                 \/ /\ Answer(q) /\ UNCHANGED referring
                    /\ rowLock' = [rowLock EXCEPT ![req[r].target] = Nobody]
        BY DEF BreakDeadlock
    <1>2. /\ UNCHANGED <<member, calls, granted, orgLock>>
          /\ rowLock \in [Members -> Requests \cup {Nobody}]
          /\ orgLock \in Requests \cup {Nobody}
          /\ granted \subseteq Members /\ referring \subseteq Requests
        BY DEF BreakDeadlock, IInv, TypeOK, Rows
    <1>3. CASE Answer(r) /\ referring' = referring \ {r} /\ UNCHANGED rowLock
        BY <1>2, <1>3, IdleCall, OnlyLocks DEF Answer, Holding
    <1>4. CASE /\ Answer(q) /\ UNCHANGED referring
               /\ rowLock' = [rowLock EXCEPT ![req[r].target] = Nobody]
        <2>1. rowLock[req[r].target] = q
            BY <1>1 DEF RemovedBy
        <2>2. /\ rowLock' \in [Members -> Requests \cup {Nobody}]
              /\ \A m \in Members : rowLock'[m] = rowLock[m] \/ rowLock[m] = q
            BY <1>2, <1>4, <2>1
        <2> QED
            BY <1>2, <1>4, <2>2, IdleCall, OnlyLocks DEF Answer, Holding
    <1> QED
        BY <1>1, <1>3, <1>4

(* An update takes its row's lock, or finds no row.                        *)
LEMMA LockRowKeeps ==
    ASSUME IInv, NEW r \in Requests, LockRow(r)
    PROVE  IInv'
    <1> DEFINE c == req[r]
               d == [c EXCEPT !.pc = IF LosesOwner(c, member[c.target]) THEN "trigger" ELSE "commit"]
    <1>1. /\ c \in Call /\ WellAimed(c) /\ PeopleBehind(c) /\ c.pc = "lock" /\ c.target \in Members
          /\ UNCHANGED <<member, calls, granted, orgLock, referring>>
          /\ rowLock \in [Members -> Requests \cup {Nobody}] /\ rowLock[c.target] = Nobody
          /\ orgLock \in Requests \cup {Nobody}
          /\ granted \subseteq Members /\ referring \subseteq Requests
        BY DEF LockRow, At, IInv, TypeOK, CallsWell, WellAimed, Rows
    <1>2. CASE Exists(c.target)
        <2>1. Becomes(r, d) /\ rowLock' = [rowLock EXCEPT ![c.target] = r]
            BY <1>2 DEF LockRow, Goto
        <2>2. /\ d \in Call /\ d.op = c.op /\ d.target = c.target /\ d.copy = c.copy /\ d.role = c.role
              /\ d.pc = IF LosesOwner(c, member[c.target]) THEN "trigger" ELSE "commit"
            BY <1>1 DEF Call
        <2>3. NewRow(d, member[c.target]) = NewRow(c, member[c.target])
            BY <2>2 DEF NewRow
        <2> HIDE DEF d, c
        <2>4. d.pc \in Holding /\ WellAimed(d) /\ PeopleBehind(d)
            BY <1>1, <2>2 DEF WellAimed, PeopleBehind, Writing, Holding, PeopleOf
        <2>5. LosesOwner(d, member[d.target]) => LosesOwner(c, member[c.target])
            BY <2>2, <2>3 DEF LosesOwner
        <2>6. ~(d.pc = "commit" /\ LosesOwner(d, member[d.target]))
            BY <2>2, <2>5
        <2>7. /\ rowLock' \in [Members -> Requests \cup {Nobody}] /\ rowLock'[d.target] = r
              /\ \A m \in Members : rowLock'[m] = rowLock[m] \/ rowLock[m] = Nobody
            BY <1>1, <2>1, <2>2
        <2> QED
            BY <1>1, <1>2, <2>1, <2>2, <2>4, <2>6, <2>7, OnlyLocks
    <1>3. CASE ~Exists(c.target)
        <2>1. Becomes(r, Idle) /\ UNCHANGED rowLock
            BY <1>3 DEF LockRow, Answer
        <2> QED
            BY <1>1, <2>1, IdleCall, OnlyLocks DEF Holding
    <1> QED
        BY <1>2, <1>3

(* The trigger lets a loss through with the organization locked and        *)
(* another owner there, or fails the statement.                            *)
LEMMA KeepAnOwnerKeeps ==
    ASSUME IInv, NEW r \in Requests, KeepAnOwner(r)
    PROVE  IInv'
    <1> DEFINE c == req[r]
               d == [c EXCEPT !.pc = "commit"]
    <1>1. /\ c \in Call /\ WellAimed(c) /\ PeopleBehind(c) /\ c.pc = "trigger" /\ c.target \in Members
          /\ UNCHANGED <<member, calls, granted, referring>>
          /\ rowLock \in [Members -> Requests \cup {Nobody}]
          /\ orgLock = Nobody
          /\ granted \subseteq Members /\ referring \subseteq Requests
        BY DEF KeepAnOwner, At, IInv, TypeOK, CallsWell, WellAimed, Rows, OrgFree
    <1>2. rowLock[c.target] = r /\ Exists(c.target)
        BY <1>1 DEF IInv, LocksHeld, Holding
    <1>3. CASE \E m \in Members \ {c.target} : ActiveOwner(m)
        <2>1. Becomes(r, d) /\ orgLock' = r /\ UNCHANGED rowLock
            BY <1>3 DEF KeepAnOwner, Goto
        <2>2. /\ d \in Call /\ d.op = c.op /\ d.target = c.target /\ d.copy = c.copy /\ d.role = c.role
              /\ d.pc = "commit"
            BY <1>1 DEF Call
        <2> HIDE DEF d, c
        <2>3. WellAimed(d) /\ PeopleBehind(d)
            BY <1>1, <2>2 DEF WellAimed, PeopleBehind, Writing, Holding, PeopleOf
        <2> QED
            BY <1>1, <1>2, <1>3, <2>1, <2>2, <2>3, OnlyLocks
    <1>4. CASE ~\E m \in Members \ {c.target} : ActiveOwner(m)
        <2>1. /\ Becomes(r, Idle) /\ UNCHANGED orgLock
              /\ rowLock' = [rowLock EXCEPT ![c.target] = Nobody]
            BY <1>4 DEF KeepAnOwner, Answer
        <2>2. /\ rowLock' \in [Members -> Requests \cup {Nobody}]
              /\ \A m \in Members : rowLock'[m] = rowLock[m] \/ rowLock[m] = r
            BY <1>1, <1>2, <2>1
        <2> HIDE DEF d, c
        <2> QED
            BY <1>1, <2>1, <2>2, IdleCall, OnlyLocks DEF Holding
    <1> QED
        BY <1>3, <1>4

(* Signing in and claiming only read.                                      *)
LEMMA SignInKeeps ==
    ASSUME IInv, NEW r \in Requests, SignIn(r)
    PROVE  IInv'
    <1>1. PICK u \in People, m \in Members :
              Becomes(r, [op |-> "signin", pc |-> "accept", who |-> u, actor |-> Nobody,
                          actorRole |-> "none", target |-> m, copy |-> Absent, role |-> "none"])
        BY DEF SignIn
    <1> DEFINE d == [op |-> "signin", pc |-> "accept", who |-> u, actor |-> Nobody,
                     actorRole |-> "none", target |-> m, copy |-> Absent, role |-> "none"]
    <1>2. d \in Call /\ Becomes(r, d)
        BY <1>1, MakesRow DEF Call
    <1>3. WellAimed(d) /\ PeopleBehind(d) /\ d.pc \notin Holding
        BY DEF WellAimed, PeopleBehind, Writing, Holding, PeopleOf
    <1>4. UNCHANGED <<Rows, Locks>> /\ calls' \in Nat
        BY DEF SignIn, IInv, TypeOK
    <1> HIDE DEF d
    <1> QED
        BY <1>2, <1>3, <1>4, OnlyCalls

LEMMA ClaimOwnershipKeeps ==
    ASSUME IInv, NEW r \in Requests, ClaimOwnership(r)
    PROVE  IInv'
    <1>1. PICK u \in People \cup {Nobody}, m \in Members :
              /\ member[m].status # "removed"
              /\ Becomes(r, [op |-> "claim",
                     pc |-> IF ~Exists(m) THEN "add" ELSE IF u = Nobody THEN "lock" ELSE "attach",
                     who |-> u, actor |-> Nobody, actorRole |-> "none",
                     target |-> m, copy |-> member[m], role |-> "none"])
        BY DEF ClaimOwnership
    <1> DEFINE d == [op |-> "claim",
                     pc |-> IF ~Exists(m) THEN "add" ELSE IF u = Nobody THEN "lock" ELSE "attach",
                     who |-> u, actor |-> Nobody, actorRole |-> "none",
                     target |-> m, copy |-> member[m], role |-> "none"]
    <1>2. member[m] \in Row
        BY DEF IInv, TypeOK
    <1>3. d \in Call /\ Becomes(r, d)
        BY <1>1, <1>2 DEF Call
    <1>4. /\ d.op = "claim" /\ d.target = m /\ d.copy = member[m] /\ d.who = u
          /\ d.pc = IF ~Exists(m) THEN "add" ELSE IF u = Nobody THEN "lock" ELSE "attach"
        OBVIOUS
    <1> HIDE DEF d
    <1>5. d.pc \in {"lock", "attach"} => Exists(m)
        BY <1>4
    <1>6. d.pc \in {"lock", "attach"} =>
              /\ member[m].status \in There /\ member[m].role \in Roles /\ member[m] # Absent
              /\ (member[m].status # "invited" => member[m].user # Nobody)
        BY <1>2, <1>5, RowParts DEF Exists, There, Absent
    <1>7. d.pc \in {"add", "lock", "attach"} /\ (d.pc = "attach" => d.who \in People)
        BY <1>4
    <1>8. WellAimed(d) /\ PeopleBehind(d) /\ d.pc \notin Holding
        BY <1>4, <1>6, <1>7 DEF WellAimed, PeopleBehind, Met, Writing, Holding, Changes, PeopleOf, HadPerson
    <1>9. UNCHANGED <<Rows, Locks>> /\ calls' \in Nat
        BY DEF ClaimOwnership, IInv, TypeOK
    <1> QED
        BY <1>3, <1>8, <1>9, OnlyCalls

(* An invitation is accepted, or is one no longer.                         *)
LEMMA ClaimInvitationKeeps ==
    ASSUME IInv, NEW r \in Requests, ClaimInvitation(r)
    PROVE  IInv' /\ (HasOwner => HasOwner') /\ PeopleStay
    <1> DEFINE t == req[r].target
               u == req[r].who
    <1>1. t \in Members /\ u \in People /\ rowLock[t] = Nobody
        BY DEF ClaimInvitation, At, IInv, CallsWell, WellAimed
    <1>2. Becomes(r, Idle) /\ UNCHANGED <<granted, Locks>> /\ calls' \in Nat
        BY DEF ClaimInvitation, Answer, IInv, TypeOK
    <1>3. CASE Unclaimed(member[t]) /\ ~Taken(t, u)
        <2> DEFINE row == Accepted(member[t], u)
        <2>1. member[t] \in Row /\ member[t].status = "invited"
            BY <1>1, <1>3 DEF IInv, TypeOK, Unclaimed
        <2>2. row \in Row /\ row.status \in There /\ row.user = u
            BY <1>1, <2>1, AcceptedRow DEF There
        <2>5. member' = [member EXCEPT ![t] = row]
            BY <1>3 DEF ClaimInvitation
        <2>6. WellAimed(Idle) /\ PeopleOf(Idle, member'[Idle.target])
            BY IdleCall DEF PeopleOf, Writing, Holding, Idle
        <2> HIDE DEF row, t, u
        <2>7. /\ IInv'
              /\ \A m \in Members : member[m].user # Nobody \/ ActiveOwner(m) => member'[m] = member[m]
            BY <1>1, <1>2, <1>3, <2>2, <2>5, <2>6, IdleCall, Joins DEF Holding
        <2> QED
            BY <2>7 DEF HasOwner, ActiveOwner, PeopleStay
    <1>4. CASE ~(Unclaimed(member[t]) /\ ~Taken(t, u))
        <2>1. UNCHANGED member
            BY <1>4 DEF ClaimInvitation
        <2> QED
            BY <1>2, <2>1, IdleCall, OnlyCalls DEF Rows, Holding, HasOwner, ActiveOwner, PeopleStay
    <1> QED
        BY <1>3, <1>4

(* The owner claim accepts the invitation it read, unless it is one no     *)
(* longer, and goes on to make the row an owner's.                         *)
LEMMA AttachKeeps ==
    ASSUME IInv, NEW r \in Requests, Attach(r)
    PROVE  IInv' /\ (HasOwner => HasOwner') /\ PeopleStay
    <1> DEFINE c == req[r]
               t == c.target
               u == c.who
               tried == c.copy.user = Nobody /\ Unclaimed(member[t])
               d == [c EXCEPT !.copy.status = "active", !.pc = "lock"]
    <1>1. /\ c \in Call /\ t \in Members /\ u \in People /\ rowLock[t] = Nobody /\ c.op = "claim"
          /\ c.pc = "attach" /\ WellAimed(c) /\ PeopleBehind(c) /\ member[t] \in Row
        BY DEF Attach, At, IInv, TypeOK, CallsWell, WellAimed
    <1>2. UNCHANGED <<granted, Locks>> /\ calls' \in Nat
        BY DEF Attach, IInv, TypeOK
    <1>3. c.copy.role \in Roles /\ c.copy \in [status: There, role: Roles, user: People \cup {Nobody}]
        <2>1. c.copy \in Row \cup [status: {"active"}, role: Roles, user: {Nobody}]
            BY <1>1 DEF Call
        <2>2. c.copy.status \in There /\ c.copy.role \in Roles
            BY <1>1 DEF WellAimed
        <2> QED
            BY <2>1, <2>2 DEF Row, There, Absent, Removed
    <1>4. /\ d.pc = "lock" /\ d.target = t /\ d.op = "claim" /\ d.role = c.role
          /\ d.copy = [c.copy EXCEPT !.status = "active"]
        BY <1>1 DEF Call
    <1>5. d.copy.status = "active" /\ d.copy.role \in Roles /\ d \in Call
        <2>1. [c.copy EXCEPT !.status = "active"] =
                  [status |-> "active", role |-> c.copy.role, user |-> c.copy.user]
            BY <1>3
        <2>2. d.copy \in Row \cup [status: {"active"}, role: Roles, user: {Nobody}]
            BY <1>3, <1>4, <2>1, MakesRow DEF There
        <2>3. d \in Call
            <3>1. d = [[c EXCEPT !.copy = [c.copy EXCEPT !.status = "active"]] EXCEPT !.pc = "lock"]
                BY <1>1 DEF Call
            <3>2. [c.copy EXCEPT !.status = "active"] \in Row \cup [status: {"active"}, role: Roles, user: {Nobody}]
                BY <1>4, <2>2
            <3> HIDE DEF d, c
            <3> QED
                BY <1>1, <3>1, <3>2 DEF Call
        <2> QED
            BY <1>3, <1>4, <2>1, <2>3
    <1> HIDE DEF d
    <1>6. WellAimed(d) /\ d.pc \notin Holding
        BY <1>1, <1>4, <1>5 DEF WellAimed, Writing, Holding, Changes, There
    <1>7. CASE tried /\ ~Taken(t, u)
        <2> DEFINE row == Accepted(member[t], u)
        <2>1. member[t].status = "invited"
            BY <1>7 DEF Unclaimed
        <2>2. row \in Row /\ row.status \in There /\ row.user = u
            BY <1>1, <2>1, AcceptedRow DEF There
        <2>5. member' = [member EXCEPT ![t] = row] /\ Becomes(r, d)
            BY <1>7 DEF Attach, d
        <2>6. member'[t].user # Nobody
            BY <1>1, <2>2, <2>5 DEF IInv, TypeOK
        <2>7. PeopleOf(d, member'[d.target])
            BY <1>4, <2>6 DEF PeopleOf, Writing, Holding, HadPerson
        <2> HIDE DEF row, t, u
        <2>8. /\ IInv'
              /\ \A m \in Members : member[m].user # Nobody \/ ActiveOwner(m) => member'[m] = member[m]
            BY <1>1, <1>2, <1>5, <1>6, <1>7, <2>2, <2>5, <2>7, Joins
        <2> QED
            BY <2>8 DEF HasOwner, ActiveOwner, PeopleStay
    <1>8. CASE tried /\ Taken(t, u)
        <2>1. Becomes(r, Idle) /\ UNCHANGED member
            BY <1>8 DEF Attach, Answer
        <2> QED
            BY <1>2, <2>1, IdleCall, OnlyCalls DEF Rows, Holding, HasOwner, ActiveOwner, PeopleStay
    <1>9. CASE ~tried
        <2>1. Becomes(r, d) /\ UNCHANGED member
            BY <1>9 DEF Attach, d
        <2>2. Met(t)
            BY <1>1, <1>9, RowParts DEF PeopleBehind, Met, Unclaimed, There, PeopleOf, HadPerson
        <2>3. PeopleBehind(d)
            BY <1>4, <2>2 DEF PeopleBehind, Writing, Holding, PeopleOf, Met
        <2> QED
            BY <1>2, <1>5, <1>6, <2>1, <2>3, OnlyCalls DEF Rows, HasOwner, ActiveOwner, PeopleStay
    <1> QED
        BY <1>7, <1>8, <1>9

(* The owner claim adds a row, or finds the address or the person taken.   *)
LEMMA AddOwnerKeeps ==
    ASSUME IInv, NEW r \in Requests, AddOwner(r)
    PROVE  IInv' /\ (HasOwner => HasOwner') /\ PeopleStay
    <1> DEFINE t == req[r].target
               u == req[r].who
               row == [status |-> AddedStatus(u), role |-> "owner", user |-> u]
    <1>1. t \in Members /\ u \in People \cup {Nobody}
        BY DEF AddOwner, At, IInv, TypeOK, Call, CallsWell, WellAimed
    <1>2. Becomes(r, Idle) /\ UNCHANGED <<granted, Locks>> /\ calls' \in Nat
        BY DEF AddOwner, Answer, IInv, TypeOK
    <1>3. CASE member[t] # Absent \/ Taken(t, u)
        <2>1. UNCHANGED member
            BY <1>3 DEF AddOwner
        <2> QED
            BY <1>2, <2>1, IdleCall, OnlyCalls DEF Rows, Holding, HasOwner, ActiveOwner, PeopleStay
    <1>4. CASE ~(member[t] # Absent \/ Taken(t, u))
        <2>1. row \in Row /\ row.status \in There /\ row.user = u
            BY <1>1, MakesRow DEF There, AddedStatus
        <2>2. member' = [member EXCEPT ![t] = row]
            BY <1>4 DEF AddOwner
        <2>3. WellAimed(Idle) /\ PeopleOf(Idle, member'[Idle.target])
            BY IdleCall DEF PeopleOf, Writing, Holding, Idle
        <2> HIDE DEF row, t, u
        <2>4. /\ IInv'
              /\ \A m \in Members : member[m].user # Nobody \/ ActiveOwner(m) => member'[m] = member[m]
            BY <1>1, <1>2, <1>4, <2>1, <2>2, <2>3, IdleCall, Joins DEF Holding
        <2> QED
            BY <2>4 DEF HasOwner, ActiveOwner, PeopleStay
    <1> QED
        BY <1>3, <1>4

-----------------------------------------------------------------------------
(* The specification.                                                      *)

LEMMA InitInv == Init => IInv
    <1> SUFFICES ASSUME Init PROVE IInv
        OBVIOUS
    <1>1. /\ \A m \in Members : member[m] \in Row
          /\ member \in [Members -> Row]
        <2>1. [status: {"active"}, role: Roles, user: People] \cup {Absent} \subseteq Row
            BY MakesRow DEF Row
        <2> QED
            BY <2>1 DEF Init
    <1>2. \A r \in Requests : req[r] = Idle
        BY DEF Init
    <1>3. TypeOK
        BY <1>1, IdleCall DEF Init, TypeOK
    <1>4. CallsWell /\ LocksHeld /\ LosersHold
        BY <1>2, IdleCall DEF CallsWell, LocksHeld, LosersHold, Holding
    <1>5. OneMembershipEach
        <2>1. \A m \in Members : member[m].user # Nobody => Exists(m)
            BY <1>1, RowParts DEF Exists, There
        <2> QED
            BY <2>1 DEF Init, OneMembershipEach
    <1>6. GrantsOfMembers
        BY DEF Init, GrantsOfMembers
    <1> QED
        BY <1>3, <1>4, <1>5, <1>6 DEF IInv

(* What every step keeps: the invariant, an owner, and the rows of those   *)
(* who accepted.                                                           *)
LEMMA StepKeeps ==
    ASSUME IInv, Next
    PROVE  IInv' /\ (HasOwner => HasOwner') /\ PeopleStay
    <1>1. PICK r \in Requests : Open(r) \/ Step(r)
        BY DEF Next
    <1>2. ASSUME UNCHANGED member PROVE (HasOwner => HasOwner') /\ PeopleStay
        BY <1>2 DEF HasOwner, ActiveOwner, PeopleStay
    <1>3. CASE ActingAs(r)
        BY <1>2, <1>3, ActingAsKeeps DEF ActingAs, Rows
    <1>4. CASE SignIn(r)
        BY <1>2, <1>4, SignInKeeps DEF SignIn, Rows
    <1>5. CASE ClaimOwnership(r)
        BY <1>2, <1>5, ClaimOwnershipKeeps DEF ClaimOwnership, Rows
    <1>6. CASE ReadTarget(r)
        BY <1>2, <1>6, ReadTargetKeeps DEF ReadTarget, Rows
    <1>7. CASE Insert(r)
        BY <1>7, InsertKeeps
    <1>8. CASE Revoke(r) \/ Share(r) \/ Grant(r)
        BY <1>2, <1>8, GrantsKeep DEF Revoke, Share, Grant, Rows
    <1>9. CASE BreakDeadlock(r)
        BY <1>2, <1>9, BreakDeadlockKeeps DEF BreakDeadlock, Rows
    <1>10. CASE LockRow(r)
        BY <1>2, <1>10, LockRowKeeps DEF LockRow, Rows
    <1>11. CASE KeepAnOwner(r)
        BY <1>2, <1>11, KeepAnOwnerKeeps DEF KeepAnOwner, Rows
    <1>12. CASE Commit(r)
        BY <1>12, CommitKeeps DEF PeopleStay
    <1>13. CASE ClaimInvitation(r)
        BY <1>13, ClaimInvitationKeeps
    <1>14. CASE Attach(r)
        BY <1>14, AttachKeeps
    <1>15. CASE AddOwner(r)
        BY <1>15, AddOwnerKeeps
    <1> QED
        BY <1>1, <1>3, <1>4, <1>5, <1>6, <1>7, <1>8, <1>9, <1>10, <1>11, <1>12, <1>13, <1>14, <1>15
        DEF Open, Step

(* A stuttering step keeps the invariant.                                  *)
LEMMA StutterKeeps ==
    ASSUME IInv, UNCHANGED vars
    PROVE  IInv'
    <1>1. UNCHANGED <<member, granted, rowLock, orgLock, referring, req, calls>>
        BY DEF vars
    <1>2. TypeOK' /\ OneMembershipEach' /\ GrantsOfMembers'
        BY <1>1 DEF IInv, TypeOK, OneMembershipEach, GrantsOfMembers, Exists
    <1>3. CallsWell'
        BY <1>1 DEF IInv, CallsWell, WellAimed, PeopleBehind, PeopleOf
    <1>4. LocksHeld'
        BY <1>1 DEF IInv, LocksHeld, Exists
    <1>5. LosersHold'
        BY <1>1 DEF IInv, LosersHold, ActiveOwner, LosesOwner, NewRow
    <1> QED
        BY <1>2, <1>3, <1>4, <1>5 DEF IInv

LEMMA Invariance == Spec => []IInv
    <1>1. IInv /\ [Next]_vars => IInv'
        BY StepKeeps, StutterKeeps
    <1> QED
        BY <1>1, InitInv, PTL DEF Spec

(* Every row, lock and call has its type.                                  *)
THEOREM TypesHold == Spec => []TypeOK
    BY Invariance, PTL DEF IInv

(* However invitations, sign-ins, the owner claim and removals interleave, *)
(* a person has at most one membership.                                    *)
THEOREM PersonOnce == Spec => []OneMembershipEach
    BY Invariance, PTL DEF IInv

(* Workspace access goes with the membership it hangs on.                  *)
THEOREM AccessOfMembers == Spec => []GrantsOfMembers
    BY Invariance, PTL DEF IInv

(* The last active owner is never lost, whatever number of members demote, *)
(* suspend and remove each other at once.                                  *)
THEOREM AnOwnerStays == Spec => OwnerKept
    <1>1. IInv /\ [Next]_vars => [HasOwner => HasOwner']_vars
        BY StepKeeps
    <1> QED
        BY <1>1, Invariance, PTL DEF Spec, OwnerKept

(* Who accepted an invitation keeps the row until it is removed.           *)
THEOREM AcceptedForGood == Spec => AcceptedOnce
    <1>1. IInv /\ [Next]_vars =>
              [\A m \in Members : member[m].user # Nobody =>
                  member'[m].user = member[m].user \/ member'[m] = Removed]_vars
        BY StepKeeps DEF PeopleStay
    <1> QED
        BY <1>1, Invariance, PTL DEF Spec, AcceptedOnce

-----------------------------------------------------------------------------
(* Locks and who waits for them.  A row is held by a statement between its *)
(* lock and its commit, the organization by one about to commit, and a     *)
(* reference by a grant: so whoever waits, waits for one of these.         *)

HoldersRun ==
    /\ \A r \in referring : At(r, "grant")
    /\ orgLock # Nobody => At(orgLock, "commit")
    /\ \A m \in Members : rowLock[m] # Nobody =>
            /\ At(rowLock[m], "trigger") \/ At(rowLock[m], "commit")
            /\ req[rowLock[m]].target = m

(* A call that holds nothing leaves the holders as they are.               *)
LEMMA OthersHold ==
    ASSUME TypeOK, HoldersRun, NEW r \in Requests, NEW c, Becomes(r, c), UNCHANGED Locks,
           req[r].pc \notin Holding \cup {"grant"}
    PROVE  HoldersRun'
<1>1. \A q \in Requests \ {r} : req'[q] = req[q]
    BY DEF TypeOK, Becomes
<1>2. r \notin referring /\ orgLock # r /\ \A m \in Members : rowLock[m] # r
    BY DEF HoldersRun, At, Holding
<1>3. \A q \in Requests : q \in referring \/ q = orgLock \/ (\E m \in Members : rowLock[m] = q)
            => req'[q] = req[q]
    BY <1>1, <1>2
<1>4. referring' = referring /\ orgLock' = orgLock /\ rowLock' = rowLock
    BY DEF Locks
<1>. QED  BY <1>3, <1>4 DEF HoldersRun, At, TypeOK

(* Every step leaves each lock with a statement that runs.                 *)
LEMMA HoldersKeep ==
    ASSUME TypeOK, CallsWell, LocksHeld, HoldersRun, [Next]_vars
    PROVE  HoldersRun'
<1> USE DEF At
<1>1. CASE UNCHANGED vars
    BY <1>1 DEF vars, HoldersRun
<1>2. ASSUME NEW r \in Requests,
             \/ ActingAs(r) \/ SignIn(r) \/ ClaimOwnership(r) \/ ReadTarget(r) \/ Insert(r)
             \/ Revoke(r) \/ ClaimInvitation(r) \/ Attach(r) \/ AddOwner(r)
      PROVE  HoldersRun'
    <2>1. /\ UNCHANGED Locks /\ \E c : Becomes(r, c)
          /\ req[r].pc \notin Holding \cup {"grant"}
        <3>1. CASE ActingAs(r)
            BY <3>1, Zenon DEF ActingAs, Holding
        <3>2. CASE SignIn(r) \/ ClaimOwnership(r)
            BY <3>2, Zenon DEF SignIn, ClaimOwnership, Holding
        <3>3. CASE ReadTarget(r)
            BY <3>3, Zenon DEF ReadTarget, Answer, Holding
        <3>4. CASE Insert(r) \/ Revoke(r) \/ ClaimInvitation(r) \/ AddOwner(r)
            BY <3>4, Zenon DEF Insert, Revoke, ClaimInvitation, AddOwner, Answer, Holding
        <3>5. CASE Attach(r)
            BY <3>5, Zenon DEF Attach, Answer, Holding
        <3>. QED  BY <1>2, <3>1, <3>2, <3>3, <3>4, <3>5
    <2>. QED  BY <2>1, OthersHold
<1>3. ASSUME NEW r \in Requests, NEW c, Becomes(r, c)
      PROVE  req'[r] = c /\ \A q \in Requests \ {r} : req'[q] = req[q]
    BY <1>3 DEF TypeOK, Becomes
<1>4. ASSUME NEW r \in Requests, Share(r)
      PROVE  HoldersRun'
    <2>1. /\ req[r].pc = "share" /\ Becomes(r, [req[r] EXCEPT !.pc = "grant"])
          /\ referring' = referring \cup {r} /\ rowLock' = rowLock /\ orgLock' = orgLock
        BY <1>4 DEF Share, Goto
    <2>2. req'[r].pc = "grant" /\ \A q \in Requests \ {r} : req'[q] = req[q]
        BY <1>3, <2>1 DEF TypeOK, Call
    <2>3. orgLock # r /\ \A m \in Members : rowLock[m] # r
        BY <2>1 DEF HoldersRun
    <2>. QED  BY <2>1, <2>2, <2>3 DEF HoldersRun, TypeOK
<1>5. ASSUME NEW r \in Requests, Grant(r)
      PROVE  HoldersRun'
    <2>1. /\ req[r].pc = "grant" /\ Becomes(r, Idle)
          /\ referring' = referring \ {r} /\ rowLock' = rowLock /\ orgLock' = orgLock
        BY <1>5, Zenon DEF Grant, Answer
    <2>2. \A q \in Requests \ {r} : req'[q] = req[q]
        BY <1>3, <2>1
    <2>3. orgLock # r /\ \A m \in Members : rowLock[m] # r
        BY <2>1 DEF HoldersRun
    <2>. QED  BY <2>1, <2>2, <2>3 DEF HoldersRun, TypeOK
<1>6. ASSUME NEW r \in Requests, BreakDeadlock(r)
      PROVE  HoldersRun'
    <2>1. PICK q \in Requests :
              /\ RemovedBy(q, req[r].target) /\ At(q, "trigger")
              /\ \/ Answer(r) /\ referring' = referring \ {r} /\ UNCHANGED rowLock
                 \/ /\ Answer(q) /\ UNCHANGED referring
                    /\ rowLock' = [rowLock EXCEPT ![req[r].target] = Nobody]
        BY <1>6 DEF BreakDeadlock
    <2>2. req[r].pc = "grant" /\ orgLock' = orgLock /\ req[r].target \in Members
        BY <1>6 DEF BreakDeadlock, CallsWell, WellAimed
    <2>3. CASE Answer(r) /\ referring' = referring \ {r} /\ UNCHANGED rowLock
        <3>1. \A s \in Requests \ {r} : req'[s] = req[s]
            BY <1>3, <2>3 DEF Answer
        <3>2. orgLock # r /\ \A m \in Members : rowLock[m] # r
            BY <2>2 DEF HoldersRun
        <3>. QED  BY <2>2, <2>3, <3>1, <3>2 DEF HoldersRun, TypeOK
    <2>4. CASE /\ Answer(q) /\ UNCHANGED referring
               /\ rowLock' = [rowLock EXCEPT ![req[r].target] = Nobody]
        <3>1. \A s \in Requests \ {q} : req'[s] = req[s]
            BY <1>3, <2>4 DEF Answer
        <3>2. orgLock # q /\ q \notin referring
            BY <2>1 DEF HoldersRun
        <3>3. \A m \in Members : rowLock'[m] # q
            BY <2>1, <2>2, <2>4 DEF HoldersRun, TypeOK, RemovedBy
        <3>. QED  BY <2>2, <2>4, <3>1, <3>2, <3>3 DEF HoldersRun, TypeOK
    <2>. QED  BY <2>1, <2>3, <2>4
<1>7. ASSUME NEW r \in Requests, LockRow(r)
      PROVE  HoldersRun'
    <2> DEFINE t == req[r].target
    <2>1. /\ req[r].pc = "lock" /\ rowLock[t] = Nobody /\ t \in Members
          /\ orgLock' = orgLock /\ referring' = referring
        BY <1>7 DEF LockRow, CallsWell, WellAimed
    <2>2. r \notin referring /\ orgLock # r /\ \A m \in Members : rowLock[m] # r
        BY <2>1 DEF HoldersRun
    <2>3. CASE Exists(t)
        <3>1. /\ rowLock' = [rowLock EXCEPT ![t] = r]
              /\ Goto(r, "trigger") \/ Goto(r, "commit")
            BY <1>7, <2>3 DEF LockRow
        <3>2. /\ req'[r].pc \in {"trigger", "commit"} /\ req'[r].target = t
              /\ \A q \in Requests \ {r} : req'[q] = req[q]
            BY <1>3, <3>1 DEF Goto, TypeOK, Call
        <3>. QED  BY <2>1, <2>2, <3>1, <3>2 DEF HoldersRun, TypeOK
    <2>4. CASE ~Exists(t)
        <3>1. rowLock' = rowLock /\ \A q \in Requests \ {r} : req'[q] = req[q]
            BY <1>3, <1>7, <2>4 DEF LockRow, Answer
        <3>. QED  BY <2>1, <2>2, <3>1 DEF HoldersRun, TypeOK
    <2>. QED  BY <2>3, <2>4
<1>8. ASSUME NEW r \in Requests, KeepAnOwner(r)
      PROVE  HoldersRun'
    <2> DEFINE t == req[r].target
    <2>1. /\ req[r].pc = "trigger" /\ orgLock = Nobody /\ referring = {} /\ t \in Members
          /\ referring' = referring
        BY <1>8 DEF KeepAnOwner, OrgFree, CallsWell, WellAimed
    <2>2. CASE orgLock' = r /\ Goto(r, "commit") /\ UNCHANGED rowLock
        <3>1. /\ req'[r].pc = "commit" /\ req'[r].target = t
              /\ \A q \in Requests \ {r} : req'[q] = req[q]
            BY <1>3, <2>2 DEF Goto, TypeOK, Call
        <3>. QED  BY <2>1, <2>2, <3>1 DEF HoldersRun, TypeOK
    <2>3. CASE rowLock' = [rowLock EXCEPT ![t] = Nobody] /\ Answer(r) /\ UNCHANGED orgLock
        <3>1. \A q \in Requests \ {r} : req'[q] = req[q]
            BY <1>3, <2>3 DEF Answer
        <3>2. \A m \in Members : rowLock'[m] # r
            BY <2>1, <2>3 DEF HoldersRun, TypeOK
        <3>. QED  BY <2>1, <2>3, <3>1, <3>2 DEF HoldersRun, TypeOK
    <2>. QED  BY <1>8, <2>2, <2>3 DEF KeepAnOwner
<1>9. ASSUME NEW r \in Requests, Commit(r)
      PROVE  HoldersRun'
    <2> DEFINE t == req[r].target
    <2>1. /\ req[r].pc = "commit" /\ t \in Members /\ Answer(r) /\ referring' = referring
          /\ rowLock' = [rowLock EXCEPT ![t] = Nobody]
          /\ orgLock' = IF orgLock = r THEN Nobody ELSE orgLock
        BY <1>9 DEF Commit, Released, CallsWell, WellAimed
    <2>2. \A q \in Requests \ {r} : req'[q] = req[q]
        BY <1>3, <2>1 DEF Answer
    <2>3. r \notin referring /\ orgLock' # r /\ \A m \in Members : rowLock'[m] # r
        BY <2>1 DEF HoldersRun, TypeOK
    <2>. QED  BY <2>1, <2>2, <2>3 DEF HoldersRun, TypeOK
<1>. QED
    BY <1>1, <1>2, <1>4, <1>5, <1>6, <1>7, <1>8, <1>9 DEF Next, Open, Step

(* Only an update or delete of an active owner asks for the organization.  *)
AskersLose == \A r \in Requests : At(r, "trigger") => ActiveOwner(req[r].target)

(* A step of one call that leaves the rows others hold.                    *)
LEMMA OthersLose ==
    ASSUME TypeOK, CallsWell, LocksHeld, AskersLose, NEW r \in Requests, NEW c, Becomes(r, c),
           c.pc = "trigger" => ActiveOwner(c.target)',
           \A q \in Requests \ {r} : rowLock[req[q].target] = q /\ req[q].target \in Members =>
               member'[req[q].target] = member[req[q].target]
    PROVE  AskersLose'
<1>1. req'[r] = c /\ \A q \in Requests \ {r} : req'[q] = req[q]
    BY DEF TypeOK, Becomes
<1>2. ASSUME NEW q \in Requests \ {r}, req[q].pc = "trigger"
      PROVE  ActiveOwner(req[q].target)'
    <2>1. /\ rowLock[req[q].target] = q /\ req[q].target \in Members
          /\ ActiveOwner(req[q].target)
        BY <1>2 DEF LocksHeld, AskersLose, Holding, At, CallsWell, WellAimed
    <2>. QED  BY <1>1, <2>1 DEF ActiveOwner
<1>. QED  BY <1>1, <1>2 DEF AskersLose, At

(* Every step keeps it: a row somebody holds is written by nobody else.    *)
LEMMA AskersKeep ==
    ASSUME IInv, AskersLose, [Next]_vars
    PROVE  AskersLose'
<1> USE DEF At, IInv
<1>1. CASE UNCHANGED vars
    BY <1>1 DEF vars, AskersLose, ActiveOwner
<1>2. ASSUME NEW r \in Requests,
             \/ ActingAs(r) \/ SignIn(r) \/ ClaimOwnership(r) \/ ReadTarget(r)
             \/ Revoke(r) \/ Share(r) \/ Grant(r)
      PROVE  AskersLose'
    <2>1. member' = member /\ \E c : Becomes(r, c) /\ c.pc # "trigger"
        <3>1. CASE ActingAs(r)
            <4>1. PICK a \in Members, op \in Ops, t \in Members, role \in Roles :
                    Becomes(r, [op |-> op, pc |-> IF op = "invite" THEN "insert" ELSE "target",
                       who |-> Nobody, actor |-> a, actorRole |-> member[a].role,
                       target |-> t, copy |-> Absent, role |-> role])
                BY <3>1, Zenon DEF ActingAs
            <4>. QED  BY <3>1, <4>1 DEF ActingAs, Rows
        <3>2. CASE SignIn(r)
            <4>1. PICK u \in People, m \in Members :
                    Becomes(r, [op |-> "signin", pc |-> "accept", who |-> u, actor |-> Nobody,
                       actorRole |-> "none", target |-> m, copy |-> Absent, role |-> "none"])
                BY <3>2, Zenon DEF SignIn
            <4>. QED  BY <3>2, <4>1 DEF SignIn, Rows
        <3>3. CASE ClaimOwnership(r)
            <4>1. PICK u \in People \cup {Nobody}, m \in Members :
                    Becomes(r, [op |-> "claim",
                       pc |-> IF ~Exists(m) THEN "add" ELSE IF u = Nobody THEN "lock" ELSE "attach",
                       who |-> u, actor |-> Nobody, actorRole |-> "none",
                       target |-> m, copy |-> member[m], role |-> "none"])
                BY <3>3, Zenon DEF ClaimOwnership
            <4>. QED  BY <3>3, <4>1 DEF ClaimOwnership, Rows
        <3>4. CASE ReadTarget(r)
            <4>1. \/ Answer(r)
                  \/ Becomes(r, [req[r] EXCEPT !.copy = member[req[r].target],
                        !.pc = IF req[r].op = "share" THEN "share" ELSE "lock"])
                BY <3>4, Zenon DEF ReadTarget
            <4> DEFINE d == [req[r] EXCEPT !.copy = member[req[r].target],
                        !.pc = IF req[r].op = "share" THEN "share" ELSE "lock"]
            <4>2. Answer(r) \/ Becomes(r, d)
                BY <4>1
            <4>3. d.pc # "trigger"
                <5>1. req[r] \in Call
                    BY DEF TypeOK
                <5>. QED  BY <5>1 DEF Call
            <4>4. member' = member
                BY <3>4 DEF ReadTarget, Rows
            <4> HIDE DEF d
            <4>. QED  BY <4>2, <4>3, <4>4 DEF Answer, Idle
        <3>5. CASE Revoke(r) \/ Grant(r)
            BY <3>5 DEF Revoke, Grant, Rows, Answer, Idle
        <3>6. CASE Share(r)
            BY <3>6 DEF Share, Rows, Goto, TypeOK, Call
        <3>. QED  BY <1>2, <3>1, <3>2, <3>3, <3>4, <3>5, <3>6
    <2>. QED  BY <2>1, OthersLose
<1>3. ASSUME NEW r \in Requests, Insert(r) \/ AddOwner(r)
      PROVE  AskersLose'
    <2>1. Becomes(r, Idle) /\ \A m \in Members : member[m] # Absent => member'[m] = member[m]
        BY <1>3 DEF Insert, AddOwner, Answer, TypeOK
    <2>2. \A q \in Requests : AskersLose /\ req[q].pc = "trigger" => member[req[q].target] # Absent
        BY DEF AskersLose, ActiveOwner, Absent
    <2>3. \A q \in Requests \ {r} : req'[q] = req[q]
        BY <2>1 DEF Becomes, TypeOK
    <2>4. req'[r] = Idle
        BY <2>1 DEF Becomes, TypeOK
    <2>5. \A q \in Requests : req[q].pc = "trigger" => req[q].target \in Members
        BY DEF CallsWell, WellAimed
    <2>. QED  BY <2>1, <2>2, <2>3, <2>4, <2>5 DEF AskersLose, ActiveOwner, Idle
<1>4. ASSUME NEW r \in Requests, ClaimInvitation(r) \/ Attach(r)
      PROVE  AskersLose'
    <2>1. rowLock[req[r].target] = Nobody /\ \E c : Becomes(r, c) /\ c.pc # "trigger"
        <3>1. CASE ClaimInvitation(r)
            BY <3>1 DEF ClaimInvitation, Answer, Idle
        <3>2. CASE Attach(r)
            <4>1. Answer(r) \/ Becomes(r, [req[r] EXCEPT !.copy.status = "active", !.pc = "lock"])
                BY <3>2, Zenon DEF Attach
            <4> DEFINE d == [req[r] EXCEPT !.copy.status = "active", !.pc = "lock"]
            <4>2. Answer(r) \/ Becomes(r, d)
                BY <4>1
            <4>3. d.pc = "lock"
                <5>1. req[r] \in Call
                    BY DEF TypeOK
                <5>. QED  BY <5>1 DEF Call
            <4>4. rowLock[req[r].target] = Nobody
                BY <3>2 DEF Attach
            <4> HIDE DEF d
            <4>. QED  BY <4>2, <4>3, <4>4 DEF Answer, Idle
        <3>. QED  BY <1>4, <3>1, <3>2
    <2>2. \A m \in Members \ {req[r].target} : member'[m] = member[m]
        BY <1>4 DEF ClaimInvitation, Attach, TypeOK
    <2>3. \A q \in Requests \ {r} : rowLock[req[q].target] = q /\ req[q].target \in Members =>
            member'[req[q].target] = member[req[q].target]
        BY <2>1, <2>2
    <2>. QED  BY <2>1, <2>3, OthersLose
<1>5. ASSUME NEW r \in Requests, LockRow(r)
      PROVE  AskersLose'
    <2>1. CASE Exists(req[r].target)
        <3> DEFINE c == [req[r] EXCEPT
                    !.pc = IF LosesOwner(req[r], member[req[r].target]) THEN "trigger" ELSE "commit"]
        <3>1. Becomes(r, c) /\ member' = member
            BY <1>5, <2>1 DEF LockRow, Goto, Rows
        <3>2. c.target = req[r].target /\ (c.pc = "trigger" => ActiveOwner(req[r].target))
            BY DEF TypeOK, Call, LosesOwner, ActiveOwner
        <3> HIDE DEF c
        <3>. QED  BY <3>1, <3>2, OthersLose DEF ActiveOwner
    <2>2. CASE ~Exists(req[r].target)
        <3>1. Becomes(r, Idle) /\ member' = member
            BY <1>5, <2>2 DEF LockRow, Answer, Rows
        <3>. QED  BY <3>1, OthersLose DEF Idle
    <2>. QED  BY <2>1, <2>2
<1>6. ASSUME NEW r \in Requests, KeepAnOwner(r)
      PROVE  AskersLose'
    <2>1. member' = member /\ (Goto(r, "commit") \/ Answer(r))
        BY <1>6 DEF KeepAnOwner, Rows
    <2>2. \E c : Becomes(r, c) /\ c.pc # "trigger"
        BY <2>1 DEF Goto, Answer, Idle, TypeOK, Call
    <2>. QED  BY <2>1, <2>2, OthersLose
<1>7. ASSUME NEW r \in Requests, Commit(r)
      PROVE  AskersLose'
    <2>1. /\ Becomes(r, Idle) /\ rowLock[req[r].target] = r
          /\ member' = [member EXCEPT ![req[r].target] = NewRow(req[r], @)]
        BY <1>7 DEF Commit, Answer, LocksHeld, Holding
    <2>2. \A q \in Requests \ {r} : rowLock[req[q].target] = q /\ req[q].target \in Members =>
            member'[req[q].target] = member[req[q].target]
        BY <2>1 DEF TypeOK
    <2>. QED  BY <2>1, <2>2, OthersLose DEF Idle
<1>8. ASSUME NEW r \in Requests, BreakDeadlock(r)
      PROVE  AskersLose'
    <2>1. member' = member /\ \E q \in Requests : Becomes(q, Idle)
        BY <1>8 DEF BreakDeadlock, Answer, Rows
    <2>. QED  BY <2>1, OthersLose DEF Idle
<1>. QED
    BY <1>1, <1>2, <1>3, <1>4, <1>5, <1>6, <1>7, <1>8 DEF Next, Open, Step

(* The circles these statements can close, for every number of calls: the  *)
(* last in a chain of waits is a commit, or a grant and a removal that     *)
(* wait for each other, and that removal is of an active owner.            *)
THEOREM CirclesAreOfOwners == Spec => []OnlyOwnersCircle
<1>1. Init => HoldersRun /\ AskersLose
    BY DEF Init, HoldersRun, AskersLose, At, Idle
<1>2. IInv /\ HoldersRun /\ AskersLose /\ [Next]_vars => HoldersRun' /\ AskersLose'
    BY HoldersKeep, AskersKeep DEF IInv
<1>3. IInv /\ HoldersRun /\ AskersLose => OnlyOwnersCircle
    <2>. SUFFICES ASSUME IInv, HoldersRun, AskersLose PROVE OnlyOwnersCircle
        OBVIOUS
    <2> USE DEF At
    <2>1. TypeOK /\ CallsWell
        BY DEF IInv
    <2>2. ASSUME NEW r \in Requests, NEW q \in Requests, Circle(r, q)
          PROVE  ActiveOwner(req[r].target)
        <3>1. req[r].target \in Members
            BY <2>1, <2>2 DEF Circle, CallsWell, WellAimed
        <3>2. req[q].target = req[r].target
            BY <2>2, <3>1, <2>1 DEF Circle, RemovedBy, HoldersRun, TypeOK
        <3>. QED  BY <2>2, <3>2 DEF Circle, AskersLose
    <2>3. ASSUME NEW r \in Requests, ~At(r, "idle"),
                 \A q \in Requests : ~At(q, "idle") => Waits(q),
                 \A p, q \in Requests : ~Circle(p, q)
          PROVE  FALSE
        <3>1. \A q \in Requests : ~At(q, "commit")
            BY <2>3 DEF Waits
        <3>2. OrgFree
            BY <2>1, <3>1 DEF OrgFree, HoldersRun, TypeOK
        <3>3. ASSUME NEW q \in Requests, At(q, "grant")
              PROVE  FALSE
            <4>1. PICK s \in Requests : RemovedBy(s, req[q].target)
                BY <2>3, <3>3 DEF Waits
            <4>2. req[q].target \in Members
                BY <2>1, <3>3 DEF CallsWell, WellAimed
            <4>3. At(s, "trigger")
                BY <2>1, <3>1, <4>1, <4>2 DEF RemovedBy, HoldersRun, TypeOK
            <4>. QED  BY <2>3, <3>3, <4>1, <4>3 DEF Circle
        <3>4. referring = {}
            BY <2>1, <3>3 DEF HoldersRun, TypeOK
        <3>5. \A q \in Requests : ~At(q, "trigger")
            BY <2>3, <3>2, <3>4 DEF Waits
        <3>6. \A m \in Members : rowLock[m] = Nobody
            BY <2>1, <3>1, <3>5 DEF HoldersRun, TypeOK
        <3>. QED  BY <2>1, <2>3, <3>2, <3>3, <3>5, <3>6 DEF Waits, CallsWell, WellAimed
    <2>. QED  BY <2>2, <2>3 DEF OnlyOwnersCircle
<1>. QED  BY <1>1, <1>2, <1>3, InitInv, Invariance, PTL DEF Spec

=============================================================================
