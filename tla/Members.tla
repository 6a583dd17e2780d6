-------------------------------- MODULE Members --------------------------------
(***************************************************************************)
(* Who belongs to one organization: the membership rows, the requests that *)
(* invite, change, suspend, reactivate, remove members and grant them a    *)
(* workspace, the sign-in that accepts an invitation, and the one-off      *)
(* claim that makes a first owner.                                         *)
(*                                                                         *)
(* A request reads its caller's row, then the member it changes, and then  *)
(* writes role and status from that copy.  An update or delete is two      *)
(* steps, because the trigger that keeps an owner runs between the row's   *)
(* lock and the commit: it locks the organization and counts the other     *)
(* active owners among the committed rows.                                 *)
(***************************************************************************)
EXTENDS Naturals, FiniteSets

CONSTANTS
    Members,      \* ids of membership rows, each with an address of its own
    People,       \* signed-in users
    Requests,     \* calls that can be in flight together
    Nobody,       \* no person, no row, no call
    Roles,        \* the roles that occur
    MaxCalls      \* bound: calls of a behaviour

ASSUME MembersAssumption ==
    /\ Nobody \notin Members \cup People \cup Requests
    /\ Roles \subseteq {"owner", "admin", "member", "viewer"} /\ "owner" \in Roles
    /\ MaxCalls \in Nat

VARIABLES
    member,    \* id -> its row of organization_members
    granted,   \* ids with access to the workspace (workspace_members)
    rowLock,   \* id -> the statement that holds its row
    orgLock,   \* the statement that holds the organization's row
    referring, \* the grants that hold it against such a statement (foreign key)
    req,       \* call -> what it does, how far it is and the copies it holds
    calls      \* calls so far

vars == <<member, granted, rowLock, orgLock, referring, req, calls>>

(* Only an invitation may be without a person.  Ids are not used again: an *)
(* address invited anew is a new row.                                      *)
Absent  == [status |-> "absent", role |-> "none", user |-> Nobody]
Removed == [Absent EXCEPT !.status = "removed"]
Row     == [status: {"invited", "active", "suspended"}, role: Roles, user: People]
             \cup [status: {"invited"}, role: Roles, user: {Nobody}] \cup {Absent, Removed}
Idle    == [op |-> "none", pc |-> "idle", who |-> Nobody, actor |-> Nobody, actorRole |-> "none",
            target |-> Nobody, copy |-> Absent, role |-> "none"]

Exists(m)      == member[m].status \notin {"absent", "removed"}
ActiveOwner(m) == member[m].status = "active" /\ member[m].role = "owner"
HasOwner       == \E m \in Members : ActiveOwner(m)

(* Another row already has this person: the unique index.                  *)
Taken(m, u) == \E n \in Members \ {m} : Exists(n) /\ u # Nobody /\ member[n].user = u

(* A new organization, or one with an owner and people who signed in.      *)
Init ==
    /\ member \in [Members -> [status: {"active"}, role: Roles, user: People] \cup {Absent}]
    /\ \A m, n \in Members : m # n /\ Exists(m) => member[m].user # member[n].user
    /\ HasOwner \/ \A m \in Members : ~Exists(m)
    /\ granted = {}
    /\ rowLock = [m \in Members |-> Nobody]
    /\ orgLock = Nobody
    /\ referring = {}
    /\ req = [r \in Requests |-> Idle]
    /\ calls = 0

At(r, p)      == req[r].pc = p
Becomes(r, c) == req' = [req EXCEPT ![r] = c]
Goto(r, p)    == Becomes(r, [req[r] EXCEPT !.pc = p])
Answer(r)     == Becomes(r, Idle)
Rows          == <<member, granted>>
Locks         == <<rowLock, orgLock, referring>>

-----------------------------------------------------------------------------
(* The rules of permissions.ts.                                            *)
Manages(role) == role \in {"owner", "admin"}

(* Nobody manages a member at or above their own rank except an owner.     *)
CanManageMember(actor, target) ==
    \/ actor = "owner"
    \/ actor = "admin" /\ target \in {"member", "viewer"}

CanAssignRole(actor, role) ==
    \/ actor = "owner"
    \/ actor = "admin" /\ role \in {"member", "viewer"}

(* A request, from the second read of the caller's own row on: what it was *)
(* resolved to before only refuses more.                                   *)
Ops == {"invite", "role", "suspend", "reactivate", "remove", "share"}

ActingAs(r) ==
    /\ At(r, "idle") /\ calls < MaxCalls /\ calls' = calls + 1
    /\ \E a \in Members, op \in Ops, t \in Members, role \in Roles :
        /\ member[a].status = "active" /\ Manages(member[a].role)
        /\ op \notin {"invite", "role"} => role = member[a].role
        /\ IF op = "invite" THEN t = a ELSE Exists(t)
        /\ Becomes(r, [op |-> op, pc |-> IF op = "invite" THEN "insert" ELSE "target",
                       who |-> Nobody, actor |-> a, actorRole |-> member[a].role,
                       target |-> t, copy |-> Absent, role |-> role])
    /\ UNCHANGED <<Rows, Locks>>

(* The member to change, and what is refused before anything is written.   *)
Allowed(c, t) ==
    CASE c.op = "role" -> /\ c.target # c.actor /\ t.role # c.role
                          /\ CanManageMember(c.actorRole, t.role) /\ CanAssignRole(c.actorRole, c.role)
      [] c.op = "suspend"    -> /\ c.target # c.actor /\ t.status = "active"
                                /\ CanManageMember(c.actorRole, t.role)
      [] c.op = "reactivate" -> /\ c.target # c.actor /\ t.status = "suspended"
                                /\ CanManageMember(c.actorRole, t.role)
      [] c.op = "remove"     -> c.target # c.actor /\ CanManageMember(c.actorRole, t.role)
      [] OTHER               -> c.target = c.actor \/ CanManageMember(c.actorRole, t.role)

ReadTarget(r) ==
    /\ At(r, "target")
    /\ LET t == member[req[r].target]
       IN IF Exists(req[r].target) /\ Allowed(req[r], t)
          THEN Becomes(r, [req[r] EXCEPT !.copy = t,
                   !.pc = IF req[r].op = "share" THEN "share" ELSE "lock"])
          ELSE Answer(r)
    /\ UNCHANGED <<Rows, Locks, calls>>

(* An invitation is a new row; one to an address that has a row is refused *)
(* by the other unique index.                                              *)
Insert(r) ==
    /\ At(r, "insert")
    /\ \/ UNCHANGED member
       \/ /\ CanAssignRole(req[r].actorRole, req[r].role)
          /\ \E m \in Members :
                /\ member[m] = Absent
                /\ member' = [member EXCEPT ![m] =
                        [status |-> "invited", role |-> req[r].role, user |-> Nobody]]
    /\ Answer(r)
    /\ UNCHANGED <<granted, Locks, calls>>

(* A grant refers to the member's row, so none is made once it is gone.    *)
Referable(m) == Exists(m)

(* No statement holds the organization's row.                               *)
(* Mutant: the owners are counted without the organization's lock.         *)
MutNoLock == TRUE

OrgFree == orgLock = Nobody

Revoke(r) ==
    /\ At(r, "share")
    /\ granted' = granted \ {req[r].target}
    /\ Answer(r)
    /\ UNCHANGED <<member, Locks, calls>>

(* The grant's foreign keys are checked in order: the organization's row,  *)
(* then the member's, which a statement that removes it holds.             *)
Share(r) ==
    /\ At(r, "share") /\ OrgFree
    /\ referring' = referring \cup {r}
    /\ Goto(r, "grant")
    /\ UNCHANGED <<Rows, rowLock, orgLock, calls>>

RemovedBy(q, m) == rowLock[m] = q /\ req[q].op = "remove"

Grant(r) ==
    /\ At(r, "grant")
    /\ LET t == req[r].target
       IN /\ \A q \in Requests : ~RemovedBy(q, t)
          /\ granted' = IF Referable(t) THEN granted \cup {t} ELSE granted
    /\ referring' = referring \ {r}
    /\ Answer(r)
    /\ UNCHANGED <<member, rowLock, orgLock, calls>>

(* A grant and the removal of an owner it is for wait for each other: the  *)
(* database fails one of the two.                                          *)
BreakDeadlock(r) ==
    /\ At(r, "grant")
    /\ \E q \in Requests :
        /\ RemovedBy(q, req[r].target) /\ At(q, "trigger")
        /\ \/ Answer(r) /\ referring' = referring \ {r} /\ UNCHANGED rowLock
           \/ /\ Answer(q) /\ UNCHANGED referring
              /\ rowLock' = [rowLock EXCEPT ![req[r].target] = Nobody]
    /\ UNCHANGED <<Rows, orgLock, calls>>

-----------------------------------------------------------------------------
(* One update or delete: the row's lock, the trigger, the commit.          *)

(* role and status from the copy; the person and the address stay.         *)
NewRow(c, row) ==
    CASE c.op = "role"       -> [row EXCEPT !.role = c.role, !.status = c.copy.status]
      [] c.op = "suspend"    -> [row EXCEPT !.role = c.copy.role, !.status = "suspended"]
      [] c.op = "reactivate" -> [row EXCEPT !.role = c.copy.role, !.status = "active"]
      [] c.op = "claim"      -> [row EXCEPT !.role = "owner", !.status = c.copy.status]
      [] OTHER               -> Removed

(* Mutant: every change counts the owners, with the organization locked.   *)
MutAsksAlways(c, row) == TRUE

LosesOwner(c, row) ==
    /\ row.status = "active" /\ row.role = "owner"
    /\ NewRow(c, row).status # "active" \/ NewRow(c, row).role # "owner"

LockRow(r) ==
    /\ At(r, "lock")
    /\ rowLock[req[r].target] = Nobody
    /\ IF Exists(req[r].target)
       THEN /\ rowLock' = [rowLock EXCEPT ![req[r].target] = r]
            /\ Goto(r, IF LosesOwner(req[r], member[req[r].target]) THEN "trigger" ELSE "commit")
       ELSE UNCHANGED rowLock /\ Answer(r)
    /\ UNCHANGED <<Rows, orgLock, referring, calls>>

(* select ... from organizations for update, and the count.                *)
KeepAnOwner(r) ==
    /\ At(r, "trigger") /\ OrgFree /\ referring = {}
    /\ IF \E m \in Members \ {req[r].target} : ActiveOwner(m)
       THEN /\ orgLock' = r /\ Goto(r, "commit")
            /\ UNCHANGED rowLock
       ELSE /\ rowLock' = [rowLock EXCEPT ![req[r].target] = Nobody]
            /\ Answer(r) /\ UNCHANGED orgLock
    /\ UNCHANGED <<Rows, referring, calls>>

Released(r) == IF orgLock = r THEN Nobody ELSE orgLock

Commit(r) ==
    /\ At(r, "commit")
    /\ LET t == req[r].target
       IN /\ member' = [member EXCEPT ![t] = NewRow(req[r], @)]
          /\ granted' = IF req[r].op = "remove" THEN granted \ {t} ELSE granted
          /\ rowLock' = [rowLock EXCEPT ![t] = Nobody]
    /\ orgLock' = Released(r)
    /\ Answer(r)
    /\ UNCHANGED <<referring, calls>>

-----------------------------------------------------------------------------
(* Signing in: an invitation to a confirmed address is looked for and then *)
(* accepted, if it still is one and the person has no other row here.      *)
SignIn(r) ==
    /\ At(r, "idle") /\ calls < MaxCalls /\ calls' = calls + 1
    /\ \E u \in People, m \in Members :
        /\ member[m].status = "invited" /\ member[m].user = Nobody
        /\ Becomes(r, [op |-> "signin", pc |-> "accept", who |-> u, actor |-> Nobody,
                       actorRole |-> "none", target |-> m, copy |-> Absent, role |-> "none"])
    /\ UNCHANGED <<Rows, Locks>>

(* Mutant: whoever read the invitation gets it.                            *)
MutStillThere(row) == row.status \notin {"absent", "removed"}

Unclaimed(row) == row.status = "invited" /\ row.user = Nobody

Accepted(row, u) == [row EXCEPT !.user = u, !.status = "active"]

ClaimInvitation(r) ==
    /\ At(r, "accept") /\ rowLock[req[r].target] = Nobody
    /\ LET t == req[r].target
           u == req[r].who
       IN member' = IF Unclaimed(member[t]) /\ ~Taken(t, u)
                    THEN [member EXCEPT ![t] = Accepted(member[t], u)] ELSE member
    /\ Answer(r)
    /\ UNCHANGED <<granted, Locks, calls>>

(* claimOwnership, from a terminal: only while nobody is an active owner.  *)
(* With an account, an invitation is accepted and the row made an owner;   *)
(* without one the invitation, or a new one, becomes an owner's.           *)
ClaimOwnership(r) ==
    /\ At(r, "idle") /\ calls < MaxCalls /\ calls' = calls + 1
    /\ ~HasOwner
    /\ \E u \in People \cup {Nobody}, m \in Members :
        /\ member[m].status # "removed"
        /\ Exists(m) \/ ~Taken(m, u)
        /\ Becomes(r, [op |-> "claim",
                       pc |-> IF ~Exists(m) THEN "add" ELSE IF u = Nobody THEN "lock" ELSE "attach",
                       who |-> u, actor |-> Nobody, actorRole |-> "none",
                       target |-> m, copy |-> member[m], role |-> "none"])
    /\ UNCHANGED <<Rows, Locks>>

(* The claim of the invitation, when the row read has nobody yet.          *)
Attach(r) ==
    /\ At(r, "attach") /\ rowLock[req[r].target] = Nobody
    /\ LET t     == req[r].target
           tried == req[r].copy.user = Nobody /\ Unclaimed(member[t])
       IN /\ member' = IF tried /\ ~Taken(t, req[r].who)
                       THEN [member EXCEPT ![t] = Accepted(member[t], req[r].who)] ELSE member
          /\ IF tried /\ Taken(t, req[r].who) THEN Answer(r)
             ELSE Becomes(r, [req[r] EXCEPT !.copy.status = "active", !.pc = "lock"])
    /\ UNCHANGED <<granted, Locks, calls>>

AddedStatus(u) == IF u = Nobody THEN "invited" ELSE "active"

AddOwner(r) ==
    /\ At(r, "add")
    /\ LET t == req[r].target
           u == req[r].who
       IN member' = IF member[t] # Absent \/ Taken(t, u) THEN member
                    ELSE [member EXCEPT ![t] = [status |-> AddedStatus(u), role |-> "owner", user |-> u]]
    /\ Answer(r)
    /\ UNCHANGED <<granted, Locks, calls>>

Open(r) == ActingAs(r) \/ SignIn(r) \/ ClaimOwnership(r)

Step(r) ==
    \/ ReadTarget(r) \/ Insert(r) \/ Revoke(r) \/ Share(r) \/ Grant(r) \/ BreakDeadlock(r)
    \/ LockRow(r) \/ KeepAnOwner(r) \/ Commit(r)
    \/ ClaimInvitation(r) \/ Attach(r) \/ AddOwner(r)

Next == \E r \in Requests : Open(r) \/ Step(r)

Spec == Init /\ [][Next]_vars

-----------------------------------------------------------------------------
Call == [op: Ops \cup {"none", "signin", "claim"},
         pc: {"idle", "target", "insert", "share", "grant", "lock", "trigger", "commit", "accept",
              "attach", "add"},
         who: People \cup {Nobody}, actor: Members \cup {Nobody}, actorRole: Roles \cup {"none"},
         target: Members \cup {Nobody}, copy: Row \cup [status: {"active"}, role: Roles, user: {Nobody}], role: Roles \cup {"none"}]

(* Every variable has its type.                                            *)
TypeOK ==
    /\ member \in [Members -> Row]
    /\ granted \subseteq Members
    /\ rowLock \in [Members -> Requests \cup {Nobody}]
    /\ orgLock \in Requests \cup {Nobody}
    /\ referring \subseteq Requests
    /\ req \in [Requests -> Call]
    /\ calls \in Nat

(* An organization never loses its last active owner, whatever the order   *)
(* in which demotions, suspensions and removals land.                      *)
OwnerKept == [][HasOwner => HasOwner']_vars

(* A person has at most one membership here, however they were invited.    *)
OneMembershipEach ==
    \A m, n \in Members : member[m].user # Nobody /\ member[m].user = member[n].user => m = n

(* Whoever accepted an invitation keeps the row until it is removed: two   *)
(* people who sign in with the same address cannot both have it.           *)
AcceptedOnce ==
    [][\A m \in Members : member[m].user # Nobody =>
            member'[m].user = member[m].user \/ member'[m] = Removed]_vars

(* Workspace access is held by members only, and goes with them.           *)
GrantsOfMembers == \A m \in granted : Exists(m)

(* An invitation has no person yet: who accepted one is never again only   *)
(* invited.                                                                *)
InvitationsHaveNoUser == \A m \in Members : member[m].status = "invited" => member[m].user = Nobody

(* What a statement waits for: a row's lock, the organization's, or the    *)
(* remover of the row it refers to.                                        *)
Waits(r) ==
    \/ req[r].pc \in {"lock", "accept", "attach"} /\ rowLock[req[r].target] # Nobody
    \/ At(r, "share") /\ ~OrgFree
    \/ At(r, "trigger") /\ (~OrgFree \/ referring # {})
    \/ At(r, "grant") /\ \E q \in Requests : RemovedBy(q, req[r].target)

(* A grant and a removal wait for each other: the one holds the            *)
(* organization against the other, which holds the row the grant is for.   *)
Circle(r, q) == At(r, "grant") /\ RemovedBy(q, req[r].target) /\ At(q, "trigger")

(* The one circle of waits these statements can close is a grant to an     *)
(* active owner who is being removed: the removal of anybody else does not *)
(* ask for the organization, and without a circle some call goes on.       *)
OnlyOwnersCircle ==
    /\ \A r, q \in Requests : Circle(r, q) => ActiveOwner(req[r].target)
    /\ (\E r \in Requests : ~At(r, "idle")) =>
            \/ \E r \in Requests : ~At(r, "idle") /\ ~Waits(r)
            \/ \E r, q \in Requests : Circle(r, q)
=============================================================================
