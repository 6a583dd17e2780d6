--------------------------- MODULE ConnectionsProofs ---------------------------
(***************************************************************************)
(* What Connections keeps for every set of rows, grants, calls and         *)
(* processes: its types, one live connection, one exchange for a state,    *)
(* one refresh at a time in a process, that a disconnected connection      *)
(* stays so, and that no call but a disconnect, or the round trip that     *)
(* stored it and then failed, ends a grant a row keeps.                    *)
(*                                                                         *)
(* A step is looked at four times: for what it may do to a row (RowStep),  *)
(* to a grant and who holds it (GrantStep), to the refreshes under way     *)
(* (RefreshStep) and to who has which grant (KeptStep).  Each of the four  *)
(* is enough for its invariant.                                            *)
(***************************************************************************)
EXTENDS Connections, FiniteSetTheorems, TLAPS

USE ConnectionsAssumption

LiveStatuses == {"active", "needs_attention"}
WithRow      == {"previous", "replace", "update", "end", "write", "open", "provider", "revoke",
                 "credentials", "run", "refresh", "wait", "look", "mark"} \cup Refreshing
WithGrant    == {"exchange", "find", "previous", "replace", "update", "end", "create", "drop"}
WithCopy     == {"previous", "replace", "update", "write", "mark", "mark current"}
WithCred     == {"provider", "run", "refresh", "wait", "look", "mark"} \cup Refreshing

(* A call holds what its next statement needs: a process, a row, a grant,  *)
(* credentials, and a copy that was live when it was read.                 *)
Fit(c) ==
    /\ c \in Call
    /\ c.pc # "idle" => c.proc \in Processes
    /\ c.pc \in WithRow => c.id \in Rows
    /\ c.pc \in WithGrant => c.grant \in Grants
    /\ c.pc \in WithCopy => c.copy.status \in LiveStatuses
    /\ c.pc \in WithCred => c.cred \in Grants

CallsFit == \A r \in Calls : Fit(req[r])

(* A grant somebody holds was asked for and used, by one call only, and    *)
(* a code not yet exchanged was exchanged by nobody.                       *)
GrantsApart ==
    /\ \A r \in Calls : req[r].grant # None => token[req[r].grant] \notin {"new", "asked"}
    /\ \A r, q \in Calls : req[r].grant # None /\ req[r].grant = req[q].grant => r = q
    /\ \A r \in Calls : At(r, "exchange") => token[req[r].grant] = "used"

Runs(q)    == req[q].pc \in Refreshing
Waits(q)   == At(q, "wait")
Same(q, s) == req[q].proc = req[s].proc /\ req[q].id = req[s].id

(* What RefreshesAreShared says, call by call.                             *)
Shared ==
    /\ \A q, s \in Calls : Runs(q) /\ Runs(s) /\ Same(q, s) => q = s
    /\ \A q \in Calls : Waits(q) => \E s \in Calls : Runs(s) /\ Same(q, s)

IInv == TypeOK /\ CallsFit /\ OneLive /\ GrantsApart /\ Shared

-----------------------------------------------------------------------------
(* Rows, copies and calls.                                                 *)

(* What a row can be.                                                      *)
LEMMA RowParts ==
    ASSUME NEW x \in Row
    PROVE  /\ x = [status |-> x.status, cred |-> x.cred, may |-> x.may]
           /\ x.status \in LiveStatuses \cup {"revoked", "absent"}
           /\ x.may \in BOOLEAN
           /\ x.cred \in Grants \cup {None}
           /\ x.status \in LiveStatuses <=> x.cred \in Grants
           /\ x.cred # None <=> x.cred \in Grants
<1> USE DEF LiveStatuses
<1>1. CASE x \in [status: {"active", "needs_attention"}, cred: Grants, may: BOOLEAN]
    BY <1>1
<1>2. CASE x \in [status: {"revoked"}, cred: {None}, may: BOOLEAN]
    BY <1>2
<1>3. CASE x = NoRow
    BY <1>3 DEF NoRow
<1>. QED  BY <1>1, <1>2, <1>3 DEF Row

(* What makes a row.                                                       *)
LEMMA RowMade ==
    ASSUME NEW s, NEW g, NEW m \in BOOLEAN,
           \/ s \in LiveStatuses /\ g \in Grants
           \/ s = "revoked" /\ g = None
    PROVE  [status |-> s, cred |-> g, may |-> m] \in Row
    BY DEF Row, LiveStatuses

(* Two fields of a row, written together.                                  *)
LEMMA TwoFields ==
    ASSUME NEW x \in Row, NEW s, NEW g, NEW m
    PROVE  /\ [x EXCEPT !.status = s, !.may = m] = [status |-> s, cred |-> x.cred, may |-> m]
           /\ [x EXCEPT !.status = s, !.cred = g] = [status |-> s, cred |-> g, may |-> x.may]
<1>1. x = [status |-> x.status, cred |-> x.cred, may |-> x.may]
    BY RowParts
<1>2. [x EXCEPT !.status = s] = [status |-> s, cred |-> x.cred, may |-> x.may]
    BY <1>1
<1>3. [x EXCEPT !.status = s, !.may = m]
        = [[status |-> s, cred |-> x.cred, may |-> x.may] EXCEPT !.may = m]
    BY <1>2, Zenon
<1>4. [x EXCEPT !.status = s, !.cred = g]
        = [[status |-> s, cred |-> x.cred, may |-> x.may] EXCEPT !.cred = g]
    BY <1>2, Zenon
<1>. QED  BY <1>3, <1>4

(* A call that has answered needs nothing.                                 *)
LEMMA IdleFits == Fit(Idle)
    BY DEF Fit, Idle, Call, Pcs, Row, NoRow, WithRow, WithGrant, WithCopy, WithCred, Refreshing

(* A call that fits takes the place of one that did.                       *)
LEMMA BecomesFits ==
    ASSUME TypeOK, CallsFit, NEW r \in Calls, NEW c, Fit(c), Becomes(r, c)
    PROVE  req' \in [Calls -> Call] /\ CallsFit'
    BY DEF TypeOK, CallsFit, Fit, Becomes

-----------------------------------------------------------------------------
(* What a step may do to the rows.                                         *)
RowStep ==
    \/ row' = row
    \/ \E i \in Rows, g \in Grants : row' = Stored(i, g)
    \/ \E i \in Rows, copy \in Row :
          copy.status \in LiveStatuses /\ Writable(i) /\ row' = Written(i, copy)
    \/ \E i \in Rows, g \in Grants :
          /\ ~ScopeTaken /\ Fresh(i)
          /\ row' = [row EXCEPT ![i] = [status |-> "active", cred |-> g, may |-> TRUE]]
    \/ \E i \in Rows : row' = [row EXCEPT ![i].status = "revoked", ![i].cred = None]

(* Whatever it does, the rows keep their types, no second one becomes      *)
(* live, and a revoked one is untouched.                                   *)
LEMMA RowsKeep ==
    ASSUME row \in [Rows -> Row], OneLive, RowStep
    PROVE  /\ row' \in [Rows -> Row]
           /\ OneLive'
           /\ \A i \in Rows : row[i].status = "revoked" => row'[i] = row[i]
<1> USE DEF Live
<1>1. CASE row' = row
    BY <1>1 DEF OneLive
<1>2. ASSUME NEW i \in Rows, NEW g \in Grants, row' = Stored(i, g)
      PROVE  /\ row' \in [Rows -> Row] /\ OneLive'
             /\ \A j \in Rows : row[j].status = "revoked" => row'[j] = row[j]
    <2>1. CASE ~Live(i)
        BY <1>2, <2>1 DEF Stored, OneLive
    <2>2. CASE Live(i)
        <3>1. row[i] \in Row
            OBVIOUS
        <3>2. row' = [row EXCEPT ![i] = [status |-> row[i].status, cred |-> g, may |-> row[i].may]]
            <4>1. row[i] = [status |-> row[i].status, cred |-> row[i].cred, may |-> row[i].may]
                BY <3>1, RowParts
            <4>2. [row[i] EXCEPT !.cred = g]
                    = [status |-> row[i].status, cred |-> g, may |-> row[i].may]
                BY <4>1
            <4>. QED  BY <1>2, <2>2, <4>2 DEF Stored
        <3>3. [status |-> row[i].status, cred |-> g, may |-> row[i].may] \in Row
            BY <2>2, <3>1, RowParts, RowMade DEF LiveStatuses
        <3>4. row' \in [Rows -> Row]
            BY <3>2, <3>3
        <3>5. \A j \in Rows : row'[j].status = row[j].status /\ (j # i => row'[j] = row[j])
            BY <3>2
        <3>. QED  BY <3>4, <3>5, <2>2 DEF OneLive
    <2>. QED  BY <2>1, <2>2
<1>3. ASSUME NEW i \in Rows, NEW copy \in Row, copy.status \in LiveStatuses, Writable(i),
             row' = Written(i, copy)
      PROVE  /\ row' \in [Rows -> Row] /\ OneLive'
             /\ \A j \in Rows : row[j].status = "revoked" => row'[j] = row[j]
    <2>1. row[i] = [status |-> row[i].status, cred |-> row[i].cred, may |-> row[i].may]
        BY RowParts
    <2>2. row[i].status \in LiveStatuses /\ row[i].cred \in Grants /\ copy.may \in BOOLEAN
        BY <1>3, RowParts DEF Writable
    <2>3. row' = [row EXCEPT ![i] = [status |-> copy.status, cred |-> row[i].cred, may |-> copy.may]]
        <3>1. [[row[i] EXCEPT !.status = copy.status] EXCEPT !.may = copy.may]
                = [status |-> copy.status, cred |-> row[i].cred, may |-> copy.may]
            BY TwoFields
        <3>2. row' = [row EXCEPT ![i] = [[row[i] EXCEPT !.status = copy.status] EXCEPT !.may = copy.may]]
            BY <1>3 DEF Written
        <3>. QED  BY <3>1, <3>2
    <2>4. [status |-> copy.status, cred |-> row[i].cred, may |-> copy.may] \in Row
        BY <1>3, <2>2, RowMade
    <2>5. row' \in [Rows -> Row]
        BY <2>3, <2>4
    <2>6. \A j \in Rows : j # i => row'[j] = row[j]
        BY <2>3
    <2>. QED  BY <2>2, <2>5, <2>6 DEF OneLive, LiveStatuses
<1>4. ASSUME NEW i \in Rows, NEW g \in Grants, ~ScopeTaken, Fresh(i),
             row' = [row EXCEPT ![i] = [status |-> "active", cred |-> g, may |-> TRUE]]
      PROVE  /\ row' \in [Rows -> Row] /\ OneLive'
             /\ \A j \in Rows : row[j].status = "revoked" => row'[j] = row[j]
    <2>1. [status |-> "active", cred |-> g, may |-> TRUE] \in Row
        BY RowMade DEF LiveStatuses
    <2>2. row' \in [Rows -> Row]
        BY <1>4, <2>1
    <2>3. \A j \in Rows : j # i => row'[j] = row[j]
        BY <1>4
    <2>4. row[i].status = "absent"
        BY <1>4 DEF Fresh, NoRow
    <2>. QED  BY <1>4, <2>2, <2>3, <2>4 DEF OneLive, ScopeTaken
<1>5. ASSUME NEW i \in Rows, row' = [row EXCEPT ![i].status = "revoked", ![i].cred = None]
      PROVE  /\ row' \in [Rows -> Row] /\ OneLive'
             /\ \A j \in Rows : row[j].status = "revoked" => row'[j] = row[j]
    <2>1. row[i] = [status |-> row[i].status, cred |-> row[i].cred, may |-> row[i].may]
        BY RowParts
    <2>2. row' = [row EXCEPT ![i] = [status |-> "revoked", cred |-> None, may |-> row[i].may]]
        <3>1. [[row[i] EXCEPT !.status = "revoked"] EXCEPT !.cred = None]
                = [status |-> "revoked", cred |-> None, may |-> row[i].may]
            BY TwoFields
        <3>. QED  BY <1>5, <3>1
    <2>3. [status |-> "revoked", cred |-> None, may |-> row[i].may] \in Row
        BY RowParts, RowMade
    <2>4. row' \in [Rows -> Row]
        BY <2>2, <2>3
    <2>5. \A j \in Rows : j # i => row'[j] = row[j]
        BY <2>2
    <2>6. row[i].status = "revoked" => row'[i] = row[i]
        <3>1. row[i].status = "revoked" => row[i].cred = None
            BY RowParts DEF LiveStatuses
        <3>. QED  BY <2>1, <2>2, <3>1
    <2>7. row'[i].status = "revoked"
        BY <2>2
    <2>. QED  BY <2>4, <2>5, <2>6, <2>7 DEF OneLive
<1>. QED  BY <1>1, <1>2, <1>3, <1>4, <1>5 DEF RowStep

(* Every step does one of these to the rows.                               *)
LEMMA RowsMove ==
    ASSUME TypeOK, CallsFit, [Next]_vars
    PROVE  RowStep
<1> USE DEF At, WithRow, WithGrant, WithCopy, WithCred, Refreshing
<1>1. ASSUME NEW r \in Calls, Replace(r)
      PROVE  RowStep
    BY <1>1 DEF Replace, CallsFit, Fit, RowStep
<1>2. ASSUME NEW r \in Calls, UpdateReconnected(r)
      PROVE  RowStep
    <2>1. req[r].id \in Rows /\ req[r].copy \in Row /\ req[r].copy.status \in LiveStatuses
        BY <1>2 DEF UpdateReconnected, CallsFit, Fit, Call
    <2>2. CASE /\ Writable(req[r].id)
               /\ row' = Written(req[r].id, [req[r].copy EXCEPT !.status = "active"])
        <3> DEFINE copy == [req[r].copy EXCEPT !.status = "active"]
        <3>1. copy = [status |-> "active", cred |-> req[r].copy.cred, may |-> req[r].copy.may]
            BY <2>1, RowParts
        <3>2. copy \in Row /\ copy.status \in LiveStatuses
            BY <2>1, <3>1, RowParts, RowMade DEF LiveStatuses
        <3>. QED  BY <2>1, <2>2, <3>2 DEF RowStep
    <2>. QED  BY <1>2, <2>2 DEF UpdateReconnected, RowStep
<1>3. ASSUME NEW r \in Calls, Create(r)
      PROVE  RowStep
    BY <1>3 DEF Create, CallsFit, Fit, RowStep
<1>4. ASSUME NEW r \in Calls, WriteCapabilities(r)
      PROVE  RowStep
    <2>1. /\ req[r].id \in Rows /\ req[r].copy \in Row /\ req[r].copy.status \in LiveStatuses
          /\ req[r].want \in BOOLEAN
        BY <1>4 DEF WriteCapabilities, CallsFit, Fit, Call
    <2>2. CASE Writable(req[r].id)
        <3> DEFINE copy == [req[r].copy EXCEPT !.may = req[r].want]
        <3>1. copy = [status |-> req[r].copy.status, cred |-> req[r].copy.cred, may |-> req[r].want]
            BY <2>1, RowParts
        <3>2. copy \in Row /\ copy.status \in LiveStatuses
            BY <2>1, <3>1, RowParts, RowMade
        <3>3. row' = Written(req[r].id, copy)
            BY <1>4, <2>2 DEF WriteCapabilities
        <3>. QED  BY <2>1, <2>2, <3>2, <3>3 DEF RowStep
    <2>. QED  BY <1>4, <2>2 DEF WriteCapabilities, RowStep
<1>5. ASSUME NEW r \in Calls, RevokeRow(r)
      PROVE  RowStep
    BY <1>5 DEF RevokeRow, CallsFit, Fit, RowStep
<1>6. ASSUME NEW r \in Calls, StoreRenewed(r)
      PROVE  RowStep
    BY <1>6 DEF StoreRenewed, CallsFit, Fit, RowStep
<1>7. ASSUME NEW r \in Calls, MarkAttention(r)
      PROVE  RowStep
    <2>1. req[r].id \in Rows /\ req[r].copy \in Row /\ req[r].copy.status \in LiveStatuses
        BY <1>7 DEF MarkAttention, CallsFit, Fit, Call
    <2>2. CASE Writable(req[r].id)
        <3> DEFINE copy == [req[r].copy EXCEPT !.status = "needs_attention"]
        <3>1. copy = [status |-> "needs_attention", cred |-> req[r].copy.cred,
                      may |-> req[r].copy.may]
            BY <2>1, RowParts
        <3>2. copy \in Row /\ copy.status \in LiveStatuses
            BY <2>1, <3>1, RowParts, RowMade DEF LiveStatuses
        <3>3. row' = Written(req[r].id, copy)
            BY <1>7, <2>2 DEF MarkAttention
        <3>. QED  BY <2>1, <2>2, <3>2, <3>3 DEF RowStep
    <2>. QED  BY <1>7, <2>2 DEF MarkAttention, RowStep
<1>8. ASSUME NEW r \in Calls, Open(r) \/ Step(r)
      PROVE  RowStep
    BY <1>8, <1>1, <1>2, <1>3, <1>4, <1>5, <1>6, <1>7
       DEF Open, Step, Callback, SetCapabilities, Disconnect, Resolve, Exchange, FindExisting,
           ReadPrevious, EndPrevious, Drop, OpenForRevoke, RevokeAtProvider, ReadCredentials, Run,
           Refresh, AskProvider, FindCurrent, RowStep
<1>. QED  BY <1>8 DEF Next, StartAuthorization, OwnerEnds, Stop, vars, RowStep

-----------------------------------------------------------------------------
(* What a call holds.                                                      *)

(* Calls that begin.                                                       *)
LEMMA OpenFits ==
    ASSUME TypeOK, CallsFit, NEW r \in Calls, Open(r)
    PROVE  req' \in [Calls -> Call] /\ CallsFit'
<1> USE DEF WithRow, WithGrant, WithCopy, WithCred, Refreshing
<1>1. CASE Callback(r)
    <2>1. CASE UNCHANGED req
        BY <2>1 DEF TypeOK, CallsFit
    <2>2. ASSUME NEW g \in Grants, NEW p \in Processes,
                 Becomes(r, [[Idle EXCEPT !.pc = "exchange", !.grant = g]
                                EXCEPT !.op = "connect", !.proc = p])
          PROVE  req' \in [Calls -> Call] /\ CallsFit'
        <3>1. Fit([[Idle EXCEPT !.pc = "exchange", !.grant = g]
                      EXCEPT !.op = "connect", !.proc = p])
            BY IdleFits DEF Fit, Idle, Call, Pcs
        <3>. QED  BY <2>2, <3>1, BecomesFits
    <2>. QED  BY <1>1, <2>1, <2>2 DEF Callback, Opens
<1>2. CASE SetCapabilities(r)
    <2>1. PICK i \in Rows, p \in Processes, on \in BOOLEAN :
              /\ Live(i)
              /\ Becomes(r, [[Idle EXCEPT !.pc = "write", !.id = i, !.copy = row[i], !.want = on]
                                EXCEPT !.op = "allow", !.proc = p])
        BY <1>2 DEF SetCapabilities, Opens
    <2>2. Fit([[Idle EXCEPT !.pc = "write", !.id = i, !.copy = row[i], !.want = on]
                  EXCEPT !.op = "allow", !.proc = p])
        <3>1. row[i] \in Row /\ row[i].status \in LiveStatuses
            BY <2>1 DEF TypeOK, Live, LiveStatuses
        <3>. QED  BY <3>1 DEF Fit, Idle, Call, Pcs
    <2>. QED  BY <2>1, <2>2, BecomesFits
<1>3. CASE Disconnect(r)
    <2>1. PICK i \in Rows, p \in Processes :
              Becomes(r, [[Idle EXCEPT !.pc = "open", !.id = i]
                             EXCEPT !.op = "disconnect", !.proc = p])
        BY <1>3 DEF Disconnect, Opens
    <2>2. Fit([[Idle EXCEPT !.pc = "open", !.id = i] EXCEPT !.op = "disconnect", !.proc = p])
        BY IdleFits DEF Fit, Idle, Call, Pcs
    <2>. QED  BY <2>1, <2>2, BecomesFits
<1>4. CASE Resolve(r)
    <2>1. PICK i \in Rows, p \in Processes :
              Becomes(r, [[Idle EXCEPT !.pc = "credentials", !.id = i]
                             EXCEPT !.op = "use", !.proc = p])
        BY <1>4 DEF Resolve, Opens
    <2>2. Fit([[Idle EXCEPT !.pc = "credentials", !.id = i] EXCEPT !.op = "use", !.proc = p])
        BY IdleFits DEF Fit, Idle, Call, Pcs
    <2>. QED  BY <2>1, <2>2, BecomesFits
<1>. QED  BY <1>1, <1>2, <1>3, <1>4 DEF Open

(* A call that goes on to a statement needing no more than it has.         *)
LEMMA GotoFits ==
    ASSUME TypeOK, CallsFit, NEW r \in Calls, NEW p \in Pcs, Goto(r, p),
           p # "idle" => req[r].pc # "idle",
           p \in WithRow => req[r].pc \in WithRow,
           p \in WithGrant => req[r].pc \in WithGrant,
           p \in WithCopy => req[r].pc \in WithCopy,
           p \in WithCred => req[r].pc \in WithCred
    PROVE  req' \in [Calls -> Call] /\ CallsFit'
<1>1. Fit([req[r] EXCEPT !.pc = p])
    BY DEF CallsFit, Fit, Call
<1>. QED  BY <1>1, BecomesFits DEF Goto

(* A call that answers.                                                    *)
LEMMA AnswerFits ==
    ASSUME TypeOK, CallsFit, NEW r \in Calls, Answer(r)
    PROVE  req' \in [Calls -> Call] /\ CallsFit'
    BY IdleFits, BecomesFits DEF Answer

(* What becomes of each call when a refresh ends.                          *)
LEMMA SettlesEach ==
    ASSUME NEW r \in Calls, NEW on \in BOOLEAN, Settles(r, on)
    PROVE  /\ req' = [q \in Calls |-> req'[q]]
           /\ \A q \in Calls :
                /\ q \notin Joined(r) \cup {r} => req'[q] = req[q]
                /\ q \in Joined(r) \cup {r} /\ on =>
                      req'[q] = [req[q] EXCEPT !.cred = req[r].cred, !.renewed = TRUE, !.pc = "run"]
                /\ q \in Joined(r) \cup {r} /\ ~on => req'[q] = Idle
    BY DEF Settles

(* A refresh that ends, with those who joined it.                          *)
LEMMA SettlesFits ==
    ASSUME TypeOK, CallsFit, NEW r \in Calls, NEW on \in BOOLEAN, Settles(r, on),
           req[r].pc \in Refreshing
    PROVE  req' \in [Calls -> Call] /\ CallsFit'
<1> USE DEF WithRow, WithGrant, WithCopy, WithCred, Refreshing
<1>1. ASSUME NEW q \in Calls
      PROVE  Fit(req'[q])
    <2>1. CASE q \notin Joined(r) \cup {r}
        <3>1. req'[q] = req[q]
            BY <2>1, SettlesEach
        <3>. QED  BY <3>1 DEF CallsFit
    <2>2. CASE q \in Joined(r) \cup {r} /\ on
        <3>1. req'[q] = [req[q] EXCEPT !.cred = req[r].cred, !.renewed = TRUE, !.pc = "run"]
            BY <2>2, SettlesEach
        <3>2. req[q].pc = "wait" \/ req[q].pc \in Refreshing
            BY <2>2 DEF Joined, At
        <3>3. /\ req[r].cred \in Grants /\ req[q].id \in Rows /\ req[q].proc \in Processes
              /\ req[q] \in Call
            BY <3>2 DEF CallsFit, Fit
        <3>. QED  BY <3>1, <3>3 DEF Fit, Call, Pcs
    <2>3. CASE q \in Joined(r) \cup {r} /\ ~on
        <3>1. req'[q] = Idle
            BY <2>3, SettlesEach
        <3>. QED  BY <3>1, IdleFits
    <2>. QED  BY <2>1, <2>2, <2>3
<1>2. req' = [q \in Calls |-> req'[q]]
    BY SettlesEach
<1>. QED  BY <1>1, <1>2 DEF CallsFit, Fit

(* Every step leaves every call with what it needs.                        *)
LEMMA CallsKeep ==
    ASSUME TypeOK, CallsFit, [Next]_vars
    PROVE  req' \in [Calls -> Call] /\ CallsFit'
<1> USE DEF At, WithRow, WithGrant, WithCopy, WithCred, Refreshing, Pcs
<1>0. CASE UNCHANGED req
    BY <1>0 DEF TypeOK, CallsFit
<1>1. ASSUME NEW r \in Calls, Open(r)
      PROVE  req' \in [Calls -> Call] /\ CallsFit'
    BY <1>1, OpenFits
<1>2. ASSUME NEW r \in Calls, Exchange(r)
      PROVE  req' \in [Calls -> Call] /\ CallsFit'
    BY <1>2, AnswerFits, GotoFits DEF Exchange
<1>3. ASSUME NEW r \in Calls, FindExisting(r)
      PROVE  req' \in [Calls -> Call] /\ CallsFit'
    <2>1. ASSUME NEW i \in Rows, Live(i),
                 Becomes(r, [req[r] EXCEPT !.id = i, !.copy = row[i], !.pc = "previous"])
          PROVE  req' \in [Calls -> Call] /\ CallsFit'
        <3>1. row[i] \in Row /\ row[i].status \in LiveStatuses
            BY <2>1 DEF TypeOK, Live, LiveStatuses
        <3>2. Fit(req[r]) /\ req[r].pc = "find"
            BY <1>3 DEF FindExisting, CallsFit
        <3>3. Fit([req[r] EXCEPT !.id = i, !.copy = row[i], !.pc = "previous"])
            BY <3>1, <3>2 DEF Fit, Call
        <3>. QED  BY <2>1, <3>3, BecomesFits
    <2>2. CASE Goto(r, "create")
        BY <1>3, <2>2, GotoFits DEF FindExisting
    <2>. QED  BY <1>3, <2>1, <2>2 DEF FindExisting
<1>4. ASSUME NEW r \in Calls, ReadPrevious(r)
      PROVE  req' \in [Calls -> Call] /\ CallsFit'
    <2>1. Fit(req[r]) /\ req[r].pc = "previous" /\ req[r].id \in Rows
        BY <1>4 DEF ReadPrevious, CallsFit, Fit
    <2>2. row[req[r].id].cred \in Grants \cup {None}
        BY <2>1, RowParts DEF TypeOK
    <2>3. Fit([req[r] EXCEPT !.cred = row[req[r].id].cred, !.pc = "replace"])
        BY <2>1, <2>2 DEF Fit, Call
    <2>. QED  BY <1>4, <2>3, BecomesFits DEF ReadPrevious
<1>5. ASSUME NEW r \in Calls, Replace(r) \/ UpdateReconnected(r) \/ EndPrevious(r)
      PROVE  req' \in [Calls -> Call] /\ CallsFit'
    BY <1>5, AnswerFits, GotoFits DEF Replace, UpdateReconnected, EndPrevious, Recorded
<1>6. ASSUME NEW r \in Calls, Create(r) \/ Drop(r) \/ WriteCapabilities(r)
      PROVE  req' \in [Calls -> Call] /\ CallsFit'
    BY <1>6, AnswerFits, GotoFits DEF Create, Drop, WriteCapabilities, Recorded
<1>7. ASSUME NEW r \in Calls, OpenForRevoke(r)
      PROVE  req' \in [Calls -> Call] /\ CallsFit'
    <2> DEFINE g == row[req[r].id].cred
    <2>1. Fit(req[r]) /\ req[r].pc = "open" /\ req[r].id \in Rows
        BY <1>7 DEF OpenForRevoke, CallsFit, Fit
    <2>2. g \in Grants \cup {None}
        BY <2>1, RowParts DEF TypeOK
    <2>3. Becomes(r, [req[r] EXCEPT !.cred = g, !.pc = IF g = None THEN "revoke" ELSE "provider"])
        BY <1>7 DEF OpenForRevoke
    <2> HIDE DEF g
    <2>4. Fit([req[r] EXCEPT !.cred = g, !.pc = IF g = None THEN "revoke" ELSE "provider"])
        BY <2>1, <2>2 DEF Fit, Call
    <2>. QED  BY <2>3, <2>4, BecomesFits
<1>8. ASSUME NEW r \in Calls, RevokeAtProvider(r) \/ RevokeRow(r)
      PROVE  req' \in [Calls -> Call] /\ CallsFit'
    BY <1>8, AnswerFits, GotoFits DEF RevokeAtProvider, RevokeRow
<1>9. ASSUME NEW r \in Calls, ReadCredentials(r)
      PROVE  req' \in [Calls -> Call] /\ CallsFit'
    <2> DEFINE g == row[req[r].id].cred
    <2>1. Fit(req[r]) /\ req[r].pc = "credentials" /\ req[r].id \in Rows
        BY <1>9 DEF ReadCredentials, CallsFit, Fit
    <2>2. g \in Grants \cup {None}
        BY <2>1, RowParts DEF TypeOK
    <2>3. \/ Answer(r)
          \/ /\ g # None
             /\ \E p \in {"run", "refresh"} : Becomes(r, [req[r] EXCEPT !.cred = g, !.pc = p])
        BY <1>9 DEF ReadCredentials
    <2> HIDE DEF g
    <2>4. ASSUME NEW p \in {"run", "refresh"}, g # None
          PROVE  Fit([req[r] EXCEPT !.cred = g, !.pc = p])
        BY <2>1, <2>2, <2>4 DEF Fit, Call
    <2>. QED  BY <2>3, <2>4, BecomesFits, AnswerFits
<1>10. ASSUME NEW r \in Calls, Run(r) \/ Refresh(r)
      PROVE  req' \in [Calls -> Call] /\ CallsFit'
    BY <1>10, AnswerFits, GotoFits DEF Run, Refresh
<1>11. ASSUME NEW r \in Calls, AskProvider(r) \/ StoreRenewed(r)
      PROVE  req' \in [Calls -> Call] /\ CallsFit'
    BY <1>11, SettlesFits, GotoFits DEF AskProvider, StoreRenewed
<1>12. ASSUME NEW r \in Calls, FindCurrent(r)
      PROVE  req' \in [Calls -> Call] /\ CallsFit'
    <2>1. /\ Fit(req[r]) /\ req[r].pc \in {"find current", "look"} /\ req[r].id \in Rows
          /\ row[req[r].id] \in Row
        BY <1>12 DEF FindCurrent, CallsFit, Fit, TypeOK
    <2>2. CASE row[req[r].id].status = "active"
        <3>1. PICK p \in {"mark", "mark current"} :
                  Becomes(r, [req[r] EXCEPT !.copy = row[req[r].id], !.pc = p])
            BY <1>12, <2>2 DEF FindCurrent
        <3>2. Fit([req[r] EXCEPT !.copy = row[req[r].id], !.pc = p])
            BY <2>1, <2>2 DEF Fit, Call, LiveStatuses
        <3>. QED  BY <3>1, <3>2, BecomesFits
    <2>3. CASE row[req[r].id].status # "active"
        BY <1>12, <2>1, <2>3, AnswerFits, SettlesFits DEF FindCurrent
    <2>. QED  BY <2>2, <2>3
<1>13. ASSUME NEW r \in Calls, MarkAttention(r)
      PROVE  req' \in [Calls -> Call] /\ CallsFit'
    BY <1>13, AnswerFits, SettlesFits DEF MarkAttention
<1>14. ASSUME NEW p \in Processes, Stop(p)
      PROVE  req' \in [Calls -> Call] /\ CallsFit'
    <2>1. \A r \in Calls : Fit(req'[r])
        BY <1>14, IdleFits DEF Stop, CallsFit
    <2>2. req' \in [Calls -> Call]
        BY <1>14, <2>1 DEF Stop, Fit
    <2>. QED  BY <2>1, <2>2 DEF CallsFit
<1>. QED
    BY <1>0, <1>1, <1>2, <1>3, <1>4, <1>5, <1>6, <1>7, <1>8, <1>9, <1>10, <1>11, <1>12, <1>13, <1>14
       DEF Next, Step, StartAuthorization, OwnerEnds, vars

-----------------------------------------------------------------------------
(* What a step may do to a grant, and to who holds it.                     *)

(* How far a grant may come in one step.                                   *)
Onward(g) ==
    \/ token'[g] = token[g]
    \/ token[g] = "new" /\ token'[g] = "asked"
    \/ token[g] = "live" /\ token'[g] = "dead"

(* No call gets a grant, and only its exchange makes one live.             *)
GrantStep ==
    /\ \A r \in Calls : req'[r].grant \in {None, req[r].grant}
    /\ \A r \in Calls : req'[r].pc = "exchange" => req'[r] = req[r]
    /\ \A g \in Grants :
          \/ Onward(g)
          \/ /\ token'[g] = "live"
             /\ \E r \in Calls : At(r, "exchange") /\ req[r].grant = g /\ req'[r].pc # "exchange"

(* A state is used up, and one call at most gets what it will be granted.  *)
CallbackStep ==
    \E r \in Calls, g \in Grants :
        /\ token[g] = "asked" /\ token' = [token EXCEPT ![g] = "used"]
        /\ \A q \in Calls \ {r} : req'[q] = req[q]
        /\ req'[r] = req[r] \/ req'[r].grant = g

(* Either is enough for the grants.                                        *)
LEMMA GrantsKeep ==
    ASSUME TypeOK, CallsFit, GrantsApart, GrantStep \/ CallbackStep
    PROVE  GrantsApart'
<1>0. \A r \in Calls : req[r].grant \in Grants \cup {None}
    BY DEF TypeOK, Call
<1>1. CASE GrantStep
    <2>1. ASSUME NEW r \in Calls, req'[r].grant # None
          PROVE  req'[r].grant = req[r].grant /\ token'[req'[r].grant] \notin {"new", "asked"}
        BY <1>0, <1>1, <2>1 DEF GrantStep, GrantsApart, Onward
    <2>2. \A r, q \in Calls : req'[r].grant # None /\ req'[r].grant = req'[q].grant => r = q
        BY <2>1 DEF GrantsApart
    <2>3. ASSUME NEW r \in Calls, req'[r].pc = "exchange"
          PROVE  token'[req'[r].grant] = "used"
        <3>1. req'[r] = req[r] /\ At(r, "exchange") /\ token[req[r].grant] = "used"
            BY <1>1, <2>3 DEF GrantStep, GrantsApart, At
        <3>2. req[r].grant \in Grants
            BY <3>1 DEF CallsFit, Fit, At, WithGrant
        <3>3. req[r].grant # None
            BY <3>2
        <3>4. CASE Onward(req[r].grant)
            BY <3>1, <3>4 DEF Onward
        <3>5. CASE ~Onward(req[r].grant)
            <4>1. PICK q \in Calls : req[q].grant = req[r].grant /\ req'[q].pc # "exchange"
                BY <1>1, <3>2, <3>5 DEF GrantStep
            <4>2. q = r
                BY <3>3, <4>1 DEF GrantsApart
            <4>. QED  BY <2>3, <4>1, <4>2
        <3>. QED  BY <3>4, <3>5
    <2>. QED  BY <2>1, <2>2, <2>3 DEF GrantsApart, At
<1>2. CASE CallbackStep
    <2>1. PICK r \in Calls, g \in Grants :
              /\ token[g] = "asked" /\ token' = [token EXCEPT ![g] = "used"]
              /\ \A q \in Calls \ {r} : req'[q] = req[q]
              /\ req'[r] = req[r] \/ req'[r].grant = g
        BY <1>2 DEF CallbackStep
    <2>2. \A q \in Calls : req[q].grant # g
        BY <2>1 DEF GrantsApart
    <2>3. token'[g] = "used" /\ \A h \in Grants : h # g => token'[h] = token[h]
        BY <2>1 DEF TypeOK
    <2>4. ASSUME NEW q \in Calls, req'[q].grant # None
          PROVE  token'[req'[q].grant] \notin {"new", "asked"}
        BY <1>0, <2>1, <2>2, <2>3, <2>4 DEF GrantsApart
    <2>5. ASSUME NEW q \in Calls, NEW s \in Calls, req'[q].grant # None,
                 req'[q].grant = req'[s].grant
          PROVE  q = s
        BY <2>1, <2>2, <2>5 DEF GrantsApart
    <2>6. ASSUME NEW q \in Calls, req'[q].pc = "exchange"
          PROVE  token'[req'[q].grant] = "used"
        <3>1. CASE req'[q] = req[q]
            <4>1. req[q].grant \in Grants /\ token[req[q].grant] = "used"
                BY <2>6, <3>1 DEF CallsFit, Fit, WithGrant, GrantsApart, At
            <4>. QED  BY <2>2, <2>3, <3>1, <4>1
        <3>2. CASE req'[q] # req[q]
            BY <2>1, <2>3, <3>2
        <3>. QED  BY <3>1, <3>2
    <2>. QED  BY <2>4, <2>5, <2>6 DEF GrantsApart, At
<1>. QED  BY <1>1, <1>2

(* A call goes on or answers: the others are as they were.                 *)
LEMMA OneCallMoves ==
    ASSUME TypeOK, NEW r \in Calls, NEW c, Becomes(r, c)
    PROVE  req'[r] = c /\ \A q \in Calls \ {r} : req'[q] = req[q]
    BY DEF TypeOK, Becomes

(* A call goes on without a new grant.                                     *)
LEMMA GotoKeepsGrant ==
    ASSUME TypeOK, NEW r \in Calls, NEW p, Goto(r, p), p # "exchange"
    PROVE  /\ \A q \in Calls : req'[q].grant \in {None, req[q].grant}
           /\ \A q \in Calls : req'[q].pc = "exchange" => req'[q] = req[q]
           /\ req'[r].pc # "exchange"
<1>1. req'[r] = [req[r] EXCEPT !.pc = p] /\ \A q \in Calls \ {r} : req'[q] = req[q]
    BY OneCallMoves DEF Goto
<1>2. req'[r].grant = req[r].grant /\ req'[r].pc = p
    BY <1>1 DEF TypeOK, Call
<1>. QED  BY <1>1, <1>2

(* A call that answers holds nothing any more.                             *)
LEMMA AnswerKeepsGrant ==
    ASSUME TypeOK, NEW r \in Calls, Answer(r)
    PROVE  /\ \A q \in Calls : req'[q].grant \in {None, req[q].grant}
           /\ \A q \in Calls : req'[q].pc = "exchange" => req'[q] = req[q]
           /\ req'[r].pc # "exchange"
<1>1. req'[r] = Idle /\ \A q \in Calls \ {r} : req'[q] = req[q]
    BY OneCallMoves DEF Answer
<1>. QED  BY <1>1 DEF Idle

(* The end of a refresh gives nobody a grant.                              *)
LEMMA SettlesKeepsGrant ==
    ASSUME TypeOK, NEW r \in Calls, NEW on \in BOOLEAN, Settles(r, on)
    PROVE  /\ \A q \in Calls : req'[q].grant \in {None, req[q].grant}
           /\ \A q \in Calls : req'[q].pc = "exchange" => req'[q] = req[q]
<1>1. ASSUME NEW q \in Calls
      PROVE  /\ req'[q].grant \in {None, req[q].grant}
             /\ req'[q].pc = "exchange" => req'[q] = req[q]
    <2>1. CASE q \notin Joined(r) \cup {r}
        BY <2>1, SettlesEach
    <2>2. CASE q \in Joined(r) \cup {r} /\ on
        <3>1. req'[q] = [req[q] EXCEPT !.cred = req[r].cred, !.renewed = TRUE, !.pc = "run"]
            BY <2>2, SettlesEach
        <3>2. req[q] \in Call
            BY DEF TypeOK
        <3>. QED  BY <3>1, <3>2 DEF Call
    <2>3. CASE q \in Joined(r) \cup {r} /\ ~on
        <3>1. req'[q] = Idle
            BY <2>3, SettlesEach
        <3>. QED  BY <3>1 DEF Idle
    <2>. QED  BY <2>1, <2>2, <2>3
<1>. QED  BY <1>1

(* A call that begins, other than by a callback, holds no grant.           *)
LEMMA Begins ==
    ASSUME NEW r \in Calls, SetCapabilities(r) \/ Disconnect(r) \/ Resolve(r)
    PROVE  /\ At(r, "idle")
           /\ \E c : /\ Becomes(r, c) /\ c.grant = None
                     /\ c.pc \in {"write", "open", "credentials"}
                     /\ c.pc = "open" => c.op = "disconnect"
<1>1. CASE SetCapabilities(r)
    <2>1. PICK i \in Rows, p \in Processes, on \in BOOLEAN :
              Opens(r, "allow", p, [Idle EXCEPT !.pc = "write", !.id = i, !.copy = row[i], !.want = on])
        BY <1>1 DEF SetCapabilities
    <2> DEFINE c == [[Idle EXCEPT !.pc = "write", !.id = i, !.copy = row[i], !.want = on]
                        EXCEPT !.op = "allow", !.proc = p]
    <2>2. At(r, "idle") /\ Becomes(r, c)
        BY <2>1 DEF Opens
    <2>3. c.grant = None /\ c.pc = "write"
        BY DEF Idle
    <2> HIDE DEF c
    <2>. QED  BY <2>2, <2>3
<1>2. CASE Disconnect(r)
    <2>1. PICK i \in Rows, p \in Processes :
              Opens(r, "disconnect", p, [Idle EXCEPT !.pc = "open", !.id = i])
        BY <1>2 DEF Disconnect
    <2> DEFINE c == [[Idle EXCEPT !.pc = "open", !.id = i] EXCEPT !.op = "disconnect", !.proc = p]
    <2>2. At(r, "idle") /\ Becomes(r, c)
        BY <2>1 DEF Opens
    <2>3. c.grant = None /\ c.pc = "open" /\ c.op = "disconnect"
        BY DEF Idle
    <2> HIDE DEF c
    <2>. QED  BY <2>2, <2>3
<1>3. CASE Resolve(r)
    <2>1. PICK i \in Rows, p \in Processes :
              Opens(r, "use", p, [Idle EXCEPT !.pc = "credentials", !.id = i])
        BY <1>3 DEF Resolve
    <2> DEFINE c == [[Idle EXCEPT !.pc = "credentials", !.id = i] EXCEPT !.op = "use", !.proc = p]
    <2>2. At(r, "idle") /\ Becomes(r, c)
        BY <2>1 DEF Opens
    <2>3. c.grant = None /\ c.pc = "credentials"
        BY DEF Idle
    <2> HIDE DEF c
    <2>. QED  BY <2>2, <2>3
<1>. QED  BY <1>1, <1>2, <1>3

(* Every step does one of these to the grants.                             *)
LEMMA GrantsMove ==
    ASSUME TypeOK, CallsFit, GrantsApart, [Next]_vars
    PROVE  /\ GrantStep \/ CallbackStep
           /\ token' \in [Grants -> {"new", "asked", "used", "live", "dead"}]
<1> DEFINE Types == token' \in [Grants -> {"new", "asked", "used", "live", "dead"}]
<1> DEFINE Same3 == /\ \A q \in Calls : req'[q].grant \in {None, req[q].grant}
                    /\ \A q \in Calls : req'[q].pc = "exchange" => req'[q] = req[q]
<1>1. ASSUME Same3, UNCHANGED token
      PROVE  GrantStep /\ Types
    BY <1>1 DEF GrantStep, Onward, TypeOK
<1>2. ASSUME Same3, NEW gs, Revoke(gs)
      PROVE  GrantStep /\ Types
    BY <1>2 DEF GrantStep, Onward, TypeOK, Revoke
<1>3. CASE UNCHANGED <<req, token>>
    <2>1. Same3
        BY <1>3
    <2>. QED  BY <1>1, <1>3, <2>1
<1>4. CASE StartAuthorization \/ OwnerEnds
    <2>1. \A q \in Calls : req'[q] = req[q]
        BY <1>4 DEF StartAuthorization, OwnerEnds
    <2>2. PICK g \in Grants :
              \/ token[g] = "new" /\ token' = [token EXCEPT ![g] = "asked"]
              \/ token[g] = "live" /\ token' = [token EXCEPT ![g] = "dead"]
        BY <1>4 DEF StartAuthorization, OwnerEnds
    <2>3. Types /\ \A h \in Grants : Onward(h)
        BY <2>2 DEF TypeOK, Onward
    <2>. QED  BY <2>1, <2>3 DEF GrantStep
<1>5. ASSUME NEW r \in Calls, Callback(r)
      PROVE  CallbackStep /\ Types
    <2>1. PICK g \in Grants, p \in Processes :
              /\ Consumable(g)
              /\ \/ Opens(r, "connect", p, [Idle EXCEPT !.pc = "exchange", !.grant = g])
                 \/ UNCHANGED <<req, Bounds>>
              /\ token' = [token EXCEPT ![g] = IF @ = "asked" THEN "used" ELSE @]
        BY <1>5 DEF Callback
    <2>2. token[g] = "asked" /\ token' = [token EXCEPT ![g] = "used"] /\ Types
        BY <2>1 DEF Consumable, TypeOK
    <2>3. CASE Opens(r, "connect", p, [Idle EXCEPT !.pc = "exchange", !.grant = g])
        <3>1. /\ req'[r].grant = g
              /\ \A q \in Calls \ {r} : req'[q] = req[q]
            <4> DEFINE c == [[Idle EXCEPT !.pc = "exchange", !.grant = g]
                                EXCEPT !.op = "connect", !.proc = p]
            <4>1. Becomes(r, c)
                BY <2>3 DEF Opens
            <4>2. c.grant = g
                BY DEF Idle
            <4> HIDE DEF c
            <4>. QED  BY <4>1, <4>2, OneCallMoves
        <3>. QED  BY <2>2, <2>3, <3>1 DEF CallbackStep, Opens
    <2>4. CASE UNCHANGED req
        BY <2>2, <2>4 DEF CallbackStep
    <2>. QED  BY <2>1, <2>2, <2>3, <2>4
<1>6. ASSUME NEW r \in Calls, SetCapabilities(r) \/ Disconnect(r) \/ Resolve(r)
      PROVE  GrantStep /\ Types
    <2>1. PICK c : Becomes(r, c) /\ c.grant = None /\ c.pc # "exchange"
        BY <1>6, Begins
    <2>2. Same3
        BY <2>1, OneCallMoves
    <2>3. UNCHANGED token
        BY <1>6 DEF SetCapabilities, Disconnect, Resolve
    <2>. QED  BY <1>1, <2>2, <2>3
<1>7. ASSUME NEW r \in Calls, Exchange(r)
      PROVE  GrantStep /\ Types
    <2>1. CASE Answer(r) /\ UNCHANGED token
        BY <1>1, <2>1, AnswerKeepsGrant
    <2>2. CASE /\ token' = [token EXCEPT ![req[r].grant] = "live"]
               /\ Goto(r, "find") \/ Goto(r, "drop")
        <3>1. At(r, "exchange") /\ Same3 /\ req'[r].pc # "exchange"
            BY <1>7, <2>2, GotoKeepsGrant DEF Exchange
        <3>2. Types /\ \A g \in Grants : g # req[r].grant => Onward(g)
            BY <2>2 DEF TypeOK, Onward
        <3>3. req[r].grant \in Grants => token'[req[r].grant] = "live"
            BY <2>2 DEF TypeOK
        <3>. QED  BY <3>1, <3>2, <3>3 DEF GrantStep
    <2>. QED  BY <1>7, <2>1, <2>2 DEF Exchange
<1>8. ASSUME NEW r \in Calls, FindExisting(r)
      PROVE  GrantStep /\ Types
    <2>1. ASSUME NEW i \in Rows,
                 Becomes(r, [req[r] EXCEPT !.id = i, !.copy = row[i], !.pc = "previous"])
          PROVE  Same3
        <3> DEFINE c == [req[r] EXCEPT !.id = i, !.copy = row[i], !.pc = "previous"]
        <3>1. c.grant = req[r].grant /\ c.pc = "previous"
            BY DEF TypeOK, Call
        <3> HIDE DEF c
        <3>2. req'[r] = c /\ \A q \in Calls \ {r} : req'[q] = req[q]
            BY <2>1, OneCallMoves DEF c
        <3>. QED  BY <3>1, <3>2
    <2>2. Same3
        BY <1>8, <2>1, GotoKeepsGrant DEF FindExisting
    <2>. QED  BY <1>1, <1>8, <2>2 DEF FindExisting
<1>9. ASSUME NEW r \in Calls, ReadPrevious(r) \/ OpenForRevoke(r) \/ ReadCredentials(r)
      PROVE  GrantStep /\ Types
    <2>1. \/ Answer(r)
          \/ \E g, p : p # "exchange" /\ Becomes(r, [req[r] EXCEPT !.cred = g, !.pc = p])
        <3>1. CASE ReadPrevious(r)
            BY <3>1 DEF ReadPrevious
        <3>2. CASE OpenForRevoke(r)
            BY <3>2 DEF OpenForRevoke
        <3>3. CASE ReadCredentials(r)
            BY <3>3 DEF ReadCredentials
        <3>. QED  BY <1>9, <3>1, <3>2, <3>3
    <2>2. ASSUME NEW g, NEW p, p # "exchange", Becomes(r, [req[r] EXCEPT !.cred = g, !.pc = p])
          PROVE  Same3
        <3> DEFINE c == [req[r] EXCEPT !.cred = g, !.pc = p]
        <3>1. c.grant = req[r].grant /\ c.pc = p
            BY DEF TypeOK, Call
        <3> HIDE DEF c
        <3>2. req'[r] = c /\ \A q \in Calls \ {r} : req'[q] = req[q]
            BY <2>2, OneCallMoves DEF c
        <3>. QED  BY <2>2, <3>1, <3>2
    <2>3. Same3
        BY <2>1, <2>2, AnswerKeepsGrant
    <2>. QED  BY <1>1, <1>9, <2>3 DEF ReadPrevious, OpenForRevoke, ReadCredentials
<1>10. ASSUME NEW r \in Calls,
              \/ Replace(r) \/ UpdateReconnected(r) \/ Create(r) \/ WriteCapabilities(r)
              \/ RevokeRow(r) \/ Run(r) \/ Refresh(r)
       PROVE  GrantStep /\ Types
    <2>1. Same3
        BY <1>10, GotoKeepsGrant, AnswerKeepsGrant
           DEF Replace, UpdateReconnected, Create, WriteCapabilities, RevokeRow, Run, Refresh,
               Recorded
    <2>. QED
        BY <1>1, <1>10, <2>1
           DEF Replace, UpdateReconnected, Create, WriteCapabilities, RevokeRow, Run, Refresh
<1>11. ASSUME NEW r \in Calls, EndPrevious(r) \/ Drop(r) \/ RevokeAtProvider(r)
       PROVE  GrantStep /\ Types
    <2>1. Same3
        BY <1>11, GotoKeepsGrant, AnswerKeepsGrant
           DEF EndPrevious, Drop, RevokeAtProvider, Recorded
    <2>. QED  BY <1>2, <1>11, <2>1 DEF EndPrevious, Drop, RevokeAtProvider
<1>12. ASSUME NEW r \in Calls, AskProvider(r) \/ StoreRenewed(r) \/ MarkAttention(r)
       PROVE  GrantStep /\ Types
    <2>1. Same3
        BY <1>12, GotoKeepsGrant, AnswerKeepsGrant, SettlesKeepsGrant
           DEF AskProvider, StoreRenewed, MarkAttention
    <2>. QED  BY <1>1, <1>12, <2>1 DEF AskProvider, StoreRenewed, MarkAttention
<1>13. ASSUME NEW r \in Calls, FindCurrent(r)
       PROVE  GrantStep /\ Types
    <2>1. ASSUME NEW p \in {"mark", "mark current"},
                 Becomes(r, [req[r] EXCEPT !.copy = row[req[r].id], !.pc = p])
          PROVE  Same3
        <3> DEFINE c == [req[r] EXCEPT !.copy = row[req[r].id], !.pc = p]
        <3>1. c.grant = req[r].grant /\ c.pc = p
            BY DEF TypeOK, Call
        <3> HIDE DEF c
        <3>2. req'[r] = c /\ \A q \in Calls \ {r} : req'[q] = req[q]
            BY <2>1, OneCallMoves DEF c
        <3>. QED  BY <3>1, <3>2
    <2>2. Same3
        BY <1>13, <2>1, AnswerKeepsGrant, SettlesKeepsGrant DEF FindCurrent
    <2>. QED  BY <1>1, <1>13, <2>2 DEF FindCurrent
<1>14. ASSUME NEW p \in Processes, Stop(p)
       PROVE  GrantStep /\ Types
    <2>1. Same3
        BY <1>14 DEF Stop, Idle
    <2>. QED  BY <1>1, <1>14, <2>1 DEF Stop
<1>. QED
    BY <1>3, <1>4, <1>5, <1>6, <1>7, <1>8, <1>9, <1>10, <1>11, <1>12, <1>13, <1>14
       DEF Next, Open, Step, vars

-----------------------------------------------------------------------------
(* What a step may do to the refreshes of a process.                       *)

Away(c) == c.pc \notin Refreshing \cup {"wait"}

(* The call goes on with its refresh, or with its wait, for the same row.  *)
Steady(q) ==
    /\ req'[q].proc = req[q].proc /\ req'[q].id = req[q].id
    /\ req'[q].pc \in Refreshing <=> Runs(q)
    /\ req'[q].pc = "wait" <=> Waits(q)

RefreshStep ==
    \/ \A q \in Calls : Steady(q) \/ (Away(req[q]) /\ Away(req'[q]))
    \/ \E r \in Calls :
          /\ Away(req[r]) /\ \A q \in Calls \ {r} : req'[q] = req[q]
          /\ req'[r].proc = req[r].proc /\ req'[r].id = req[r].id
          /\ \/ req'[r].pc = "ask" /\ \A q \in Calls : ~(Runs(q) /\ Same(q, r))
             \/ req'[r].pc = "wait" /\ \E q \in Calls : Runs(q) /\ Same(q, r)
    \/ \E r \in Calls :
          /\ Runs(r)
          /\ \A q \in Calls : IF q \in Joined(r) \cup {r} THEN Away(req'[q]) ELSE req'[q] = req[q]
    \/ \E p \in Processes :
          \A q \in Calls : IF req[q].proc = p THEN Away(req'[q]) ELSE req'[q] = req[q]

(* Any of these is enough for the refreshes.                               *)
LEMMA SharedKeeps ==
    ASSUME Shared, RefreshStep
    PROVE  Shared'
<1> USE DEF Runs, Waits, Same, At, Away, Refreshing
<1>1. CASE \A q \in Calls : Steady(q) \/ (Away(req[q]) /\ Away(req'[q]))
    <2>1. ASSUME NEW q \in Calls, ~Away(req'[q])
          PROVE  Steady(q)
        BY <1>1, <2>1
    <2>2. ASSUME NEW q \in Calls, NEW s \in Calls, Runs(q)', Runs(s)', Same(q, s)'
          PROVE  q = s
        <3>1. Steady(q) /\ Steady(s)
            BY <2>1, <2>2
        <3>2. Runs(q) /\ Runs(s) /\ Same(q, s)
            BY <2>2, <3>1 DEF Steady
        <3>. QED  BY <3>2 DEF Shared
    <2>3. ASSUME NEW q \in Calls, Waits(q)'
          PROVE  \E s \in Calls : Runs(s)' /\ Same(q, s)'
        <3>1. Steady(q)
            BY <2>1, <2>3
        <3>2. PICK s \in Calls : Runs(s) /\ Same(q, s)
            BY <2>3, <3>1 DEF Shared, Steady
        <3>3. Steady(s)
            BY <1>1, <3>2
        <3>. QED  BY <3>1, <3>2, <3>3 DEF Steady
    <2>. QED  BY <2>2, <2>3 DEF Shared
<1>2. ASSUME NEW r \in Calls, Away(req[r]), \A q \in Calls \ {r} : req'[q] = req[q],
             req'[r].proc = req[r].proc, req'[r].id = req[r].id,
             \/ req'[r].pc = "ask" /\ \A q \in Calls : ~(Runs(q) /\ Same(q, r))
             \/ req'[r].pc = "wait" /\ \E q \in Calls : Runs(q) /\ Same(q, r)
      PROVE  Shared'
    <2>1. ASSUME NEW q \in Calls, NEW s \in Calls, Runs(q)', Runs(s)', Same(q, s)'
          PROVE  q = s
        <3>1. CASE q # r /\ s # r
            <4>1. Runs(q) /\ Runs(s) /\ Same(q, s)
                BY <1>2, <2>1, <3>1
            <4>. QED  BY <4>1 DEF Shared
        <3>2. CASE q = r /\ s # r
            BY <1>2, <2>1, <3>2
        <3>3. CASE q # r /\ s = r
            BY <1>2, <2>1, <3>3
        <3>. QED  BY <3>1, <3>2, <3>3
    <2>2. ASSUME NEW q \in Calls, Waits(q)'
          PROVE  \E s \in Calls : Runs(s)' /\ Same(q, s)'
        <3>1. PICK s \in Calls : Runs(s) /\ Same(q, s)
            <4>1. CASE q = r
                BY <1>2, <2>2, <4>1
            <4>2. CASE q # r
                <5>1. Waits(q)
                    BY <1>2, <2>2, <4>2
                <5>. QED  BY <5>1 DEF Shared
            <4>. QED  BY <4>1, <4>2
        <3>2. req'[s] = req[s] /\ req'[q].proc = req[q].proc /\ req'[q].id = req[q].id
            BY <1>2, <3>1
        <3>. QED  BY <3>1, <3>2
    <2>. QED  BY <2>1, <2>2 DEF Shared
<1>3. ASSUME NEW r \in Calls, Runs(r),
             \A q \in Calls : IF q \in Joined(r) \cup {r} THEN Away(req'[q]) ELSE req'[q] = req[q]
      PROVE  Shared'
    <2>1. ASSUME NEW q \in Calls, ~Away(req'[q])
          PROVE  req'[q] = req[q] /\ q \notin Joined(r) \cup {r}
        BY <1>3, <2>1
    <2>2. ASSUME NEW q \in Calls, NEW s \in Calls, Runs(q)', Runs(s)', Same(q, s)'
          PROVE  q = s
        <3>1. req'[q] = req[q] /\ req'[s] = req[s]
            BY <2>1, <2>2
        <3>2. Runs(q) /\ Runs(s) /\ Same(q, s)
            BY <2>2, <3>1
        <3>. QED  BY <3>2 DEF Shared
    <2>3. ASSUME NEW q \in Calls, Waits(q)'
          PROVE  \E s \in Calls : Runs(s)' /\ Same(q, s)'
        <3>1. req'[q] = req[q] /\ q \notin Joined(r)
            BY <2>1, <2>3
        <3>2. PICK s \in Calls : Runs(s) /\ Same(q, s)
            <4>1. Waits(q)
                BY <2>3, <3>1
            <4>. QED  BY <4>1 DEF Shared
        <3>3. s # r
            BY <2>3, <3>1, <3>2 DEF Joined
        <3>4. s \notin Joined(r)
            BY <3>2 DEF Joined
        <3>5. req'[s] = req[s]
            BY <1>3, <3>3, <3>4
        <3>. QED  BY <3>1, <3>2, <3>5
    <2>. QED  BY <2>2, <2>3 DEF Shared
<1>4. ASSUME NEW p \in Processes,
             \A q \in Calls : IF req[q].proc = p THEN Away(req'[q]) ELSE req'[q] = req[q]
      PROVE  Shared'
    <2>1. ASSUME NEW q \in Calls, ~Away(req'[q])
          PROVE  req'[q] = req[q] /\ req[q].proc # p
        BY <1>4, <2>1
    <2>2. ASSUME NEW q \in Calls, NEW s \in Calls, Runs(q)', Runs(s)', Same(q, s)'
          PROVE  q = s
        <3>1. req'[q] = req[q] /\ req'[s] = req[s]
            BY <2>1, <2>2
        <3>2. Runs(q) /\ Runs(s) /\ Same(q, s)
            BY <2>2, <3>1
        <3>. QED  BY <3>2 DEF Shared
    <2>3. ASSUME NEW q \in Calls, Waits(q)'
          PROVE  \E s \in Calls : Runs(s)' /\ Same(q, s)'
        <3>1. req'[q] = req[q] /\ req[q].proc # p
            BY <2>1, <2>3
        <3>2. PICK s \in Calls : Runs(s) /\ Same(q, s)
            <4>1. Waits(q)
                BY <2>3, <3>1
            <4>. QED  BY <4>1 DEF Shared
        <3>3. req'[s] = req[s]
            BY <1>4, <3>1, <3>2
        <3>. QED  BY <3>1, <3>2, <3>3
    <2>. QED  BY <2>2, <2>3 DEF Shared
<1>. QED  BY <1>1, <1>2, <1>3, <1>4 DEF RefreshStep

(* A call goes on: in its refresh, or outside of any.                      *)
LEMMA GotoIsQuiet ==
    ASSUME TypeOK, NEW r \in Calls, NEW c, Becomes(r, c),
           \/ Away(req[r]) /\ Away(c)
           \/ /\ Runs(r) /\ c.pc \in Refreshing
              /\ c.proc = req[r].proc /\ c.id = req[r].id
    PROVE  RefreshStep
<1>1. req'[r] = c /\ \A q \in Calls \ {r} : req'[q] = req[q]
    BY OneCallMoves
<1>2. \A q \in Calls : Steady(q) \/ (Away(req[q]) /\ Away(req'[q]))
    BY <1>1 DEF Steady, Runs, Waits, At, Refreshing
<1>. QED  BY <1>2 DEF RefreshStep

(* A refresh that ends takes those who joined it along.                    *)
LEMMA SettlesIsAnEnd ==
    ASSUME TypeOK, NEW r \in Calls, NEW on \in BOOLEAN, Settles(r, on), Runs(r)
    PROVE  RefreshStep
<1>1. ASSUME NEW q \in Calls, q \in Joined(r) \cup {r}
      PROVE  Away(req'[q])
    <2>1. CASE on
        <3>1. req'[q] = [req[q] EXCEPT !.cred = req[r].cred, !.renewed = TRUE, !.pc = "run"]
            BY <1>1, <2>1, SettlesEach
        <3>2. req'[q].pc = "run"
            BY <3>1 DEF TypeOK, Call
        <3>. QED  BY <3>2 DEF Away, Refreshing
    <2>2. CASE ~on
        <3>1. req'[q] = Idle
            BY <1>1, <2>2, SettlesEach
        <3>. QED  BY <3>1 DEF Away, Idle, Refreshing
    <2>. QED  BY <2>1, <2>2
<1>2. \A q \in Calls : IF q \in Joined(r) \cup {r} THEN Away(req'[q]) ELSE req'[q] = req[q]
    BY <1>1, SettlesEach
<1>. QED  BY <1>2 DEF RefreshStep

(* Every step does one of these to the refreshes.                          *)
LEMMA RefreshesMove ==
    ASSUME TypeOK, [Next]_vars
    PROVE  RefreshStep
<1> USE DEF At, Runs, Away, Refreshing
<1>0. CASE UNCHANGED req
    BY <1>0 DEF RefreshStep, Steady, Waits
<1>1. ASSUME NEW r \in Calls, NEW p, Goto(r, p), Away(req[r]), p \notin Refreshing \cup {"wait"}
      PROVE  RefreshStep
    <2> DEFINE c == [req[r] EXCEPT !.pc = p]
    <2>1. c.pc = p
        BY DEF TypeOK, Call
    <2> HIDE DEF c
    <2>2. Becomes(r, c)
        BY <1>1 DEF Goto, c
    <2>. QED  BY <1>1, <2>1, <2>2, GotoIsQuiet
<1>2. ASSUME NEW r \in Calls, Answer(r), Away(req[r])
      PROVE  RefreshStep
    <2>1. Away(Idle)
        BY DEF Idle
    <2>. QED  BY <1>2, <2>1, GotoIsQuiet DEF Answer
<1>3. ASSUME NEW r \in Calls, Callback(r)
      PROVE  RefreshStep
    <2>1. ASSUME NEW g \in Grants, NEW p \in Processes,
                 Opens(r, "connect", p, [Idle EXCEPT !.pc = "exchange", !.grant = g])
          PROVE  RefreshStep
        <3> DEFINE c == [[Idle EXCEPT !.pc = "exchange", !.grant = g]
                            EXCEPT !.op = "connect", !.proc = p]
        <3>1. At(r, "idle") /\ Becomes(r, c)
            BY <2>1 DEF Opens
        <3>2. c.pc = "exchange"
            BY DEF Idle
        <3> HIDE DEF c
        <3>. QED  BY <3>1, <3>2, GotoIsQuiet
    <2>. QED  BY <1>0, <1>3, <2>1 DEF Callback
<1>4. ASSUME NEW r \in Calls, SetCapabilities(r) \/ Disconnect(r) \/ Resolve(r)
      PROVE  RefreshStep
    <2>1. PICK c : Becomes(r, c) /\ c.pc \in {"write", "open", "credentials"}
        BY <1>4, Begins
    <2>2. Away(req[r])
        BY <1>4, Begins
    <2>. QED  BY <2>1, <2>2, GotoIsQuiet
<1>5. ASSUME NEW r \in Calls, FindExisting(r)
      PROVE  RefreshStep
    <2>1. ASSUME NEW i \in Rows,
                 Becomes(r, [req[r] EXCEPT !.id = i, !.copy = row[i], !.pc = "previous"])
          PROVE  RefreshStep
        <3> DEFINE c == [req[r] EXCEPT !.id = i, !.copy = row[i], !.pc = "previous"]
        <3>1. c.pc = "previous"
            BY DEF TypeOK, Call
        <3> HIDE DEF c
        <3>2. Becomes(r, c)
            BY <2>1 DEF c
        <3>3. Away(req[r])
            BY <1>5 DEF FindExisting
        <3>. QED  BY <3>1, <3>2, <3>3, GotoIsQuiet
    <2>. QED  BY <1>1, <1>5, <2>1 DEF FindExisting
<1>6. ASSUME NEW r \in Calls, ReadPrevious(r) \/ OpenForRevoke(r) \/ ReadCredentials(r)
      PROVE  RefreshStep
    <2>1. /\ Away(req[r])
          /\ \/ Answer(r)
             \/ \E g, p : /\ p \in {"replace", "revoke", "provider", "run", "refresh"}
                          /\ Becomes(r, [req[r] EXCEPT !.cred = g, !.pc = p])
        <3>1. CASE ReadPrevious(r)
            BY <3>1 DEF ReadPrevious
        <3>2. CASE OpenForRevoke(r)
            BY <3>2 DEF OpenForRevoke
        <3>3. CASE ReadCredentials(r)
            BY <3>3 DEF ReadCredentials
        <3>. QED  BY <1>6, <3>1, <3>2, <3>3
    <2>2. ASSUME NEW g, NEW p, p \in {"replace", "revoke", "provider", "run", "refresh"},
                 Becomes(r, [req[r] EXCEPT !.cred = g, !.pc = p])
          PROVE  RefreshStep
        <3> DEFINE c == [req[r] EXCEPT !.cred = g, !.pc = p]
        <3>1. c.pc = p
            BY DEF TypeOK, Call
        <3> HIDE DEF c
        <3>2. Becomes(r, c)
            BY <2>2 DEF c
        <3>. QED  BY <2>1, <2>2, <3>1, <3>2, GotoIsQuiet
    <2>. QED  BY <1>2, <2>1, <2>2
<1>7. ASSUME NEW r \in Calls,
             \/ Exchange(r) \/ Replace(r) \/ UpdateReconnected(r) \/ EndPrevious(r) \/ Create(r)
             \/ Drop(r) \/ WriteCapabilities(r) \/ RevokeAtProvider(r) \/ RevokeRow(r) \/ Run(r)
      PROVE  RefreshStep
    <2>1. Away(req[r])
        BY <1>7 DEF Exchange, Replace, UpdateReconnected, EndPrevious, Create, Drop,
                    WriteCapabilities, RevokeAtProvider, RevokeRow, Run
    <2>2. \/ Answer(r)
          \/ \E p \in {"find", "drop", "update", "end", "revoke", "refresh", "look"} : Goto(r, p)
        BY <1>7 DEF Exchange, Replace, UpdateReconnected, EndPrevious, Create, Drop,
                    WriteCapabilities, RevokeAtProvider, RevokeRow, Run, Recorded
    <2>. QED  BY <1>1, <1>2, <2>1, <2>2
<1>8. ASSUME NEW r \in Calls, Refresh(r)
      PROVE  RefreshStep
    <2> DEFINE p == IF InFlight(req[r].proc, req[r].id) = {} THEN "ask" ELSE "wait"
    <2>1. /\ Away(req[r]) /\ \A q \in Calls \ {r} : req'[q] = req[q]
          /\ req'[r] = [req[r] EXCEPT !.pc = p]
        BY <1>8, OneCallMoves DEF Refresh, Goto
    <2>2. req'[r].pc = p /\ req'[r].proc = req[r].proc /\ req'[r].id = req[r].id
        <3> DEFINE c == [req[r] EXCEPT !.pc = p]
        <3>1. c.pc = p /\ c.proc = req[r].proc /\ c.id = req[r].id
            BY DEF TypeOK, Call
        <3> HIDE DEF c
        <3>2. req'[r] = c
            BY <2>1 DEF c
        <3>. QED  BY <3>1, <3>2
    <2>3. CASE InFlight(req[r].proc, req[r].id) = {}
        <3>1. \A q \in Calls : ~(Runs(q) /\ Same(q, r))
            BY <2>3 DEF InFlight, Same
        <3>. QED  BY <2>1, <2>2, <2>3, <3>1 DEF RefreshStep
    <2>4. CASE InFlight(req[r].proc, req[r].id) # {}
        <3>1. \E q \in Calls : Runs(q) /\ Same(q, r)
            BY <2>4 DEF InFlight, Same
        <3>. QED  BY <2>1, <2>2, <2>4, <3>1 DEF RefreshStep
    <2>. QED  BY <2>3, <2>4
<1>9. ASSUME NEW r \in Calls, AskProvider(r) \/ StoreRenewed(r)
      PROVE  RefreshStep
    <2>1. ASSUME NEW p \in {"store", "find current"}, Goto(r, p), Runs(r)
          PROVE  RefreshStep
        <3> DEFINE c == [req[r] EXCEPT !.pc = p]
        <3>1. c.pc = p /\ c.proc = req[r].proc /\ c.id = req[r].id
            BY DEF TypeOK, Call
        <3> HIDE DEF c
        <3>2. Becomes(r, c)
            BY <2>1 DEF Goto, c
        <3>. QED  BY <2>1, <3>1, <3>2, GotoIsQuiet
    <2>. QED  BY <1>9, <2>1, SettlesIsAnEnd DEF AskProvider, StoreRenewed
<1>10. ASSUME NEW r \in Calls, FindCurrent(r)
       PROVE  RefreshStep
    <2> DEFINE p == IF req[r].pc = "look" THEN "mark" ELSE "mark current"
    <2> DEFINE c == [req[r] EXCEPT !.copy = row[req[r].id], !.pc = p]
    <2>1. c.pc = p /\ c.proc = req[r].proc /\ c.id = req[r].id
        BY DEF TypeOK, Call
    <2>2. CASE Becomes(r, c)
        <3> HIDE DEF c
        <3>. QED  BY <1>10, <2>1, <2>2, GotoIsQuiet DEF FindCurrent
    <2>3. CASE req[r].pc = "look" /\ Answer(r)
        BY <1>2, <2>3
    <2>4. CASE req[r].pc # "look" /\ Settles(r, FALSE)
        BY <1>10, <2>4, SettlesIsAnEnd DEF FindCurrent
    <2>. QED  BY <1>10, <2>2, <2>3, <2>4 DEF FindCurrent
<1>11. ASSUME NEW r \in Calls, MarkAttention(r)
       PROVE  RefreshStep
    BY <1>2, <1>11, SettlesIsAnEnd DEF MarkAttention
<1>12. ASSUME NEW p \in Processes, Stop(p)
       PROVE  RefreshStep
    <2>1. Away(Idle)
        BY DEF Idle
    <2>2. \A q \in Calls : IF req[q].proc = p THEN Away(req'[q]) ELSE req'[q] = req[q]
        BY <1>12, <2>1 DEF Stop
    <2>. QED  BY <2>2 DEF RefreshStep
<1>. QED
    BY <1>0, <1>3, <1>4, <1>5, <1>6, <1>7, <1>8, <1>9, <1>10, <1>11, <1>12
       DEF Next, Open, Step, StartAuthorization, OwnerEnds, vars

-----------------------------------------------------------------------------
(* The inductive invariant, and what follows from it.                      *)

(* It holds at the start and every step keeps it.                          *)
THEOREM Invariant == Spec => []IInv
<1>1. Init => IInv
    <2>. SUFFICES ASSUME Init
                  PROVE  IInv
        OBVIOUS
    <2>1. \A r \in Calls : req[r] = Idle
        BY DEF Init
    <2>2. TypeOK
        BY IdleFits DEF Init, TypeOK, Fit, Row
    <2>3. CallsFit
        BY <2>1, IdleFits DEF CallsFit
    <2>4. OneLive
        BY DEF Init, OneLive, Live, NoRow
    <2>5. GrantsApart
        BY <2>1 DEF GrantsApart, At, Idle
    <2>6. Shared
        <3>1. Idle.pc = "idle"
            BY DEF Idle
        <3>2. \A r \in Calls : ~Runs(r) /\ ~Waits(r)
            BY <2>1, <3>1 DEF Runs, Waits, At, Refreshing
        <3>. QED  BY <3>2 DEF Shared
    <2>. QED  BY <2>2, <2>3, <2>4, <2>5, <2>6 DEF IInv
<1>2. IInv /\ [Next]_vars => IInv'
    <2>. SUFFICES ASSUME IInv, [Next]_vars
                  PROVE  IInv'
        OBVIOUS
    <2> USE DEF IInv
    <2>1. req' \in [Calls -> Call] /\ CallsFit'
        BY CallsKeep
    <2>2. row' \in [Rows -> Row] /\ OneLive'
        BY RowsMove, RowsKeep DEF TypeOK
    <2>3. GrantsApart' /\ token' \in [Grants -> {"new", "asked", "used", "live", "dead"}]
        BY GrantsMove, GrantsKeep
    <2>4. Shared'
        BY RefreshesMove, SharedKeeps
    <2>5. provider' \in Providers /\ calls' \in Nat /\ stops' \in Nat
        <3> USE DEF TypeOK, Bounds
        <3>1. ASSUME NEW r \in Calls, Open(r)
              PROVE  provider' \in Providers /\ calls' \in Nat /\ stops' \in Nat
            <4>1. provider' = provider /\ (Bounds' = Bounds \/ \E op, p, c : Opens(r, op, p, c))
                <5>1. CASE Callback(r)
                    BY <5>1, Zenon DEF Callback
                <5>2. CASE SetCapabilities(r)
                    BY <5>2, Zenon DEF SetCapabilities
                <5>3. CASE Disconnect(r)
                    BY <5>3, Zenon DEF Disconnect
                <5>4. CASE Resolve(r)
                    BY <5>4, Zenon DEF Resolve
                <5>. QED  BY <3>1, <5>1, <5>2, <5>3, <5>4 DEF Open
            <4>2. \/ calls' = calls /\ stops' = stops
                  \/ calls' = calls + 1 /\ stops' = stops
                BY <4>1 DEF Opens
            <4>. QED  BY <4>1, <4>2
        <3>2. ASSUME NEW r \in Calls, Step(r)
              PROVE  provider' = provider /\ calls' = calls /\ stops' = stops
            BY <3>2
               DEF Step, Exchange, FindExisting, ReadPrevious, Replace, UpdateReconnected,
                   EndPrevious, Create, Drop, WriteCapabilities, OpenForRevoke, RevokeAtProvider,
                   RevokeRow, ReadCredentials, Run, Refresh, AskProvider, StoreRenewed,
                   FindCurrent, MarkAttention
        <3>3. ASSUME NEW p \in Processes, Stop(p)
              PROVE  provider' = provider /\ calls' = calls /\ stops' = stops + 1
            BY <3>3 DEF Stop
        <3>4. CASE StartAuthorization \/ OwnerEnds \/ UNCHANGED vars
            BY <3>4 DEF StartAuthorization, OwnerEnds, vars
        <3>. QED  BY <3>1, <3>2, <3>3, <3>4 DEF Next
    <2>6. TypeOK'
        BY <2>1, <2>2, <2>3, <2>5 DEF TypeOK
    <2>. QED  BY <2>1, <2>2, <2>3, <2>4, <2>6
<1>. QED  BY <1>1, <1>2, PTL DEF Spec

(* One connection, one exchange of a state, one refresh at a time in a     *)
(* process, over rows that have their types.                               *)
THEOREM OneOfEachAlways == Spec => []OneOfEach
<1>1. IInv => OneOfEach
    <2>. SUFFICES ASSUME IInv
                  PROVE  OneOfEach
        OBVIOUS
    <2>1. TypeOK /\ OneLive
        BY DEF IInv
    <2>2. StatesOnce
        <3>. SUFFICES ASSUME NEW r \in Calls, NEW q \in Calls, At(r, "exchange")
                      PROVE  /\ token[req[r].grant] = "used"
                             /\ req[q].grant = req[r].grant => q = r
            BY DEF StatesOnce
        <3>1. req[r].grant \in Grants
            BY DEF IInv, CallsFit, Fit, At, WithGrant
        <3>. QED  BY <3>1 DEF IInv, GrantsApart
    <2>3. RefreshesAreShared
        <3>. SUFFICES ASSUME NEW p \in Processes, NEW i \in Rows
                      PROVE  LET refreshing == {q \in Calls : /\ req[q].proc = p /\ req[q].id = i
                                                              /\ req[q].pc \in Refreshing}
                                 waiting    == {q \in Calls : /\ req[q].proc = p /\ req[q].id = i
                                                              /\ At(q, "wait")}
                             IN Cardinality(refreshing) <= 1 /\ (waiting # {} => refreshing # {})
            BY DEF RefreshesAreShared
        <3> DEFINE refreshing == {q \in Calls : /\ req[q].proc = p /\ req[q].id = i
                                                /\ req[q].pc \in Refreshing}
                   waiting    == {q \in Calls : /\ req[q].proc = p /\ req[q].id = i
                                                /\ At(q, "wait")}
        <3>1. \A q, s \in refreshing : q = s
            BY DEF IInv, Shared, Runs, Same
        <3>2. waiting # {} => refreshing # {}
            BY DEF IInv, Shared, Runs, Waits, Same
        <3>3. Cardinality(refreshing) <= 1
            <4> HIDE DEF refreshing
            <4>1. CASE refreshing = {}
                BY <4>1, FS_EmptySet
            <4>2. ASSUME NEW q \in refreshing
                  PROVE  Cardinality(refreshing) <= 1
                <5>1. refreshing = {q}
                    BY <3>1
                <5>2. Cardinality({q}) = 1
                    BY FS_Singleton, Zenon
                <5>. QED  BY <5>1, <5>2
            <4>. QED  BY <4>1, <4>2
        <3>. QED  BY <3>2, <3>3
    <2>. QED  BY <2>1, <2>2, <2>3 DEF OneOfEach
<1>. QED  BY <1>1, Invariant, PTL

(* A disconnected connection stays so: whoever still holds a copy of it    *)
(* writes to a row without credentials, which the table refuses.           *)
THEOREM RevokedStays == Spec => RevokedForGood
<1>1. IInv /\ [Next]_vars => [\A i \in Rows : row[i].status = "revoked" => row'[i] = row[i]]_vars
    BY RowsMove, RowsKeep DEF IInv, TypeOK
<1>. QED  BY <1>1, Invariant, PTL DEF Spec, RevokedForGood

-----------------------------------------------------------------------------
(* Grants that are not ended while a connection holds them (GitHub, where  *)
(* no use renews them).  A grant a call is about to store is in no row; a  *)
(* grant a reconnection read is in its own row only, and in none once it   *)
(* is replaced, and nobody stores it again.                                *)

Storing == {"exchange", "find", "previous", "replace", "create"}

Held(g)             == \E i \in Rows : row[i].cred = g
HeldElsewhere(g, i) == \E j \in Rows \ {i} : row[j].cred = g
Known(g)            == token[g] \notin {"new", "asked"}

ToStore(g) == \E q \in Calls : req[q].pc \in Storing /\ req[q].grant = g

(* What a call read before is not somebody's to store again.               *)
ReadBefore(c) == c.cred # None => Known(c.cred) /\ ~ToStore(c.cred)

CallKeeps(c) ==
    /\ c.pc \in Storing => ~Held(c.grant)
    /\ c.pc = "replace" => ReadBefore(c) /\ (c.cred # None => ~HeldElsewhere(c.cred, c.id))
    /\ c.pc = "update" => ~HeldElsewhere(c.grant, c.id)
    /\ c.pc \in {"update", "end"} => ReadBefore(c) /\ (c.cred # None => ~Held(c.cred))
    /\ c.pc = "provider" => c.op = "disconnect"
    /\ c.pc = "open" => c.op = "disconnect"
    /\ c.pc \notin {"refresh", "wait"} \cup Refreshing

RowsKept ==
    /\ \A i \in Rows : row[i].cred # None => Known(row[i].cred)
    /\ \A i, j \in Rows : row[i].cred # None /\ row[i].cred = row[j].cred => i = j

GrantsKept == provider = "github" => RowsKept /\ \A r \in Calls : CallKeeps(req[r])

(* The credentials of the rows stay or go, or one call stores its grant.   *)
CredsStay == \A i \in Rows : row'[i].cred \in {row[i].cred, None}

Stores(r, i) ==
    /\ req[r].pc \in {"replace", "create"}
    /\ row'[i].cred = req[r].grant
    /\ \A j \in Rows \ {i} : row'[j].cred = row[j].cred
    /\ \A q \in Calls \ {r} : req'[q] = req[q]
    /\ \/ req'[r].pc \in {"idle", "drop"}
       \/ req[r].pc = "replace" /\ req'[r].pc = "update" /\ req[r].id = i

(* What a call turns into in a step.                                       *)
Loose(c) ==
    /\ c.pc \notin Storing \cup {"update", "end", "refresh", "wait"} \cup Refreshing
    /\ c.pc \in {"provider", "open"} => c.op = "disconnect"

Keeps(q) ==
    req'[q].grant = req[q].grant /\ req'[q].id = req[q].id /\ req'[q].cred = req[q].cred

Turns(q) ==
    \/ req'[q] = req[q]
    \/ Loose(req'[q])
    \/ /\ req'[q].pc = "exchange"
       /\ req'[q].grant \in Grants /\ ~Known(req'[q].grant)
       /\ row' = row
    \/ /\ req[q].pc \in Storing /\ req'[q].pc \in {"find", "previous", "create"}
       /\ req'[q].grant = req[q].grant /\ row' = row
    \/ /\ req[q].pc = "previous" /\ row' = row
       /\ req'[q].pc = "replace" /\ req'[q].cred = row[req[q].id].cred
       /\ req'[q].grant = req[q].grant /\ req'[q].id = req[q].id
    \/ /\ req[q].pc = "replace" /\ req'[q].pc = "update" /\ Keeps(q)
       /\ row' = Stored(req[q].id, req[q].grant)
    \/ /\ req[q].pc = "update" /\ req'[q].pc = "end" /\ Keeps(q)
       /\ \A i \in Rows : row'[i].cred = row[i].cred

KeptStep ==
    /\ CredsStay \/ \E r \in Calls, i \in Rows : Stores(r, i)
    /\ \A g \in Grants : Known(g) => Known(g)'
    /\ \A q \in Calls : Turns(q)

(* What a row that was stored into holds.                                  *)
LEMMA StoredCreds ==
    ASSUME TypeOK, NEW i \in Rows, NEW g \in Grants, row' = Stored(i, g)
    PROVE  /\ \A j \in Rows \ {i} : row'[j].cred = row[j].cred
           /\ Live(i) => row'[i].cred = g
           /\ ~Live(i) => row'[i].cred = None /\ row[i].cred = None
<1>1. row[i] \in Row
    BY DEF TypeOK
<1>2. CASE Live(i)
    <2>1. row[i] = [status |-> row[i].status, cred |-> row[i].cred, may |-> row[i].may]
        BY <1>1, RowParts
    <2>2. [row[i] EXCEPT !.cred = g].cred = g
        BY <2>1
    <2>. QED  BY <1>2, <2>2 DEF TypeOK, Stored
<1>3. CASE ~Live(i)
    <2>1. row[i].cred = None
        BY <1>1, <1>3, RowParts DEF Live, LiveStatuses
    <2>. QED  BY <1>3, <2>1 DEF Stored
<1>. QED  BY <1>2, <1>3

(* What a step makes of who holds a grant and who is to store it.          *)
LEMMA HeldMoves ==
    ASSUME TypeOK, CallsFit, KeptStep, NEW g \in Grants
    PROVE  /\ Held(g)' => Held(g) \/ \E r \in Calls, i \in Rows : Stores(r, i) /\ g = req[r].grant
           /\ \A i \in Rows : HeldElsewhere(g, i)' =>
                 \/ HeldElsewhere(g, i)
                 \/ \E r \in Calls, j \in Rows \ {i} : Stores(r, j) /\ g = req[r].grant
           /\ ToStore(g)' => ToStore(g) \/ ~Known(g)
<1>1. g # None
    OBVIOUS
<1>2. /\ Held(g)' => Held(g) \/ \E r \in Calls, i \in Rows : Stores(r, i) /\ g = req[r].grant
      /\ \A i \in Rows : HeldElsewhere(g, i)' =>
            \/ HeldElsewhere(g, i)
            \/ \E r \in Calls, j \in Rows \ {i} : Stores(r, j) /\ g = req[r].grant
    <2>1. CASE CredsStay
        BY <1>1, <2>1 DEF CredsStay, Held, HeldElsewhere
    <2>2. ASSUME NEW r \in Calls, NEW j \in Rows, Stores(r, j)
          PROVE  /\ Held(g)' => Held(g) \/ \E s \in Calls, i \in Rows : Stores(s, i) /\ g = req[s].grant
                 /\ \A i \in Rows : HeldElsewhere(g, i)' =>
                       \/ HeldElsewhere(g, i)
                       \/ \E s \in Calls, k \in Rows \ {i} : Stores(s, k) /\ g = req[s].grant
        <3>1. /\ row'[j].cred = req[r].grant
              /\ \A k \in Rows \ {j} : row'[k].cred = row[k].cred
            BY <2>2 DEF Stores
        <3>2. CASE g = req[r].grant
            <4>1. ASSUME NEW i \in Rows, HeldElsewhere(g, i)', ~HeldElsewhere(g, i)
                  PROVE  j \in Rows \ {i}
                BY <3>1, <4>1 DEF HeldElsewhere
            <4>. QED  BY <2>2, <3>2, <4>1
        <3>3. CASE g # req[r].grant
            BY <3>1, <3>3 DEF Held, HeldElsewhere
        <3>. QED  BY <3>2, <3>3
    <2>. QED  BY <2>1, <2>2 DEF KeptStep
<1>3. ASSUME NEW q \in Calls, req'[q].pc \in Storing, req'[q].grant = g
      PROVE  ToStore(g) \/ ~Known(g)
    <2>1. Turns(q)
        BY DEF KeptStep
    <2>2. \/ req'[q] = req[q]
          \/ ~Known(g)
          \/ req[q].pc \in Storing /\ req'[q].grant = req[q].grant
        BY <1>3, <2>1 DEF Turns, Loose, Storing, Keeps
    <2>. QED  BY <1>3, <2>2 DEF ToStore
<1>. QED  BY <1>2, <1>3 DEF ToStore

(* Whatever such a step does, what is held is kept apart from what calls   *)
(* will end.                                                               *)
LEMMA KeptKeeps ==
    ASSUME TypeOK, CallsFit, GrantsApart, KeptStep,
           RowsKept, \A r \in Calls : CallKeeps(req[r])
    PROVE  RowsKept' /\ \A r \in Calls : CallKeeps(req[r])'
<1>0. /\ \A i \in Rows : row[i].cred \in Grants \cup {None}
      /\ \A r \in Calls : req[r].cred \in Grants \cup {None} /\ req[r].grant \in Grants \cup {None}
      /\ None \notin Grants
    BY RowParts DEF TypeOK, Call
<1>1. ASSUME NEW r \in Calls, req[r].pc \in WithGrant
      PROVE  req[r].grant \in Grants /\ Known(req[r].grant)
    BY <1>0, <1>1 DEF CallsFit, Fit, GrantsApart, Known
<1>2. ASSUME NEW r \in Calls, NEW i \in Rows, Stores(r, i)
      PROVE  /\ req[r].grant \in Grants /\ Known(req[r].grant)
             /\ ~Held(req[r].grant) /\ ToStore(req[r].grant)
    <2>1. req[r].pc \in WithGrant /\ req[r].pc \in Storing
        BY <1>2 DEF Stores, WithGrant, Storing
    <2>. QED  BY <1>1, <2>1 DEF CallKeeps, ToStore
<1>3. RowsKept'
    <2>1. CASE CredsStay
        BY <1>0, <2>1 DEF CredsStay, RowsKept, KeptStep
    <2>2. ASSUME NEW r \in Calls, NEW i \in Rows, Stores(r, i)
          PROVE  RowsKept'
        <3>1. /\ row'[i].cred = req[r].grant
              /\ \A j \in Rows \ {i} : row'[j].cred = row[j].cred
            BY <2>2 DEF Stores
        <3>2. req[r].grant \in Grants /\ Known(req[r].grant) /\ ~Held(req[r].grant)
            BY <2>2, <1>2
        <3>3. \A j \in Rows : row[j].cred # req[r].grant
            BY <3>2 DEF Held
        <3>4. \A g \in Grants : Known(g) => Known(g)'
            BY DEF KeptStep
        <3>5. ASSUME NEW j \in Rows, row'[j].cred # None
              PROVE  Known(row[j].cred)'
            BY <1>0, <3>1, <3>2, <3>4, <3>5 DEF RowsKept, Known
        <3>6. ASSUME NEW j \in Rows, NEW k \in Rows, row'[j].cred # None,
                     row'[j].cred = row'[k].cred
              PROVE  j = k
            BY <3>1, <3>3, <3>6 DEF RowsKept
        <3>. QED  BY <3>5, <3>6 DEF RowsKept
    <2>. QED  BY <2>1, <2>2 DEF KeptStep
<1>4. ASSUME NEW q \in Calls
      PROVE  CallKeeps(req[q])'
    <2> DEFINE c == req[q]
    <2>0. CallKeeps(c) /\ Turns(q) /\ c \in Call
        BY DEF KeptStep, TypeOK
    <2>1. ASSUME NEW g \in Grants, Known(g), ~ToStore(g)
          PROVE  Known(g)' /\ ~ToStore(g)'
        BY <2>1, HeldMoves DEF KeptStep
    <2>2. ASSUME NEW g \in Grants, ~ToStore(g)
          PROVE  /\ ~Held(g) => ~Held(g)'
                 /\ \A i \in Rows : ~HeldElsewhere(g, i) => ~HeldElsewhere(g, i)'
        BY <2>2, <1>2, HeldMoves
    <2>3. ReadBefore(c) /\ req'[q].cred = c.cred => ReadBefore(req[q])'
        BY <1>0, <2>1 DEF ReadBefore
    <2>4. CASE req'[q] = c
        <3>1. ASSUME c.pc \in WithGrant, NEW r \in Calls, NEW i \in Rows, Stores(r, i),
                     req[r].grant = c.grant
              PROVE  FALSE
            <4>1. r = q
                BY <1>0, <1>2, <3>1 DEF GrantsApart
            <4>. QED  BY <3>1, <4>1, <2>4 DEF Stores
        <3>2. ASSUME c.pc \in Storing
              PROVE  ~Held(req[q].grant)'
            <4>1. c.pc \in WithGrant /\ ~Held(c.grant)
                BY <2>0, <3>2 DEF Storing, WithGrant, CallKeeps
            <4>2. ~Held(c.grant)'
                BY <2>4, <1>1, <3>1, <4>1, HeldMoves
            <4>. QED  BY <2>4, <4>2 DEF Held
        <3>3. ASSUME c.pc = "update"
              PROVE  ~HeldElsewhere(req[q].grant, req[q].id)'
            <4>1. c.pc \in WithGrant /\ c.id \in Rows /\ ~HeldElsewhere(c.grant, c.id)
                BY <2>0, <3>3 DEF WithGrant, WithRow, CallsFit, Fit, CallKeeps
            <4>2. ~HeldElsewhere(c.grant, c.id)'
                BY <2>4, <1>1, <3>1, <4>1, HeldMoves
            <4>. QED  BY <2>4, <4>2 DEF HeldElsewhere
        <3>4. ASSUME c.pc = "replace"
              PROVE  /\ ReadBefore(req[q])'
                     /\ req'[q].cred # None => ~HeldElsewhere(req[q].cred, req[q].id)'
            <4>1. ReadBefore(c) /\ c.id \in Rows
                  /\ (c.cred # None => ~HeldElsewhere(c.cred, c.id))
                BY <2>0, <3>4 DEF WithRow, CallsFit, Fit, CallKeeps
            <4>2. c.cred # None => ~HeldElsewhere(c.cred, c.id)'
                BY <2>2, <2>4, <1>0, <4>1 DEF ReadBefore
            <4>. QED  BY <2>3, <2>4, <4>1, <4>2 DEF HeldElsewhere
        <3>5. ASSUME c.pc \in {"update", "end"}
              PROVE  ReadBefore(req[q])' /\ (req'[q].cred # None => ~Held(req[q].cred)')
            <4>1. ReadBefore(c) /\ (c.cred # None => ~Held(c.cred))
                BY <2>0, <3>5 DEF CallKeeps
            <4>2. c.cred # None => ~Held(c.cred)'
                BY <2>2, <2>4, <1>0, <4>1 DEF ReadBefore
            <4>. QED  BY <2>3, <2>4, <4>1, <4>2 DEF Held
        <3>. QED  BY <2>0, <2>4, <3>2, <3>3, <3>4, <3>5 DEF CallKeeps
    <2>5. CASE Loose(req'[q])
        BY <2>5 DEF Loose, CallKeeps, Storing, Refreshing
    <2>6. CASE /\ req'[q].pc = "exchange"
               /\ req'[q].grant \in Grants /\ ~Known(req'[q].grant) /\ row' = row
        <3>1. ~Held(req[q].grant)'
            BY <2>6, <1>0 DEF Held, RowsKept
        <3>. QED  BY <2>6, <3>1 DEF CallKeeps, Storing, Refreshing
    <2>7. CASE /\ c.pc \in Storing /\ req'[q].pc \in {"find", "previous", "create"}
               /\ req'[q].grant = c.grant /\ row' = row
        <3>1. ~Held(req[q].grant)'
            BY <2>0, <2>7 DEF Held, CallKeeps
        <3>. QED  BY <2>7, <3>1 DEF CallKeeps, Storing, Refreshing
    <2>8. CASE /\ c.pc = "previous" /\ row' = row
               /\ req'[q].pc = "replace" /\ req'[q].cred = row[c.id].cred
               /\ req'[q].grant = c.grant /\ req'[q].id = c.id
        <3>1. c.id \in Rows
            BY <2>8 DEF WithRow, CallsFit, Fit
        <3>2. ~Held(req[q].grant)'
            BY <2>0, <2>8 DEF Held, CallKeeps, Storing
        <3>3. ASSUME req'[q].cred # None
              PROVE  /\ Known(req[q].cred)' /\ ~ToStore(req[q].cred)'
                     /\ ~HeldElsewhere(req[q].cred, req[q].id)'
            <4> DEFINE g == row[c.id].cred
            <4>1. g \in Grants /\ Known(g) /\ Held(g)
                BY <2>8, <3>1, <3>3, <1>0 DEF RowsKept, Held
            <4>2. ~ToStore(g)
                BY <4>1 DEF ToStore, CallKeeps
            <4>3. Known(g)' /\ ~ToStore(g)'
                BY <2>1, <2>8, <4>1, <4>2, HeldMoves DEF KeptStep, Known
            <4>4. ~HeldElsewhere(g, c.id)
                BY <3>1, <4>1, <1>0 DEF RowsKept, HeldElsewhere
            <4>. QED  BY <2>8, <4>3, <4>4 DEF Known, ToStore, HeldElsewhere
        <3>. QED  BY <2>8, <3>2, <3>3 DEF CallKeeps, ReadBefore, Storing, Refreshing
    <2>9. CASE /\ c.pc = "replace" /\ req'[q].pc = "update" /\ Keeps(q)
               /\ row' = Stored(c.id, c.grant)
        <3>1. c.id \in Rows /\ c.grant \in Grants
            BY <2>9 DEF WithRow, WithGrant, CallsFit, Fit
        <3>2. /\ ~Held(c.grant) /\ ReadBefore(c)
              /\ (c.cred # None => ~HeldElsewhere(c.cred, c.id)) /\ ToStore(c.grant)
            BY <2>0, <2>9 DEF CallKeeps, Storing, ToStore
        <3>3. /\ \A j \in Rows \ {c.id} : row'[j].cred = row[j].cred
              /\ row'[c.id].cred \in {c.grant, None}
            BY <2>9, <3>1, StoredCreds
        <3>4. ~HeldElsewhere(req[q].grant, req[q].id)'
            BY <2>9, <3>2, <3>3 DEF Held, HeldElsewhere, Keeps
        <3>5. c.cred # None => c.cred # c.grant
            BY <3>2 DEF ReadBefore
        <3>6. req'[q].cred # None => ~Held(req[q].cred)'
            BY <2>9, <3>2, <3>3, <3>5 DEF Held, HeldElsewhere, Keeps
        <3>7. ReadBefore(req[q])'
            BY <2>3, <2>9, <3>2 DEF Keeps
        <3>. QED  BY <2>9, <3>4, <3>6, <3>7 DEF CallKeeps, Storing, Refreshing
    <2>10. CASE /\ c.pc = "update" /\ req'[q].pc = "end" /\ Keeps(q)
                /\ \A i \in Rows : row'[i].cred = row[i].cred
        <3>1. ReadBefore(req[q])'
            BY <2>0, <2>3, <2>10 DEF CallKeeps, Keeps
        <3>2. req'[q].cred # None => ~Held(req[q].cred)'
            BY <2>0, <2>10 DEF CallKeeps, Keeps, Held
        <3>. QED  BY <2>10, <3>1, <3>2 DEF CallKeeps, Storing, Refreshing
    <2>. QED
        BY <2>0, <2>4, <2>5, <2>6, <2>7, <2>8, <2>9, <2>10 DEF Turns
<1>. QED  BY <1>3, <1>4

(* A grant that was used stays used.                                       *)
LEMMA KnownStays ==
    ASSUME TypeOK, CallsFit, GrantsApart, [Next]_vars
    PROVE  \A g \in Grants : Known(g) => Known(g)'
<1>1. CASE GrantStep
    BY <1>1 DEF GrantStep, Onward, Known
<1>2. CASE CallbackStep
    BY <1>2 DEF CallbackStep, Known, TypeOK
<1>. QED  BY <1>1, <1>2, GrantsMove

(* A call that goes on with what it has.                                   *)
LEMMA GotoKeeps ==
    ASSUME TypeOK, NEW r \in Calls, NEW p, Goto(r, p)
    PROVE  /\ req'[r].pc = p /\ Keeps(r) /\ req'[r].op = req[r].op
           /\ \A q \in Calls \ {r} : req'[q] = req[q]
<1>1. req'[r] = [req[r] EXCEPT !.pc = p] /\ \A q \in Calls \ {r} : req'[q] = req[q]
    BY OneCallMoves DEF Goto
<1>. QED  BY <1>1 DEF TypeOK, Call, Keeps

(* A call that reads credentials and goes on.                              *)
LEMMA ReadsOn ==
    ASSUME TypeOK, NEW r \in Calls, NEW p, NEW g, Becomes(r, [req[r] EXCEPT !.cred = g, !.pc = p])
    PROVE  /\ req'[r].pc = p /\ req'[r].cred = g /\ req'[r].op = req[r].op
           /\ req'[r].grant = req[r].grant /\ req'[r].id = req[r].id
           /\ \A q \in Calls \ {r} : req'[q] = req[q]
<1> DEFINE c == [req[r] EXCEPT !.cred = g, !.pc = p]
<1>1. c.pc = p /\ c.cred = g /\ c.op = req[r].op /\ c.grant = req[r].grant /\ c.id = req[r].id
    BY DEF TypeOK, Call
<1> HIDE DEF c
<1>2. req'[r] = c /\ \A q \in Calls \ {r} : req'[q] = req[q]
    BY OneCallMoves DEF c
<1>. QED  BY <1>1, <1>2

(* A call that answers, or loses its process, is loose.                    *)
LEMMA AnswerIsLoose ==
    ASSUME TypeOK, NEW r \in Calls, Answer(r)
    PROVE  Loose(req'[r]) /\ req'[r].pc = "idle" /\ \A q \in Calls \ {r} : req'[q] = req[q]
<1>1. req'[r] = Idle /\ \A q \in Calls \ {r} : req'[q] = req[q]
    BY OneCallMoves DEF Answer
<1>. QED  BY <1>1 DEF Idle, Loose, Storing, Refreshing

(* So is one that has stored its grant and is put on record, or drops it.  *)
LEMMA RecordedIsLoose ==
    ASSUME TypeOK, NEW r \in Calls, Recorded(r) \/ Goto(r, "drop")
    PROVE  /\ Loose(req'[r]) /\ req'[r].pc \in {"idle", "drop"}
           /\ \A q \in Calls \ {r} : req'[q] = req[q]
<1>1. CASE Answer(r)
    BY <1>1, AnswerIsLoose
<1>2. CASE Goto(r, "drop")
    <2>1. req'[r].pc = "drop" /\ \A q \in Calls \ {r} : req'[q] = req[q]
        BY <1>2, GotoKeeps
    <2>. QED  BY <2>1 DEF Loose, Storing, Refreshing
<1>. QED  BY <1>1, <1>2 DEF Recorded

(* What writing a row from a copy leaves of its credentials: all of them.  *)
LEMMA WrittenCreds ==
    ASSUME TypeOK, NEW i \in Rows, NEW copy, row' = Written(i, copy)
    PROVE  \A j \in Rows : row'[j].cred = row[j].cred
<1>1. row' = [row EXCEPT ![i] = [row[i] EXCEPT !.status = copy.status, !.may = copy.may]]
    BY DEF TypeOK, Written
<1>2. [row[i] EXCEPT !.status = copy.status, !.may = copy.may].cred = row[i].cred
    <2>1. row[i] \in Row
        BY DEF TypeOK
    <2>2. [row[i] EXCEPT !.status = copy.status, !.may = copy.may]
            = [status |-> copy.status, cred |-> row[i].cred, may |-> copy.may]
        BY <2>1, TwoFields
    <2>. QED  BY <2>2
<1>. QED  BY <1>1, <1>2 DEF TypeOK

(* Every step of a GitHub connection is such a step.                       *)
LEMMA StepsTurn ==
    ASSUME TypeOK, CallsFit, GrantsApart, provider = "github",
           RowsKept, \A r \in Calls : CallKeeps(req[r]), [Next]_vars
    PROVE  KeptStep
<1> USE DEF At
<1>1. \A g \in Grants : Known(g) => Known(g)'
    BY KnownStays
<1>2. ASSUME NEW r \in Calls, Turns(r), \A q \in Calls \ {r} : req'[q] = req[q],
             CredsStay \/ \E s \in Calls, i \in Rows : Stores(s, i)
      PROVE  KeptStep
    BY <1>1, <1>2 DEF KeptStep, Turns
<1>3. ASSUME row' = row
      PROVE  CredsStay
    BY <1>3 DEF CredsStay
<1>4. \A r \in Calls : req[r].pc \notin {"refresh", "wait"} \cup Refreshing
    BY DEF CallKeeps
<1>5. ~Refreshes
    BY DEF Refreshes
<1>6. CASE UNCHANGED <<row, req>>
    <2>1. \A q \in Calls : Turns(q)
        BY <1>6 DEF Turns
    <2>. QED  BY <1>1, <1>3, <1>6, <2>1 DEF KeptStep
<1>7. ASSUME NEW r \in Calls, Callback(r)
      PROVE  KeptStep
    <2>1. PICK g \in Grants, p \in Processes :
              /\ Consumable(g)
              /\ \/ Opens(r, "connect", p, [Idle EXCEPT !.pc = "exchange", !.grant = g])
                 \/ UNCHANGED <<req, Bounds>>
        BY <1>7 DEF Callback
    <2>2. CASE Opens(r, "connect", p, [Idle EXCEPT !.pc = "exchange", !.grant = g])
        <3> DEFINE c == [[Idle EXCEPT !.pc = "exchange", !.grant = g]
                            EXCEPT !.op = "connect", !.proc = p]
        <3>1. Becomes(r, c)
            BY <2>2 DEF Opens
        <3>2. c.grant = g /\ c.pc = "exchange"
            BY DEF Idle
        <3> HIDE DEF c
        <3>3. /\ req'[r].grant = g /\ req'[r].pc = "exchange"
              /\ \A q \in Calls \ {r} : req'[q] = req[q]
            BY <3>1, <3>2, OneCallMoves
        <3>4. row' = row /\ ~Known(g)
            BY <1>7, <2>1 DEF Callback, Consumable, Known
        <3>5. Turns(r)
            BY <3>3, <3>4 DEF Turns
        <3>. QED  BY <1>2, <1>3, <3>3, <3>4, <3>5
    <2>3. CASE UNCHANGED req
        BY <1>6, <1>7, <2>3 DEF Callback
    <2>. QED  BY <2>1, <2>2, <2>3
<1>8. ASSUME NEW r \in Calls, SetCapabilities(r) \/ Disconnect(r) \/ Resolve(r)
      PROVE  KeptStep
    <2>1. PICK c : /\ Becomes(r, c) /\ c.pc \in {"write", "open", "credentials"}
                   /\ c.pc = "open" => c.op = "disconnect"
        BY <1>8, Begins
    <2>2. req'[r] = c /\ \A q \in Calls \ {r} : req'[q] = req[q]
        BY <2>1, OneCallMoves
    <2>3. Turns(r)
        BY <2>1, <2>2 DEF Turns, Loose, Storing, Refreshing
    <2>4. row' = row
        BY <1>8 DEF SetCapabilities, Disconnect, Resolve
    <2>. QED  BY <1>2, <1>3, <2>2, <2>3, <2>4
<1>9. ASSUME NEW r \in Calls, row' = row, Answer(r)
      PROVE  KeptStep
    BY <1>2, <1>3, <1>9, AnswerIsLoose DEF Turns
<1>28. ASSUME NEW r \in Calls, row' = row, Recorded(r) \/ Goto(r, "drop")
       PROVE  KeptStep
    BY <1>2, <1>3, <1>28, RecordedIsLoose DEF Turns
<1>10. ASSUME NEW r \in Calls, Exchange(r)
       PROVE  KeptStep
    <2>1. row' = row /\ req[r].pc \in Storing
        BY <1>10 DEF Exchange, Storing
    <2>2. CASE Goto(r, "find")
        <3>1. Turns(r)
            BY <2>1, <2>2, GotoKeeps DEF Turns, Keeps
        <3>. QED  BY <1>2, <1>3, <2>1, <2>2, <3>1, GotoKeeps
    <2>. QED  BY <1>9, <1>10, <1>28, <2>1, <2>2 DEF Exchange
<1>11. ASSUME NEW r \in Calls, FindExisting(r)
       PROVE  KeptStep
    <2>1. row' = row /\ req[r].pc \in Storing
        BY <1>11 DEF FindExisting, Storing
    <2>2. ASSUME NEW i \in Rows,
                 Becomes(r, [req[r] EXCEPT !.id = i, !.copy = row[i], !.pc = "previous"])
          PROVE  KeptStep
        <3> DEFINE c == [req[r] EXCEPT !.id = i, !.copy = row[i], !.pc = "previous"]
        <3>1. c.pc = "previous" /\ c.grant = req[r].grant
            BY DEF TypeOK, Call
        <3> HIDE DEF c
        <3>2. req'[r] = c /\ \A q \in Calls \ {r} : req'[q] = req[q]
            BY <2>2, OneCallMoves DEF c
        <3>3. Turns(r)
            BY <2>1, <3>1, <3>2 DEF Turns
        <3>. QED  BY <1>2, <1>3, <2>1, <3>2, <3>3
    <2>3. ASSUME Goto(r, "create")
          PROVE  KeptStep
        <3>1. Turns(r)
            BY <2>1, <2>3, GotoKeeps DEF Turns, Keeps
        <3>. QED  BY <1>2, <1>3, <2>1, <2>3, <3>1, GotoKeeps
    <2>. QED  BY <1>11, <2>2, <2>3 DEF FindExisting
<1>12. ASSUME NEW r \in Calls, ReadPrevious(r)
       PROVE  KeptStep
    <2>1. /\ row' = row /\ req[r].pc = "previous"
          /\ Becomes(r, [req[r] EXCEPT !.cred = row[req[r].id].cred, !.pc = "replace"])
        BY <1>12 DEF ReadPrevious
    <2> DEFINE c == [req[r] EXCEPT !.cred = row[req[r].id].cred, !.pc = "replace"]
    <2>2. /\ c.pc = "replace" /\ c.cred = row[req[r].id].cred
          /\ c.grant = req[r].grant /\ c.id = req[r].id
        BY DEF TypeOK, Call
    <2> HIDE DEF c
    <2>3. req'[r] = c /\ \A q \in Calls \ {r} : req'[q] = req[q]
        BY <2>1, OneCallMoves DEF c
    <2>4. Turns(r)
        BY <2>1, <2>2, <2>3 DEF Turns
    <2>. QED  BY <1>2, <1>3, <2>1, <2>3, <2>4
<1>13. ASSUME NEW r \in Calls, Replace(r)
       PROVE  KeptStep
    <2>1. /\ req[r].pc = "replace" /\ Goto(r, "update")
          /\ row' = Stored(req[r].id, req[r].grant)
        BY <1>13 DEF Replace
    <2>2. req[r].id \in Rows /\ req[r].grant \in Grants
        BY <2>1 DEF CallsFit, Fit, WithRow, WithGrant
    <2>3. Turns(r)
        BY <2>1, GotoKeeps DEF Turns
    <2>4. CredsStay \/ Stores(r, req[r].id)
        BY <2>1, <2>2, StoredCreds, GotoKeeps DEF CredsStay, Stores
    <2>. QED  BY <1>2, <2>1, <2>2, <2>3, <2>4, GotoKeeps
<1>14. ASSUME NEW r \in Calls, UpdateReconnected(r)
       PROVE  KeptStep
    <2>1. req[r].pc = "update" /\ req[r].id \in Rows
        BY <1>14 DEF UpdateReconnected, CallsFit, Fit, WithRow
    <2>2. CASE row' = row /\ Goto(r, "drop")
        BY <1>28, <2>2
    <2>3. CASE /\ \E copy : row' = Written(req[r].id, copy)
               /\ Recorded(r) \/ Goto(r, "end")
        <3>1. \A i \in Rows : row'[i].cred = row[i].cred
            BY <2>1, <2>3, WrittenCreds
        <3>2. CredsStay
            BY <3>1 DEF CredsStay
        <3>3. CASE Recorded(r)
            BY <1>2, <3>2, <3>3, RecordedIsLoose DEF Turns
        <3>4. CASE Goto(r, "end")
            <4>1. Turns(r)
                BY <2>1, <3>1, <3>4, GotoKeeps DEF Turns
            <4>. QED  BY <1>2, <3>2, <3>4, <4>1, GotoKeeps
        <3>. QED  BY <2>3, <3>3, <3>4
    <2>. QED  BY <1>14, <2>2, <2>3, Zenon DEF UpdateReconnected
<1>15. ASSUME NEW r \in Calls, Create(r)
       PROVE  KeptStep
    <2>1. req[r].pc = "create"
        BY <1>15 DEF Create
    <2>2. CASE ScopeTaken
        <3>1. row' = row /\ Goto(r, "drop")
            BY <1>15, <2>2 DEF Create
        <3>. QED  BY <1>28, <3>1
    <2>3. CASE ~ScopeTaken
        <3>1. PICK i \in Rows :
                  row' = [row EXCEPT ![i] = [status |-> "active", cred |-> req[r].grant, may |-> TRUE]]
            BY <1>15, <2>3 DEF Create
        <3>2. Recorded(r)
            BY <1>15, <2>3 DEF Create
        <3>3. Stores(r, i)
            BY <2>1, <3>1, <3>2, RecordedIsLoose DEF Stores, TypeOK
        <3>. QED  BY <1>2, <3>2, <3>3, RecordedIsLoose DEF Turns
    <2>. QED  BY <2>2, <2>3
<1>16. ASSUME NEW r \in Calls, WriteCapabilities(r)
       PROVE  KeptStep
    <2>1. Answer(r) /\ (row' = row \/ \E copy : row' = Written(req[r].id, copy))
        BY <1>16, Zenon DEF WriteCapabilities
    <2>2. req[r].id \in Rows
        BY <1>16 DEF WriteCapabilities, CallsFit, Fit, WithRow
    <2>3. CredsStay
        BY <1>3, <2>1, <2>2, WrittenCreds DEF CredsStay
    <2>. QED  BY <1>2, <2>1, <2>3, AnswerIsLoose DEF Turns
<1>17. ASSUME NEW r \in Calls, OpenForRevoke(r)
       PROVE  KeptStep
    <2>1. /\ row' = row /\ req[r].pc = "open" /\ req[r].op = "disconnect"
          /\ \E g : Becomes(r, [req[r] EXCEPT !.cred = g,
                                   !.pc = IF g = None THEN "revoke" ELSE "provider"])
        BY <1>17, Zenon DEF OpenForRevoke, CallKeeps
    <2>2. PICK g : Becomes(r, [req[r] EXCEPT !.cred = g,
                                  !.pc = IF g = None THEN "revoke" ELSE "provider"])
        BY <2>1
    <2>3. /\ req'[r].pc \in {"revoke", "provider"} /\ req'[r].op = "disconnect"
          /\ \A q \in Calls \ {r} : req'[q] = req[q]
        BY <2>1, <2>2, ReadsOn
    <2>4. Turns(r)
        BY <2>3 DEF Turns, Loose, Storing, Refreshing
    <2>. QED  BY <1>2, <1>3, <2>1, <2>3, <2>4
<1>18. ASSUME NEW r \in Calls, RevokeAtProvider(r)
       PROVE  KeptStep
    <2>1. row' = row /\ Goto(r, "revoke")
        BY <1>18 DEF RevokeAtProvider
    <2>2. req'[r].pc = "revoke"
        BY <2>1, GotoKeeps
    <2>3. Turns(r)
        BY <2>2 DEF Turns, Loose, Storing, Refreshing
    <2>. QED  BY <1>2, <1>3, <2>1, <2>3, GotoKeeps
<1>19. ASSUME NEW r \in Calls, RevokeRow(r)
       PROVE  KeptStep
    <2>1. /\ row' = [row EXCEPT ![req[r].id].status = "revoked", ![req[r].id].cred = None]
          /\ Answer(r) /\ req[r].id \in Rows
        BY <1>19 DEF RevokeRow, CallsFit, Fit, WithRow
    <2>2. CredsStay
        <3>1. row' = [row EXCEPT ![req[r].id] =
                         [row[req[r].id] EXCEPT !.status = "revoked", !.cred = None]]
            BY <2>1 DEF TypeOK
        <3>2. row[req[r].id] \in Row
            BY <2>1 DEF TypeOK
        <3>3. [row[req[r].id] EXCEPT !.status = "revoked", !.cred = None]
                = [status |-> "revoked", cred |-> None, may |-> row[req[r].id].may]
            BY <3>2, TwoFields
        <3>. QED  BY <2>1, <3>1, <3>3 DEF CredsStay, TypeOK
    <2>. QED  BY <1>2, <2>1, <2>2, AnswerIsLoose DEF Turns
<1>20. ASSUME NEW r \in Calls, ReadCredentials(r)
       PROVE  KeptStep
    <2>1. /\ row' = row
          /\ \/ Answer(r)
             \/ \E g : Becomes(r, [req[r] EXCEPT !.cred = g, !.pc = "run"])
        BY <1>5, <1>20, Zenon DEF ReadCredentials
    <2>2. ASSUME NEW g, Becomes(r, [req[r] EXCEPT !.cred = g, !.pc = "run"])
          PROVE  KeptStep
        <3>1. Turns(r) /\ \A q \in Calls \ {r} : req'[q] = req[q]
            BY <2>2, ReadsOn DEF Turns, Loose, Storing, Refreshing
        <3>. QED  BY <1>2, <1>3, <2>1, <3>1
    <2>. QED  BY <1>9, <2>1, <2>2
<1>21. ASSUME NEW r \in Calls, Run(r)
       PROVE  KeptStep
    <2>1. row' = row /\ (Answer(r) \/ Goto(r, "look"))
        BY <1>5, <1>21 DEF Run, RenewsFirst
    <2>2. ASSUME Goto(r, "look")
          PROVE  KeptStep
        <3>1. req'[r].pc = "look"
            BY <2>2, GotoKeeps
        <3>2. Turns(r)
            BY <3>1 DEF Turns, Loose, Storing, Refreshing
        <3>. QED  BY <1>2, <1>3, <2>1, <2>2, <3>2, GotoKeeps
    <2>. QED  BY <1>9, <2>1, <2>2
<1>22. ASSUME NEW r \in Calls, FindCurrent(r)
       PROVE  KeptStep
    <2>1. req[r].pc = "look" /\ row' = row
        BY <1>4, <1>22 DEF FindCurrent, Refreshing
    <2>2. \/ Answer(r)
          \/ Becomes(r, [req[r] EXCEPT !.copy = row[req[r].id], !.pc = "mark"])
        BY <1>22, <2>1 DEF FindCurrent
    <2>3. ASSUME Becomes(r, [req[r] EXCEPT !.copy = row[req[r].id], !.pc = "mark"])
          PROVE  KeptStep
        <3> DEFINE c == [req[r] EXCEPT !.copy = row[req[r].id], !.pc = "mark"]
        <3>1. c.pc = "mark"
            BY DEF TypeOK, Call
        <3> HIDE DEF c
        <3>2. req'[r] = c /\ \A q \in Calls \ {r} : req'[q] = req[q]
            BY <2>3, OneCallMoves DEF c
        <3>3. Turns(r)
            BY <3>1, <3>2 DEF Turns, Loose, Storing, Refreshing
        <3>. QED  BY <1>2, <1>3, <2>1, <3>2, <3>3
    <2>. QED  BY <1>9, <2>1, <2>2, <2>3
<1>23. ASSUME NEW r \in Calls, MarkAttention(r)
       PROVE  KeptStep
    <2>1. req[r].pc = "mark"
        BY <1>4, <1>23 DEF MarkAttention, Refreshing
    <2>2. /\ req[r].id \in Rows /\ Answer(r)
          /\ row' = row \/ \E copy : row' = Written(req[r].id, copy)
        BY <1>23, <2>1, Zenon DEF MarkAttention, CallsFit, Fit, WithRow
    <2>3. CredsStay
        BY <1>3, <2>2, WrittenCreds DEF CredsStay
    <2>. QED  BY <1>2, <2>2, <2>3, AnswerIsLoose DEF Turns
<1>24. ASSUME NEW r \in Calls, Refresh(r) \/ AskProvider(r) \/ StoreRenewed(r)
       PROVE  KeptStep
    BY <1>4, <1>24 DEF Refresh, AskProvider, StoreRenewed, Refreshing
<1>25. ASSUME NEW p \in Processes, Stop(p)
       PROVE  KeptStep
    <2>1. row' = row /\ \A q \in Calls : req'[q] = req[q] \/ req'[q] = Idle
        BY <1>25 DEF Stop
    <2>2. Loose(Idle)
        BY DEF Loose, Idle, Storing, Refreshing
    <2>3. \A q \in Calls : Turns(q)
        BY <2>1, <2>2 DEF Turns
    <2>. QED  BY <1>1, <1>3, <2>1, <2>3 DEF KeptStep
<1>26. CASE StartAuthorization \/ OwnerEnds \/ UNCHANGED vars
    BY <1>6, <1>26 DEF StartAuthorization, OwnerEnds, vars
<1>27. CASE \E r \in Calls : EndPrevious(r) \/ Drop(r)
    BY <1>9, <1>27, <1>28 DEF EndPrevious, Drop
<1>. QED
    BY <1>7, <1>8, <1>10, <1>11, <1>12, <1>13, <1>14, <1>15, <1>16, <1>17, <1>18, <1>19, <1>20,
       <1>21, <1>22, <1>23, <1>24, <1>25, <1>26, <1>27
       DEF Next, Open, Step

(* The provider never changes.                                             *)
LEMMA ProviderStays ==
    ASSUME [Next]_vars
    PROVE  provider' = provider
<1>1. ASSUME NEW r \in Calls, Open(r)
      PROVE  provider' = provider
    BY <1>1, Zenon DEF Open, Callback, SetCapabilities, Disconnect, Resolve
<1>2. ASSUME NEW r \in Calls, Step(r)
      PROVE  provider' = provider
    BY <1>2
       DEF Step, Exchange, FindExisting, ReadPrevious, Replace, UpdateReconnected,
           EndPrevious, Create, Drop, WriteCapabilities, OpenForRevoke, RevokeAtProvider,
           RevokeRow, ReadCredentials, Run, Refresh, AskProvider, StoreRenewed,
           FindCurrent, MarkAttention
<1>. QED  BY <1>1, <1>2 DEF Next, StartAuthorization, OwnerEnds, Stop, vars

(* So what a GitHub connection holds stays apart from what calls will end. *)
LEMMA GrantsKeptAlways == Spec => [](IInv /\ GrantsKept)
<1>1. Init => GrantsKept
    <2>. SUFFICES ASSUME Init
                  PROVE  GrantsKept
        OBVIOUS
    <2>1. \A i \in Rows : row[i].cred = None
        BY DEF Init, NoRow
    <2>2. RowsKept
        BY <2>1 DEF RowsKept
    <2>3. ASSUME NEW r \in Calls
          PROVE  CallKeeps(req[r])
        <3>1. req[r].pc = "idle"
            BY DEF Init, Idle
        <3>. QED  BY <3>1 DEF CallKeeps, Storing, Refreshing
    <2>. QED  BY <2>2, <2>3 DEF GrantsKept
<1>2. IInv /\ GrantsKept /\ [Next]_vars => GrantsKept'
    <2>. SUFFICES ASSUME IInv, GrantsKept, [Next]_vars, provider' = "github"
                  PROVE  RowsKept' /\ \A r \in Calls : CallKeeps(req[r])'
        BY DEF GrantsKept
    <2>1. provider = "github"
        BY ProviderStays
    <2>2. TypeOK /\ CallsFit /\ GrantsApart /\ RowsKept /\ \A r \in Calls : CallKeeps(req[r])
        BY <2>1 DEF IInv, GrantsKept
    <2>3. KeptStep
        BY <2>1, <2>2, StepsTurn
    <2>. QED  BY <2>2, <2>3, KeptKeeps
<1>. QED  BY <1>1, <1>2, Invariant, PTL DEF Spec

(* For GitHub, only a disconnect, the account's owner, or the round trip   *)
(* that stored it and then failed, ends the grant a connection holds.      *)
THEOREM KeptTokensAlwaysLast == Spec => KeptTokensLast
<1>1. IInv /\ GrantsKept /\ [Next]_vars
        => [provider = "github" =>
               \A g \in Grants : EndsWhatIsKept(g) => \E r \in Calls : EndsItsOwn(r, g)]_vars
    <2>. SUFFICES ASSUME IInv, GrantsKept, [Next]_vars, provider = "github",
                         NEW g \in Grants, EndsWhatIsKept(g),
                         \A q \in Calls : ~EndsItsOwn(q, g)
                  PROVE  FALSE
        OBVIOUS
    <2> USE DEF At
    <2>1. /\ TypeOK /\ CallsFit /\ RowsKept /\ \A r \in Calls : CallKeeps(req[r])
          /\ token[g] = "live" /\ token'[g] = "dead" /\ Held(g)
        BY DEF IInv, GrantsKept, EndsWhatIsKept, Held
    <2>2. PICK r \in Calls : req'[r] # req[r] /\ req[r].op # "disconnect"
        BY DEF EndsWhatIsKept
    <2>3. token' # token
        BY <2>1
    <2>4. ASSUME NEW gs, Revoke(gs)
          PROVE  g \in gs
        BY <2>1, <2>4 DEF Revoke
    <2>5. \A h : Ended(h) = {h}
        BY DEF Ended
    <2>6. ASSUME NEW q \in Calls, EndPrevious(q)
          PROVE  FALSE
        <3>1. req[q].pc = "end" /\ g = req[q].cred
            BY <2>4, <2>6 DEF EndPrevious, Replaced
        <3>. QED  BY <2>1, <3>1 DEF CallKeeps
    <2>7. ASSUME NEW q \in Calls, Drop(q)
          PROVE  FALSE
        <3>1. req[q].pc = "drop" /\ g = req[q].grant
            BY <2>4, <2>5, <2>7 DEF Drop
        <3>2. req'[q] = Idle
            <4>1. Becomes(q, Idle)
                BY <2>7 DEF Drop, Answer
            <4>. QED  BY <2>1, <4>1, OneCallMoves
        <3>. QED  BY <3>1, <3>2 DEF EndsItsOwn
    <2>8. ASSUME NEW q \in Calls, RevokeAtProvider(q)
          PROVE  FALSE
        <3>1. req[q].pc = "provider" /\ Goto(q, "revoke")
            BY <2>8 DEF RevokeAtProvider
        <3>2. r = q
            BY <2>1, <2>2, <3>1, GotoKeeps
        <3>. QED  BY <2>1, <2>2, <3>1, <3>2 DEF CallKeeps
    <2>9. ASSUME NEW q \in Calls, Exchange(q)
          PROVE  FALSE
        <3>1. req[q].grant \in Grants
            BY <2>1, <2>9 DEF Exchange, CallsFit, Fit, WithGrant
        <3>. QED  BY <2>1, <2>9, <3>1 DEF Exchange, TypeOK
    <2>10. ASSUME NEW q \in Calls, Callback(q)
           PROVE  FALSE
        BY <2>1, <2>10 DEF Callback, TypeOK
    <2>11. ~StartAuthorization
        BY <2>1 DEF StartAuthorization, TypeOK
    <2>12. ~OwnerEnds
        BY <2>2 DEF OwnerEnds
    <2>. QED
        BY <2>3, <2>6, <2>7, <2>8, <2>9, <2>10, <2>11, <2>12
           DEF Next, Open, Step, SetCapabilities, Disconnect, Resolve, FindExisting, ReadPrevious,
               Replace, UpdateReconnected, Create, WriteCapabilities, OpenForRevoke, RevokeRow,
               ReadCredentials, Run, Refresh, AskProvider, StoreRenewed, FindCurrent, MarkAttention,
               Stop, vars
<1>. QED  BY <1>1, GrantsKeptAlways, PTL DEF Spec, KeptTokensLast

=============================================================================
