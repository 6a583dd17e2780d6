----------------------------- MODULE Connections -----------------------------
(***************************************************************************)
(* One provider connected in one scope of an organization: the round trips *)
(* that connect it, changes of what agents may do through it,              *)
(* disconnects, and the uses tools make of it, with the refresh that the   *)
(* uses of one process share.                                              *)
(*                                                                         *)
(* Every statement is a step.  A row is written whole from a copy read     *)
(* before, but for its credentials, which have a statement of their own.   *)
(* A grant stands for the round trip that asks for it, for the state the   *)
(* browser brings back and for the tokens the provider issued; scopes are  *)
(* left out, since a grant that does not cover them is not stored.         *)
(***************************************************************************)
EXTENDS Naturals, FiniteSets

CONSTANTS
    Rows,         \* ids of connection rows
    Grants,       \* round trips, and what each is granted
    Calls,        \* requests and tool calls that can be in flight together
    Processes,    \* the processes they run in
    None,         \* no row, grant, call or process
    Providers,    \* which of the two providers may be the one connected
    MaxCalls,     \* bound: requests and uses of a behaviour
    MaxStops      \* bound: processes that stop with calls under way

ASSUME ConnectionsAssumption ==
    /\ Providers \subseteq {"github", "google_drive"}
    /\ None \notin Rows \cup Grants \cup Calls \cup Processes
    /\ MaxCalls \in Nat /\ MaxStops \in Nat

VARIABLES
    provider,   \* the provider connected
    row,        \* id -> its row of connections
    token,      \* grant -> how far it is, at the provider once it is issued
    req,        \* call -> what it does, how far it is and what it holds
    calls,      \* calls so far
    stops       \* stops so far

vars == <<provider, row, token, req, calls, stops>>

NoRow == [status |-> "absent", cred |-> None, may |-> FALSE]
Idle  == [op |-> "none", pc |-> "idle", proc |-> None, id |-> None, copy |-> NoRow, grant |-> None,
          cred |-> None, want |-> FALSE, renewed |-> FALSE]

Init ==
    /\ provider \in Providers
    /\ row = [i \in Rows |-> NoRow]
    /\ token = [g \in Grants |-> "new"]
    /\ req = [r \in Calls |-> Idle]
    /\ calls = 0 /\ stops = 0

At(r, p)      == req[r].pc = p
Becomes(r, c) == req' = [req EXCEPT ![r] = c]
Goto(r, p)    == Becomes(r, [req[r] EXCEPT !.pc = p])
Answer(r)     == Becomes(r, Idle)
Bounds        == <<calls, stops>>
Refreshes     == provider = "google_drive"

Live(i) == row[i].status \in {"active", "needs_attention"}

(* A call that begins in a process.                                        *)
Opens(r, op, p, call) ==
    /\ At(r, "idle") /\ calls < MaxCalls /\ calls' = calls + 1
    /\ Becomes(r, [call EXCEPT !.op = op, !.proc = p])
    /\ UNCHANGED stops

(* The tokens a revocation ends: Google ends all an account has granted.   *)
Ended(g) == IF provider = "google_drive" THEN {h \in Grants : token[h] = "live"} ELSE {g}

(* A revocation at the provider may fail, and nobody is told.              *)
Revoke(gs) ==
    \/ token' = [h \in Grants |-> IF h \in gs /\ token[h] = "live" THEN "dead" ELSE token[h]]
    \/ UNCHANGED token

-----------------------------------------------------------------------------
(* Connecting.                                                             *)

StartAuthorization ==
    /\ \E g \in Grants :
        /\ token[g] = "new"
        /\ token' = [token EXCEPT ![g] = "asked"]
    /\ UNCHANGED <<provider, row, req, Bounds>>

Consumable(g) == token[g] = "asked"

(* The callback uses up its state; it may be expired, denied, without a    *)
(* code, or brought by somebody who may not connect here any more.         *)
Callback(r) ==
    /\ \E g \in Grants, p \in Processes :
        /\ Consumable(g)
        /\ \/ Opens(r, "connect", p, [Idle EXCEPT !.pc = "exchange", !.grant = g])
           \/ UNCHANGED <<req, Bounds>>
        /\ token' = [token EXCEPT ![g] = IF @ = "asked" THEN "used" ELSE @]
    /\ UNCHANGED <<provider, row>>

(* The code is exchanged; a grant that lacks a scope is ended again, and   *)
(* so is one after which a statement throws before it is stored.           *)
Exchange(r) ==
    /\ At(r, "exchange")
    /\ \/ Answer(r) /\ UNCHANGED token
       \/ /\ token' = [token EXCEPT ![req[r].grant] = "live"]
          /\ Goto(r, "find") \/ Goto(r, "drop")
    /\ UNCHANGED <<provider, row, Bounds>>

FindExisting(r) ==
    /\ At(r, "find")
    /\ \/ \E i \in Rows : /\ Live(i)
                          /\ Becomes(r, [req[r] EXCEPT !.id = i, !.copy = row[i], !.pc = "previous"])
       \/ ~(\E i \in Rows : Live(i)) /\ Goto(r, "create")
    /\ UNCHANGED <<provider, row, token, Bounds>>

ReadPrevious(r) ==
    /\ At(r, "previous")
    /\ Becomes(r, [req[r] EXCEPT !.cred = row[req[r].id].cred, !.pc = "replace"])
    /\ UNCHANGED <<provider, row, token, Bounds>>

(* update ... set credentials where status <> revoked.                     *)
Stored(i, g) == IF Live(i) THEN [row EXCEPT ![i].cred = g] ELSE row

Replace(r) ==
    /\ At(r, "replace")
    /\ row' = Stored(req[r].id, req[r].grant)
    /\ Goto(r, "update")
    /\ UNCHANGED <<provider, token, Bounds>>

(* A status but revoked without credentials is refused by the table.       *)
Writable(i) == row[i].cred # None

(* The whole row from a copy, but for the credentials.                     *)
Written(i, copy) == [row EXCEPT ![i].status = copy.status, ![i].may = copy.may]

(* The stored connection is put on record; when that throws, the round     *)
(* trip ends what it was granted as if it had kept nothing.                *)
Recorded(r) == Answer(r) \/ Goto(r, "drop")

(* The update is refused by the table, or throws: the credentials stay.    *)
UpdateReconnected(r) ==
    /\ At(r, "update")
    /\ LET c == req[r]
       IN \/ /\ Writable(c.id)
             /\ row' = Written(c.id, [c.copy EXCEPT !.status = "active"])
             /\ IF provider = "github" /\ c.cred \notin {None, c.grant}
                THEN Goto(r, "end") ELSE Recorded(r)
          \/ Goto(r, "drop") /\ UNCHANGED row
    /\ UNCHANGED <<provider, token, Bounds>>

(* Mutant: what the row holds now is ended, not what was read before.      *)
MutEndsCurrent(r) == row[req[r].id].cred

Replaced(r) == req[r].cred

EndPrevious(r) ==
    /\ At(r, "end")
    /\ Revoke({Replaced(r)})
    /\ Recorded(r)
    /\ UNCHANGED <<provider, row, Bounds>>

(* Another row is live: the unique index.                                  *)
(* Mutant: there is no such index.                                         *)
MutNoIndex == FALSE

ScopeTaken == \E i \in Rows : Live(i)

(* Mutant: a revoked row is taken again.                                   *)
MutReusesRow(i) == row[i].cred = None

Fresh(i) == row[i] = NoRow

Create(r) ==
    /\ At(r, "create")
    /\ IF ScopeTaken THEN Goto(r, "drop") /\ UNCHANGED row
       ELSE /\ \E i \in Rows :
                 /\ Fresh(i)
                 /\ row' = [row EXCEPT ![i] = [status |-> "active", cred |-> req[r].grant, may |-> TRUE]]
            /\ Recorded(r)
    /\ UNCHANGED <<provider, token, Bounds>>

(* Something threw after the exchange: the grant is ended, though what was *)
(* stored of it stays.                                                     *)
Drop(r) ==
    /\ At(r, "drop")
    /\ Revoke(Ended(req[r].grant))
    /\ Answer(r)
    /\ UNCHANGED <<provider, row, Bounds>>

-----------------------------------------------------------------------------
(* Changing what is allowed, and disconnecting.                            *)

SetCapabilities(r) ==
    /\ \E i \in Rows, p \in Processes, on \in BOOLEAN :
        /\ Live(i)
        /\ Opens(r, "allow", p, [Idle EXCEPT !.pc = "write", !.id = i, !.copy = row[i], !.want = on])
    /\ UNCHANGED <<provider, row, token>>

WriteCapabilities(r) ==
    /\ At(r, "write")
    /\ LET c == req[r]
       IN row' = IF Writable(c.id) THEN Written(c.id, [c.copy EXCEPT !.may = c.want]) ELSE row
    /\ Answer(r)
    /\ UNCHANGED <<provider, token, Bounds>>

Disconnect(r) ==
    /\ \E i \in Rows, p \in Processes :
        /\ Live(i)
        /\ Opens(r, "disconnect", p, [Idle EXCEPT !.pc = "open", !.id = i])
    /\ UNCHANGED <<provider, row, token>>

OpenForRevoke(r) ==
    /\ At(r, "open")
    /\ LET g == row[req[r].id].cred
       IN Becomes(r, [req[r] EXCEPT !.cred = g, !.pc = IF g = None THEN "revoke" ELSE "provider"])
    /\ UNCHANGED <<provider, row, token, Bounds>>

RevokeAtProvider(r) ==
    /\ At(r, "provider")
    /\ Revoke(Ended(req[r].cred))
    /\ Goto(r, "revoke")
    /\ UNCHANGED <<provider, row, Bounds>>

RevokeRow(r) ==
    /\ At(r, "revoke")
    /\ row' = [row EXCEPT ![req[r].id].status = "revoked", ![req[r].id].cred = None]
    /\ Answer(r)
    /\ UNCHANGED <<provider, token, Bounds>>

-----------------------------------------------------------------------------
(* Using it.                                                               *)

Resolve(r) ==
    /\ \E i \in Rows, p \in Processes :
        /\ row[i].status = "active" /\ row[i].may
        /\ Opens(r, "use", p, [Idle EXCEPT !.pc = "credentials", !.id = i])
    /\ UNCHANGED <<provider, row, token>>

(* A token about to expire is refreshed first.                             *)
ReadCredentials(r) ==
    /\ At(r, "credentials")
    /\ LET g == row[req[r].id].cred
       IN IF g = None THEN Answer(r)
          ELSE \/ Becomes(r, [req[r] EXCEPT !.cred = g, !.pc = "run"])
               \/ Refreshes /\ Becomes(r, [req[r] EXCEPT !.cred = g, !.pc = "refresh"])
    /\ UNCHANGED <<provider, row, token, Bounds>>

(* An access token that was not just renewed may have expired.             *)
Refused(r) == token[req[r].cred] = "dead" \/ (Refreshes /\ ~req[r].renewed)

RenewsFirst(r) == Refreshes /\ ~req[r].renewed

Run(r) ==
    /\ At(r, "run")
    /\ \/ token[req[r].cred] # "dead" /\ Answer(r)
       \/ Refused(r) /\ Goto(r, IF RenewsFirst(r) THEN "refresh" ELSE "look")
    /\ UNCHANGED <<provider, row, token, Bounds>>

Refreshing == {"ask", "store", "find current", "mark current"}

(* The call whose refresh of this row the process has under way.           *)
InFlight(p, i) == {q \in Calls : req[q].proc = p /\ req[q].id = i /\ req[q].pc \in Refreshing}

Refresh(r) ==
    /\ At(r, "refresh")
    /\ Goto(r, IF InFlight(req[r].proc, req[r].id) = {} THEN "ask" ELSE "wait")
    /\ UNCHANGED <<provider, row, token, Bounds>>

(* The refresh of r ends: so does the wait of those that joined it.        *)
Joined(r) == {q \in Calls : At(q, "wait") /\ req[q].proc = req[r].proc /\ req[q].id = req[r].id}

Settles(r, goesOn) ==
    req' = [q \in Calls |->
        IF q \notin Joined(r) \cup {r} THEN req[q]
        ELSE IF goesOn THEN [req[q] EXCEPT !.cred = req[r].cred, !.renewed = TRUE, !.pc = "run"]
        ELSE Idle]

AskProvider(r) ==
    /\ At(r, "ask")
    /\ \/ token[req[r].cred] = "live" /\ Goto(r, "store")
       \/ token[req[r].cred] = "dead" /\ Goto(r, "find current")
       \/ Settles(r, FALSE)
    /\ UNCHANGED <<provider, row, token, Bounds>>

StoreRenewed(r) ==
    /\ At(r, "store")
    /\ row' = Stored(req[r].id, req[r].cred)
    /\ Settles(r, TRUE)
    /\ UNCHANGED <<provider, token, Bounds>>

(* needsAttention: by a refresh, or by a use after its last try.           *)
FindCurrent(r) ==
    /\ req[r].pc \in {"find current", "look"}
    /\ LET c == req[r]
       IN IF row[c.id].status = "active"
          THEN Becomes(r, [c EXCEPT !.copy = row[c.id],
                              !.pc = IF c.pc = "look" THEN "mark" ELSE "mark current"])
          ELSE IF c.pc = "look" THEN Answer(r) ELSE Settles(r, FALSE)
    /\ UNCHANGED <<provider, row, token, Bounds>>

MarkAttention(r) ==
    /\ req[r].pc \in {"mark current", "mark"}
    /\ LET c == req[r]
       IN /\ row' = IF Writable(c.id)
                    THEN Written(c.id, [c.copy EXCEPT !.status = "needs_attention"]) ELSE row
          /\ IF c.pc = "mark" THEN Answer(r) ELSE Settles(r, FALSE)
    /\ UNCHANGED <<provider, token, Bounds>>

-----------------------------------------------------------------------------
(* The account's owner ends a grant at the provider.                       *)
OwnerEnds ==
    /\ \E g \in Grants : token[g] = "live" /\ token' = [token EXCEPT ![g] = "dead"]
    /\ UNCHANGED <<provider, row, req, Bounds>>

(* A process stops: its calls, and the refreshes it had under way, are     *)
(* gone.                                                                   *)
Stop(p) ==
    /\ stops < MaxStops /\ stops' = stops + 1
    /\ \E r \in Calls : req[r].proc = p
    /\ req' = [r \in Calls |-> IF req[r].proc = p THEN Idle ELSE req[r]]
    /\ UNCHANGED <<provider, row, token, calls>>

Open(r) == Callback(r) \/ SetCapabilities(r) \/ Disconnect(r) \/ Resolve(r)

Step(r) ==
    \/ Exchange(r) \/ FindExisting(r) \/ ReadPrevious(r) \/ Replace(r) \/ UpdateReconnected(r)
    \/ EndPrevious(r) \/ Create(r) \/ Drop(r)
    \/ WriteCapabilities(r) \/ OpenForRevoke(r) \/ RevokeAtProvider(r) \/ RevokeRow(r)
    \/ ReadCredentials(r) \/ Run(r) \/ Refresh(r) \/ AskProvider(r) \/ StoreRenewed(r)
    \/ FindCurrent(r) \/ MarkAttention(r)

Next ==
    \/ \E r \in Calls : Open(r) \/ Step(r)
    \/ StartAuthorization \/ OwnerEnds
    \/ \E p \in Processes : Stop(p)

Spec == Init /\ [][Next]_vars

-----------------------------------------------------------------------------
Row  == [status: {"active", "needs_attention"}, cred: Grants, may: BOOLEAN]
          \cup [status: {"revoked"}, cred: {None}, may: BOOLEAN] \cup {NoRow}
Pcs  == Refreshing \cup {"idle", "exchange", "find", "previous", "replace", "update", "end", "create",
                         "drop", "write", "open", "provider", "revoke", "credentials", "run",
                         "refresh", "wait", "look", "mark"}
Call == [op: {"none", "connect", "allow", "disconnect", "use"}, pc: Pcs, proc: Processes \cup {None},
         id: Rows \cup {None}, copy: Row, grant: Grants \cup {None}, cred: Grants \cup {None},
         want: BOOLEAN, renewed: BOOLEAN]

(* Every variable has its type: a live row has credentials, a revoked one  *)
(* has none.                                                               *)
TypeOK ==
    /\ provider \in Providers
    /\ row \in [Rows -> Row]
    /\ token \in [Grants -> {"new", "asked", "used", "live", "dead"}]
    /\ req \in [Calls -> Call]
    /\ calls \in Nat /\ stops \in Nat

(* Two round trips that finish together leave one connection.              *)
OneLive == \A i, j \in Rows : Live(i) /\ Live(j) => i = j

(* A disconnected connection stays so, whichever copies of it are still    *)
(* to be written.                                                          *)
RevokedForGood == [][\A i \in Rows : row[i].status = "revoked" => row'[i] = row[i]]_vars

(* A state completes one round trip: whoever exchanges its code is the     *)
(* only one, and the first.                                                *)
StatesOnce ==
    \A r, q \in Calls : At(r, "exchange") =>
        /\ token[req[r].grant] = "used"
        /\ req[q].grant = req[r].grant => q = r

(* The calls of a process share one refresh of a connection, and whoever   *)
(* waits for one waits for a call that is under way.                       *)
RefreshesAreShared ==
    \A p \in Processes, i \in Rows :
        LET refreshing == {q \in Calls : req[q].proc = p /\ req[q].id = i /\ req[q].pc \in Refreshing}
            waiting    == {q \in Calls : req[q].proc = p /\ req[q].id = i /\ At(q, "wait")}
        IN Cardinality(refreshing) <= 1 /\ (waiting # {} => refreshing # {})

(* One connection, one exchange of a state and one refresh at a time, over *)
(* rows that have their types.                                             *)
OneOfEach == TypeOK /\ OneLive /\ StatesOnce /\ RefreshesAreShared

(* Only a disconnect, or the account's owner, ends the grant a connection  *)
(* holds.                                                                  *)
EndsWhatIsKept(g) ==
    /\ token[g] = "live" /\ token'[g] = "dead" /\ \E i \in Rows : row[i].cred = g
    /\ \E r \in Calls : req'[r] # req[r] /\ req[r].op # "disconnect"

KeptGrantsLast == [][\A g \in Grants : ~EndsWhatIsKept(g)]_vars

(* For GitHub, where grants end one by one, that holds but for the round   *)
(* trip that stored the grant and then failed: it ends no grant but its    *)
(* own, and no round trip ends what another has just put in its place.     *)
EndsItsOwn(r, g) == At(r, "drop") /\ req[r].grant = g /\ req'[r] = Idle

KeptTokensLast ==
    [][provider = "github" =>
          \A g \in Grants : EndsWhatIsKept(g) => \E r \in Calls : EndsItsOwn(r, g)]_vars

(* A round trip that ends what it was granted has left it with no          *)
(* connection.                                                             *)
NothingWasKept == \A r \in Calls, i \in Rows : At(r, "drop") => row[i].cred # req[r].grant

(* What was turned off is turned on again by somebody who turns it on, not *)
(* by a copy read before.                                                  *)
TurnedOffStaysOff ==
    [][\A i \in Rows : row[i].status # "absent" /\ ~row[i].may /\ row'[i].may =>
            \E r \in Calls : At(r, "write") /\ req[r].want /\ req'[r] = Idle]_vars
=============================================================================
