-------------------------------- MODULE Skills --------------------------------
(***************************************************************************)
(* The skills of one slug in one organization: the company's rows and a    *)
(* workspace's, which their authors change, archive and restore; the       *)
(* versions kept on record; and the steps that pin a version when they are *)
(* planned and look for it when they run.                                  *)
(*                                                                         *)
(* A text is all a draft holds: instructions, fields, requirements,        *)
(* approval, memory.  A definition is a text with the identity it is named *)
(* by for all time, its ref and version.                                   *)
(***************************************************************************)
EXTENDS Naturals

CONSTANTS
    Ids,          \* of rows that may be created
    Texts,        \* what a skill may say
    System,       \* the ref of the product's own skill of this slug
    SystemText,   \* what that one says, None when there is none
    Editors,      \* requests to write skills under way at once
    Steps,        \* the steps that may use the skill
    InWorkspace,  \* those of the workspace's missions
    None,         \* no ref, no text
    MaxVersion    \* bound: changes of one skill

(* What the theorems assume of the constants.                              *)
SkillsAssumption ==
    /\ None \notin Texts \cup Ids /\ SystemText \in Texts \cup {None}
    /\ System \notin Ids \cup {None}

VARIABLES
    skills,    \* row -> scope, version, status, text; version 0: no row
    versions,  \* the definitions on record
    edit,      \* request -> where it is, the row it read, the row it writes
    step       \* step -> where it is, what it pinned, what it last followed

vars == <<skills, versions, edit, step>>

Statuses == {"draft", "active", "archived"}
Rank     == [workspace |-> 3, organization |-> 2, system |-> 1]
NoRow    == [scope |-> "organization", version |-> 0, status |-> "archived", text |-> None]
NoDef    == [ref |-> None, scope |-> "organization", version |-> 0, text |-> None]
Idle     == [pc |-> "idle", id |-> None, copy |-> NoRow, next |-> NoRow]

(* A row, as the definition it holds now.                                  *)
DefOf(id, row) == [ref |-> id, scope |-> row.scope, version |-> row.version, text |-> row.text]

SystemSkills ==
    {[ref |-> System, scope |-> "system", version |-> 1, text |-> x] : x \in {SystemText} \ {None}}

Init ==
    /\ skills = [id \in Ids |-> NoRow]
    /\ versions = {}
    /\ edit = [e \in Editors |-> Idle]
    /\ step = [t \in Steps |-> [pc |-> "planning", pin |-> NoDef, ran |-> NoDef]]

(* What applies to a step's mission: active, and the narrowest scope.      *)
Applies(t, id) ==
    skills[id].status = "active" /\ (skills[id].scope = "organization" \/ t \in InWorkspace)

Effective(t) ==
    LET candidates == SystemSkills \cup {DefOf(id, skills[id]) : id \in {i \in Ids : Applies(t, i)}}
    IN  {d \in candidates : \A other \in candidates : Rank[other.scope] <= Rank[d.scope]}

(* The unique index: one skill of the slug in a scope that is not archived.*)
Free(id, row) ==
    row.status = "archived" \/
    \A other \in Ids \ {id} : skills[other].status = "archived" \/ skills[other].scope # row.scope

(* Recording a definition keeps the one that is on record already.         *)
SameVersion(d, other) == d.ref = other.ref /\ d.version = other.version
WithRecord(d) == IF \E on \in versions : SameVersion(d, on) THEN versions ELSE versions \cup {d}

-----------------------------------------------------------------------------
(* The authors.                                                            *)

Create(e, id, row) ==
    /\ edit[e] = Idle /\ skills[id] = NoRow /\ Free(id, row)
    /\ skills' = [skills EXCEPT ![id] = row]
    /\ edit' = [edit EXCEPT ![e] = [pc |-> "record", id |-> id, copy |-> NoRow, next |-> row]]
    /\ UNCHANGED <<versions, step>>

(* update changes what a skill says unless it is archived; setStatus moves *)
(* it to another status.  The version the author saw must be the one read. *)
Changed(row, next) ==
    \/ /\ row.status # "archived"
       /\ \E x \in Texts : next = [row EXCEPT !.text = x, !.version = @ + 1]
    \/ \E s \in Statuses \ {row.status} : next = [row EXCEPT !.status = s, !.version = @ + 1]

Open(e, id, next) ==
    /\ edit[e] = Idle /\ skills[id] # NoRow /\ Changed(skills[id], next)
    /\ skills[id].version < MaxVersion
    /\ edit' = [edit EXCEPT ![e] = [pc |-> "save", id |-> id, copy |-> skills[id], next |-> next]]
    /\ UNCHANGED <<skills, versions, step>>

(* The update matches the version that was read.                           *)
Save(e) ==
    LET x == edit[e] IN
    /\ x.pc = "save"
    /\ skills[x.id].version = x.copy.version /\ Free(x.id, x.next)
    /\ skills' = [skills EXCEPT ![x.id] = x.next]
    /\ edit' = [edit EXCEPT ![e].pc = "record"]
    /\ UNCHANGED <<versions, step>>

SaveRefused(e) ==
    LET x == edit[e] IN
    /\ x.pc = "save"
    /\ skills[x.id].version # x.copy.version \/ ~ Free(x.id, x.next)
    /\ edit' = [edit EXCEPT ![e] = Idle]
    /\ UNCHANGED <<skills, versions, step>>

Remember(e) ==
    /\ edit[e].pc = "record"
    /\ versions' = WithRecord(DefOf(edit[e].id, edit[e].next))
    /\ edit' = [edit EXCEPT ![e] = Idle]
    /\ UNCHANGED <<skills, step>>

(* The request ends after its row was written and before it is on record.  *)
CutEdit(e) ==
    /\ edit[e].pc = "record"
    /\ edit' = [edit EXCEPT ![e] = Idle]
    /\ UNCHANGED <<skills, versions, step>>

-----------------------------------------------------------------------------
(* Planning: the skills are read before the model is asked, and the one    *)
(* chosen is pinned when its step is routed.  A plan may end on the way.   *)

Choose(t) ==
    /\ step[t].pc = "planning"
    /\ \E d \in Effective(t) \cup {NoDef} :
           step' = [step EXCEPT ![t].pc = "chosen", ![t].pin = d]
    /\ UNCHANGED <<skills, versions, edit>>

Pin(t) ==
    /\ step[t].pc = "chosen" /\ step[t].pin # NoDef
    /\ versions' = WithRecord(step[t].pin)
    /\ \E on \in versions' : /\ SameVersion(step[t].pin, on)
                             /\ step' = [step EXCEPT ![t].pc = "pinned", ![t].pin = on]
    /\ UNCHANGED <<skills, edit>>

(* The step is written: with its pin, or with none, because none was       *)
(* chosen or the step went to an agent that does not hold the skill.       *)
CreateStep(t) ==
    /\ \/ /\ step[t].pc = "pinned"
          /\ step' = [step EXCEPT ![t].pc = "ready"]
       \/ /\ step[t].pc = "chosen"
          /\ step' = [step EXCEPT ![t].pc = "ready", ![t].pin = NoDef]
    /\ UNCHANGED <<skills, versions, edit>>

PlanEnds(t) ==
    /\ step[t].pc \in {"chosen", "pinned"}
    /\ step' = [step EXCEPT ![t].pc = "planning", ![t].pin = NoDef]
    /\ UNCHANGED <<skills, versions, edit>>

-----------------------------------------------------------------------------
(* Running the step: the effective skill is read, and followed if its      *)
(* version is the one pinned; else the version on record is.  An agent     *)
(* that lost a tool or a capability follows neither.                       *)

Ran(t, d) == step' = [step EXCEPT ![t].pc = "ran", ![t].ran = d]

Load(t) ==
    /\ step[t].pc = "ready"
    /\ \/ step[t].pin = NoDef /\ Ran(t, NoDef)
       \/ step[t].pin # NoDef /\ Effective(t) = {} /\ Ran(t, NoDef)
       \/ \E live \in Effective(t) :
              /\ step[t].pin # NoDef
              /\ \/ live.version = step[t].pin.version /\ \E d \in {live, NoDef} : Ran(t, d)
                 \/ /\ live.version # step[t].pin.version
                    /\ step' = [step EXCEPT ![t].pc = "lookup"]
    /\ UNCHANGED <<skills, versions, edit>>

Lookup(t) ==
    /\ step[t].pc = "lookup"
    /\ \/ Ran(t, NoDef)
       \/ \E on \in versions : SameVersion(step[t].pin, on) /\ Ran(t, on)
    /\ UNCHANGED <<skills, versions, edit>>

(* A retry, or another attempt after a lost worker, keeps the pin.         *)
Again(t) ==
    /\ step[t].pc \in {"lookup", "ran"}
    /\ step' = [step EXCEPT ![t].pc = "ready", ![t].ran = NoDef]
    /\ UNCHANGED <<skills, versions, edit>>

-----------------------------------------------------------------------------
NewRows == [scope: {"organization", "workspace"}, version: {1}, status: {"draft", "active"}, text: Texts]

Author(e) ==
    \/ \E id \in Ids : \/ \E row \in NewRows : Create(e, id, row)
                       \/ \E next \in [scope: {skills[id].scope}, version: {skills[id].version + 1},
                                       status: Statuses, text: Texts] : Open(e, id, next)
    \/ Save(e) \/ SaveRefused(e) \/ Remember(e) \/ CutEdit(e)

OfStep(t) == \/ Choose(t) \/ Pin(t) \/ CreateStep(t) \/ PlanEnds(t)
             \/ Load(t) \/ Lookup(t) \/ Again(t)

Next == \/ \E e \in Editors : Author(e)
        \/ \E t \in Steps : OfStep(t)

Spec == Init /\ [][Next]_vars

-----------------------------------------------------------------------------
Rows == [scope: {"organization", "workspace"}, version: Nat, status: Statuses, text: Texts \cup {None}]
Defs == [ref: Ids \cup {System, None}, scope: {"organization", "workspace", "system"},
         version: Nat, text: Texts \cup {None}]

(* The types of the variables; a request about to write, or to record,     *)
(* names a row and holds a changed one.                                    *)
TypeOK ==
    /\ skills \in [Ids -> Rows]
    /\ versions \subseteq Defs
    /\ edit \in [Editors -> [pc: {"idle", "save", "record"}, id: Ids \cup {None}, copy: Rows, next: Rows]]
    /\ step \in [Steps -> [pc: {"planning", "chosen", "pinned", "ready", "lookup", "ran"},
                           pin: Defs, ran: Defs]]
    /\ \A e \in Editors : edit[e].pc # "idle" =>
           edit[e].id \in Ids /\ edit[e].next.version = edit[e].copy.version + 1

(* Every definition somebody holds, or none: a row, the record, an author  *)
(* about to record, a step.                                                *)
Held ==
    {NoDef} \cup SystemSkills \cup versions
    \cup {DefOf(id, skills[id]) : id \in Ids}
    \cup {DefOf(edit[e].id, edit[e].next) : e \in {f \in Editors : edit[f].pc = "record"}}
    \cup {step[t].pin : t \in Steps} \cup {step[t].ran : t \in Steps}

(* A ref and a version name one definition for all time, though authors    *)
(* race each other, a request may be cut before it records what it wrote,  *)
(* and planners record what they read before the model was asked           *)
(* (skill.ts, skillRefOf).                                                 *)
OneDefinition == \A d, other \in Held : SameVersion(d, other) => d = other

(* What a step pinned is on record when it looks for it: no step of this   *)
(* slug runs without its skill because the version is missing              *)
(* (task-execution-service.ts, skillFor).                                  *)
PinsOnRecord ==
    \A t \in Steps : step[t].pc \in {"pinned", "ready", "lookup", "ran"} =>
        step[t].pin \in versions \cup {NoDef}

(* A step never follows another version of the skill it pinned, however    *)
(* often the skill was changed, archived or restored since.                *)
KeepsItsVersion ==
    \A t \in Steps : step[t].ran # NoDef =>
        /\ step[t].ran.version = step[t].pin.version
        /\ step[t].ran.ref = step[t].pin.ref => step[t].ran = step[t].pin

(* "A step runs the version of a skill it was planned around"              *)
(* (docs/skills/README.md): whatever it follows says what it pinned.  The  *)
(* live skill is compared by its version alone (skillFor), so a skill of a *)
(* narrower scope with the same number is followed in its place.           *)
FollowsItsPin == \A t \in Steps : step[t].ran # NoDef => step[t].ran.text = step[t].pin.text

(* "The skill must still be live: one archived or replaced since is not    *)
(* run": a step whose pinned skill is not the effective one when it looks  *)
(* goes on without.  The code only asks that some skill of the slug is.    *)
ReplacedIsNotFollowed ==
    [][\A t \in Steps :
          /\ step[t].pc = "ready" /\ step[t].pin # NoDef
          /\ \A live \in Effective(t) : live.ref # step[t].pin.ref
          => step'[t].pc # "lookup" /\ step'[t].ran = NoDef]_vars
===============================================================================
