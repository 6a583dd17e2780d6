---------------------------- MODULE MCGovernedStep ----------------------------
(* GovernedStep for TLC: four rules, about the step and about its tools.   *)
EXTENDS GovernedStep

CONSTANTS read, write

Rule(subject, effect, tools, startedBy, external) ==
    [subject |-> subject, effect |-> effect, tools |-> tools, startedBy |-> startedBy, external |-> external]

FourRules == {Rule("tool", "allow", {}, "any", "any"), Rule("tool", "deny", {write}, "any", "yes"),
              Rule("task", "require_approval", {}, "schedule", "no"), Rule("task", "deny", {read}, "any", "any")}

Needs == {{}, {read}, {write}}
=============================================================================
