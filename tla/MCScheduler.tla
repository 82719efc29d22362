---------------------------- MODULE MCScheduler ----------------------------
(* A week of two days of three minutes, and a rule or two of each kind. *)
EXTENDS Scheduler

CONSTANTS c1, d1, v1, v2

Rule(action, target, days, start, end) ==
    [action |-> action, target |-> target, days |-> days, start |-> start, end |-> end]

MCRules  == 1..6
MCRuleOf == <<Rule("record", c1, {0}, 1, 2),
              Rule("light", c1, {1}, 2, 1),
              Rule("nightvision", c1, {0, 1}, 1, 0),
              Rule("power", d1, {1}, 2, 1),
              Rule("power", d1, {0, 1}, 0, 2),
              Rule("cover", {v1, v2}, {0, 1}, 2, 1)>>

\* The kinds of rule do not interact: the rules of one kind are there, or still
\* to be added, and the others are gone.
MCTables ==
    {t \in [MCRules -> {"absent", "enabled", "deleted"}] :
        \E action \in Actions : \A r \in MCRules :
            t[r] = "deleted" <=> MCRuleOf[r].action # action}

=============================================================================
