--------------------------- MODULE MCAutomations ---------------------------
(* Two automations on one relay, two detectors, the worker and a request. *)
EXTENDS Automations

CONSTANTS a1, a2, r1, k1, cam

MCOrder == <<a1, a2>>

Switch(state, seconds) == [kind |-> "device", device |-> r1, state |-> state, seconds |-> seconds]
Cover(to) == [kind |-> "covering", coverings |-> {k1}, position |-> to]
Hook == [kind |-> "webhook"]

Row(kind, match, cooldown, days, start, end, actions) ==
    [enabled |-> TRUE, kind |-> kind, match |-> match, cooldown |-> cooldown, days |-> days,
     start |-> start, end |-> end, actions |-> actions]
Anything == [x \in {} |-> x]
Person == [event_type |-> "person"]

\* On for a while when somebody comes; a scene of three actions at night; a
\* draft that is refused.
Timed == Row("event", Person, 1, {0, 1}, None, None, <<Switch("on", 1)>>)
Scene == Row("event", Anything, 0, {0}, 3, 1, <<Cover(50), Hook>>)
MCDrafts == {[Scene EXCEPT !.kind = "hook", !.actions = <<Switch("off", 0)>>],
             [Timed EXCEPT !.actions = <<Cover(101)>>]}
MCRows == {[x \in {a1, a2} |-> IF x = a1 THEN row ELSE None] : row \in {Timed, Scene}}
MCEvents == {[event_type |-> "person", camera_id |-> cam]}

=============================================================================
