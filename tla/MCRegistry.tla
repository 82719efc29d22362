----------------------------- MODULE MCRegistry -----------------------------
(* A furnished house, one whose calendar was never opened, and one that is  *)
(* about to be set up, two requests.                                        *)
EXTENDS Registry, TLC

CONSTANTS r1, r2

MCRequests == {r1, r2}
MCSymmetry == Permutations(MCRequests)

MCKnown ==
    [users |-> {"A", "B"}, sessions |-> {"sA", "sB", "sB2"},
     admin |-> [s \in {"sA", "sB", "sB2"} |-> s # "sB2"],
     owner |-> [sA |-> "A", sB |-> "B", sB2 |-> "B"],
     cameras |-> {"c1"}, virtual |-> {"w1"}, devices |-> {"p1"}, rooms |-> {"m1"},
     schedules |-> {"x1", "x2", "x3"}, hubs |-> {"h1", "h2"}, coverings |-> {"k1"},
     lists |-> {"l1"}, tasks |-> {"t1"}, calendars |-> {"family", "mine"}, events |-> {"e1"},
     lan |-> {"n1", "n2"}]

MCFree == [cameras |-> <<"c1", "c2", "c3">>, devices |-> <<"p1", "p2", "p3">>,
           calendars |-> <<"family", "family2", "family3">>]
MCMotors == [h1 |-> <<"k1", "k4", "k2">>, h2 |-> <<"k3">>]
MCAddresses == <<"n1", "n2">>
MCOrders ==
    [cameras |-> {<<<<"cameras", "c1">>, <<"virtual", "w1">>>>, <<<<"virtual", "w1">>, <<"cameras", "c1">>>>},
     rooms |-> {<<"m1", "m2">>, <<"m2", "m1">>}, coverings |-> {<<"k1", "k4">>, <<"k4", "k1">>},
     tasks |-> {<<"t1", "t2">>, <<"t2", "t1">>}]

Empty == [t \in Tables |-> [x \in {} |-> None]]
Furnished ==
    [Empty EXCEPT
        !.users = [A |-> User("admin", "start"), B |-> User("admin", "start")],
        !.sessions = [sA |-> Session("A", "start"), sB |-> Session("B", "start"),
                      sB2 |-> Session("B", "start")],
        !.cameras = [c1 |-> [archived |-> "no", rank |-> 0]],
        !.virtual = [w1 |-> [parent |-> "c1", rank |-> 1]],
        !.segments = [g1 |-> [camera |-> "c1"]],
        !.schedules = [x1 |-> Schedule("c1", None, None, None), x2 |-> Schedule(None, "p1", None, None),
                       x3 |-> Schedule(None, None, "k1", None), x4 |-> Schedule(None, None, None, "m1")],
        !.devices = [p1 |-> [enabled |-> "yes"]],
        !.rooms = [m1 |-> [rank |-> 0], m2 |-> [rank |-> 1]],
        !.hubs = [h1 |-> [enabled |-> "yes"]],
        !.coverings = [k1 |-> Covering("h1", "m1"), k4 |-> [Covering("h1", None) EXCEPT !.rank = 1]],
        !.lists = [l1 |-> [rank |-> 0]],
        !.tasks = [t1 |-> Task("l1", "B"), t2 |-> [Task(None, None) EXCEPT !.rank = 1]],
        !.calendars = [family |-> [owner |-> None], mine |-> [owner |-> "B"]],
        !.events = [e1 |-> [calendar |-> "mine"]]]
\* The calendar was never opened, and one person has a private one.
Unopened == [Furnished EXCEPT !.calendars = [mine |-> [owner |-> "B"]]]
MCStartTables == {Empty, Furnished, Unopened}
=============================================================================
