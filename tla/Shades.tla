------------------------------- MODULE Shades -------------------------------
(***************************************************************************)
(* The window coverings: a bridge reached by datagrams through one socket  *)
(* and one lock, the poller that keeps the stored positions honest, and    *)
(* the requests and rules that move the motors.                            *)
(*                                                                         *)
(* The wire (net) may lose a packet or hold it for any time, so an answer  *)
(* may come after its request timed out; it is matched by its type and its *)
(* motor only, as the code does.  The bridge, the motors and the wall      *)
(* remote are external.  Times are abstract: whether a burst is due, ends, *)
(* or the hourly pass is due is a choice of the step that reads the clock. *)
(***************************************************************************)
EXTENDS Naturals, Sequences, FiniteSets, SequencesExt

CONSTANTS
    Coverings,       \* the motors, all on one bridge
    FirstPosition,   \* where the motors start
    Positions,       \* 0 is open, 100 is closed
    Silent,          \* the motors whose answers carry no position
    Clients,         \* the threads of the pool and of the scheduler
    Poller,          \* the thread of the poller
    Addressed,       \* the coverings that requests, rules, admins and remotes name singly
    Groups,          \* what a group command may select: a room, a layer, all
    Asked,           \* the kinds of request that clients make
    Commands,        \* the positions that clients ask for, and Stop
    Stop,            \* the command that names no position
    Refused,         \* what the bridge answers to a write it does not accept
    None,
    BACKOFF_AFTER,   \* failures in a row before a motor is rested
    BACKOFF_PASSES,  \* passes for which it is rested
    MaxDisturbances  \* bounds requests, faults, hands on the remote and edits together

Kinds == {"command", "group", "rule", "poll", "refresh", "discover"}

ASSUME ShadesAssumption ==
    /\ Poller \notin Clients /\ IsFiniteSet(Coverings) /\ Silent \subseteq Coverings
    /\ None \notin Coverings \cup Positions \cup {Stop}
    /\ None \notin Clients \cup {Poller} /\ None \notin Kinds \cup {"burst", "full", "rehomed"}
    /\ FirstPosition \in Positions /\ Stop \notin Positions
    /\ Asked \subseteq Kinds /\ Addressed \subseteq Coverings /\ Groups \subseteq SUBSET Coverings
    /\ Commands \subseteq Positions \cup {Stop}
    /\ {BACKOFF_AFTER, BACKOFF_PASSES} \subseteq Nat \ {0}
    /\ MaxDisturbances \in Nat

VARIABLES
    motor, goal,      \* where each motor is, and where it is heading (external)
    past,             \* where each has been or was asked to go, for OwnMotor only
    net, lock,        \* packets on their way; _transport._lock
    row, enabled, hubOn, \* the tables: position and error; coverings and bridge in use
    watched, failures, resting,  \* the poller's dictionaries
    thread, disturbances  \* what each thread is doing; how much of the bound is spent

shadeVars == <<motor, goal, past, net, lock, row, enabled, hubOn, watched, failures,
               resting, thread, disturbances>>
house == <<motor, goal, past>>
wire == <<net, lock>>
tables == <<enabled, hubOn>>
poller == <<watched, failures, resting>>

Threads == Clients \cup {Poller}
\* What may be on the wire: requests to the bridge, and its answers.
Query(type, mac, data) == [to |-> "bridge", type |-> type, mac |-> mac, data |-> data]
Ack(type, mac, data) == [to |-> "us", type |-> type, mac |-> mac, data |-> data]

Idle == [pc |-> "idle", kind |-> None, command |-> None, todo |-> <<>>, answer |-> None]
Disturb == disturbances < MaxDisturbances /\ disturbances' = disturbances + 1

Become(t, pc) == thread' = [thread EXCEPT ![t].pc = pc]
\* The loop's next covering.
Pass(t) == thread' = [thread EXCEPT ![t].pc = "next", ![t].todo = Tail(@), ![t].answer = None]

ShadesInit(pc) ==
    /\ motor = [c \in Coverings |-> FirstPosition] /\ goal = motor
    /\ past = [c \in Coverings |-> {motor[c]}]
    /\ net = {} /\ lock = None
    /\ row = [c \in Coverings |-> [position |-> motor[c], error |-> FALSE]]
    /\ enabled = Coverings /\ hubOn = TRUE
    /\ watched = {} /\ failures = [c \in Coverings |-> 0] /\ resting = failures
    /\ thread = [t \in Threads |-> [Idle EXCEPT !.pc = IF t = Poller THEN pc ELSE "idle"]]
    /\ disturbances = 0

-----------------------------------------------------------------------------
(* The bridge, the motors, the remote on the wall and the wire.            *)

Travel(c) ==
    /\ motor[c] # goal[c]
    /\ motor' = [motor EXCEPT ![c] = goal[c]]
    /\ UNCHANGED <<goal, past, wire, row, tables, poller, thread, disturbances>>

Turn(c, p) == goal' = [goal EXCEPT ![c] = IF p = Stop THEN motor[c] ELSE p]
Recall(c, p) == past' = [past EXCEPT ![c] = @ \cup ({p} \ {Stop})]

WallRemote(c, p) ==
    /\ p # goal[c] /\ Disturb /\ Turn(c, p) /\ Recall(c, p)
    /\ UNCHANGED <<motor, wire, row, tables, poller, thread>>

\* The bridge answers with the position of now, when the motor tells it; a write
\* may be refused, as one with a token older than the bridge's restart is.
HubAnswers(p) ==
    /\ p.to = "bridge"
    /\ \/ /\ p.type = "Read" /\ UNCHANGED goal
          /\ net' = (net \ {p}) \cup {Ack("Read", p.mac, IF p.mac \in Silent THEN None ELSE motor[p.mac])}
       \/ /\ p.type = "List" /\ UNCHANGED goal
          /\ net' = (net \ {p}) \cup {Ack("List", None, None)}
       \/ /\ p.type = "Write" /\ Turn(p.mac, p.data)
          /\ net' = (net \ {p}) \cup {Ack("Write", p.mac, None)}
       \/ /\ p.type = "Write" /\ UNCHANGED goal
          /\ net' = (net \ {p}) \cup {Ack("Write", p.mac, Refused)}
    /\ UNCHANGED <<motor, past, lock, row, tables, poller, thread, disturbances>>

Lose(p) ==
    /\ Disturb /\ net' = net \ {p}
    /\ UNCHANGED <<house, lock, row, tables, poller, thread>>

-----------------------------------------------------------------------------
(* The transport: one request at a time on the socket.                     *)

\* The covering a thread is at; a listing is for no motor.
At(t) == IF thread[t].todo = <<>> THEN None ELSE Head(thread[t].todo)

\* Those that begin with the list of a bridge's motors.
Listings == {"refresh", "rehomed", "discover"}

Message(t) ==
    CASE thread[t].kind \in Listings /\ At(t) = None -> Query("List", None, None)
      [] thread[t].command # None -> Query("Write", At(t), thread[t].command)
      [] OTHER -> Query("Read", At(t), None)

\* The buffer is drained, then the message goes out.  A write is refused before
\* that when there is no token yet: a failure like the bridge's refusal.
Request(t) ==
    /\ thread[t].pc = "ask" /\ lock = None
    /\ lock' = t /\ net' = net \cup {Message(t)}
    /\ Become(t, "wait")
    /\ IF Message(t).type = "Write" THEN Recall(At(t), thread[t].command) ELSE UNCHANGED past
    /\ UNCHANGED <<motor, goal, row, tables, poller, disturbances>>

\* What arrives while nobody waits is in the buffer, for the next drain.
Drain(p) ==
    /\ p.to = "us" /\ lock = None
    /\ net' = net \ {p}
    /\ UNCHANGED <<house, lock, row, tables, poller, thread, disturbances>>

\* A bug for OwnMotor: an answer about any motor is taken.
MatchesAny(t, m) == m.type = Message(t).type

\* Late answers of an earlier call come through too.
Matches(t, m) == m.type = Message(t).type /\ m.mac = Message(t).mac

Collecting(t) == thread[t].kind = "discover"

Receive(t, m) ==
    /\ lock = t /\ m.to = "us"
    /\ net' = net \ {m}
    /\ IF Collecting(t) \/ ~Matches(t, m)
       THEN UNCHANGED <<lock, thread>>
       ELSE /\ lock' = None
            /\ thread' = [thread EXCEPT
                    ![t].pc = IF m.data = Refused THEN "failed" ELSE "answered",
                    ![t].answer = m.data]
    /\ UNCHANGED <<house, row, tables, poller, disturbances>>

\* Nothing on the wire can be this request's answer, or it is merely late.  The
\* collection of a scan ends by the clock.
Timeout(t) ==
    /\ lock = t /\ lock' = None
    /\ IF Collecting(t)
       THEN thread' = [thread EXCEPT ![t] = Idle] /\ UNCHANGED disturbances
       ELSE /\ Become(t, "failed")
            /\ \/ (\A p \in net : ~Matches(t, p)) /\ UNCHANGED disturbances
               \/ Disturb
    /\ UNCHANGED <<house, net, row, tables, poller>>

-----------------------------------------------------------------------------
(* The requests of the pages, the rules and the automations.               *)

Start(t, kind, todo, command, pc) ==
    /\ t \in Clients /\ thread[t].pc = "idle" /\ kind \in Asked /\ Disturb
    /\ thread' = [thread EXCEPT ![t] = [Idle EXCEPT !.pc = pc, !.kind = kind,
                                                    !.todo = todo, !.command = command]]
    /\ UNCHANGED <<house, wire, row, tables, poller>>

\* Checked when the request comes, sent when a thread of the pool takes it.
CommandCovering(t, c, command) ==
    c \in enabled /\ hubOn /\ Start(t, "command", <<c>>, command, "ask")

\* The bridge's row is read once for the whole group.
CommandGroup(t, group, command) ==
    /\ group \cap enabled # {} /\ hubOn
    /\ Start(t, "group", SetToSeq(group \cap enabled), command, "next")

\* Rules and automations move a covering and tell no poller.
MoveCovering(t, c, p) ==
    c \in enabled /\ Start(t, "rule", <<c>>, p, "next")

PollCovering(t, c) == Start(t, "poll", <<c>>, None, "ask")

RefreshHub(t) == Start(t, "refresh", <<>>, None, "ask")

Discover(t) == Start(t, "discover", <<>>, None, "ask")

\* No answer from the bridge: when its MAC is found at another address, it is
\* asked there, once.
Rehome(t) ==
    /\ thread[t].pc = "failed" /\ thread[t].kind = "refresh" /\ At(t) = None
    /\ thread' = [thread EXCEPT ![t].pc = "ask", ![t].kind = "rehomed"]
    /\ UNCHANGED <<house, wire, row, tables, poller, disturbances>>

\* The bridge told its motors: read each one in use.
PollHub(t) ==
    /\ t \in Clients /\ thread[t].kind \in {"refresh", "rehomed"} /\ At(t) = None
    /\ \/ /\ thread[t].pc = "answered" /\ enabled # {}
          /\ thread' = [thread EXCEPT ![t].pc = "next", ![t].kind = "refresh",
                                      ![t].todo = SetToSeq(enabled), ![t].answer = None]
       \/ /\ \/ thread[t].pc = "failed"
             \/ thread[t].pc = "answered" /\ enabled = {}
          /\ thread' = [thread EXCEPT ![t] = Idle]
    /\ UNCHANGED <<house, wire, row, tables, poller, disturbances>>

\* Tell the poller of a move it should follow, forgiving earlier failures.
Watch(t) ==
    /\ thread[t].pc = "moved"
    /\ LET c == At(t)
       IN  /\ watched' = watched \cup {c}
           /\ failures' = [failures EXCEPT ![c] = 0]
           /\ resting' = [resting EXCEPT ![c] = 0]
    /\ Pass(t)
    /\ UNCHANGED <<house, wire, row, tables, disturbances>>

\* An admin takes a covering or the bridge out of use, or back.
UpdateCovering(c) ==
    /\ Disturb
    /\ enabled' = IF c \in enabled THEN enabled \ {c} ELSE enabled \cup {c}
    /\ UNCHANGED <<house, wire, row, hubOn, poller, thread>>

UpdateHub ==
    /\ Disturb /\ hubOn' = ~hubOn
    /\ UNCHANGED <<house, wire, row, enabled, poller, thread>>

-----------------------------------------------------------------------------
(* The poller.                                                             *)

\* The clock says which bursts are due and which are over.
RunBursts ==
    /\ thread[Poller].pc = "idle"
    /\ \E due \in SUBSET watched : \E over \in SUBSET (watched \ due) :
        /\ watched' = watched \ over
        /\ thread' = [thread EXCEPT ![Poller] =
                [Idle EXCEPT !.pc = "next", !.kind = "burst", !.todo = SetToSeq(due)]]
    /\ UNCHANGED <<house, wire, row, tables, failures, resting, disturbances>>

\* The bursts served, the hourly pass if it is due.
PollAll ==
    /\ thread[Poller].pc = "next" /\ thread[Poller].todo = <<>>
    /\ thread[Poller].kind = "burst" /\ enabled # {}
    /\ thread' = [thread EXCEPT ![Poller] =
            [Idle EXCEPT !.pc = "next", !.kind = "full", !.todo = SetToSeq(enabled)]]
    /\ UNCHANGED <<house, wire, row, tables, poller, disturbances>>

\* A loop at its end: the poller sleeps, a request is answered.
Finish(t) ==
    /\ thread[t].pc = "next" /\ thread[t].todo = <<>>
    /\ thread' = [thread EXCEPT ![t] = Idle]
    /\ UNCHANGED <<house, wire, row, tables, poller, disturbances>>

\* What is left of a rest is read here and written by Skip: Watch may forgive
\* between them, and is then forgotten.
Rested(t) ==
    /\ thread[t].kind = "full" /\ thread[t].pc = "next" /\ At(t) # None
    /\ resting[At(t)] > 0
    /\ thread' = [thread EXCEPT ![t].pc = "skip", ![t].answer = resting[At(t)]]
    /\ UNCHANGED <<house, wire, row, tables, poller, disturbances>>

\* A bug for PositionSettles: a pass that is skipped is not counted.
SkipForever(t) ==
    /\ thread[t].pc = "skip" /\ Pass(t)
    /\ UNCHANGED <<house, wire, row, tables, poller, disturbances>>

Skip(t) ==
    /\ thread[t].pc = "skip"
    /\ resting' = [resting EXCEPT ![At(t)] = thread[t].answer - 1]
    /\ Pass(t)
    /\ UNCHANGED <<house, wire, row, tables, watched, failures, disturbances>>

\* The next motor of a loop, passed over when its bridge is out of use; only
\* the group and the refresh have decided that before.
NextCovering(t) ==
    /\ thread[t].pc = "next" /\ At(t) # None
    /\ thread[t].kind = "full" => resting[At(t)] = 0
    /\ IF hubOn \/ thread[t].kind \in {"group", "refresh"} THEN Become(t, "ask") ELSE Pass(t)
    /\ UNCHANGED <<house, wire, row, tables, poller, disturbances>>

-----------------------------------------------------------------------------
(* What the answers leave in the tables.                                   *)

\* A read stores the position, if there is one in it; a write the position asked
\* for, and a stop none.
Remember(t) ==
    /\ thread[t].pc = "answered" /\ At(t) # None
    /\ LET c == At(t)
           told == IF thread[t].command = None THEN thread[t].answer ELSE thread[t].command
           position == IF told \in {None, Stop} THEN row[c].position ELSE told
       IN  /\ row' = [row EXCEPT ![c] = [position |-> position, error |-> FALSE]]
           /\ failures' = IF t = Poller THEN [failures EXCEPT ![c] = 0] ELSE failures
    /\ IF thread[t].kind \in {"command", "group"} THEN Become(t, "moved") ELSE Pass(t)
    /\ UNCHANGED <<house, wire, tables, watched, resting, disturbances>>

\* A bug for TypeOK: rested one failure too late.
NoteFailureLate(t) ==
    /\ thread[t].pc = "failed" /\ At(t) # None
    /\ LET c == At(t)
           count == IF thread[t].kind = "full" THEN failures[c] + 1 ELSE failures[c]
       IN  /\ row' = IF thread[t].kind = "burst" THEN row ELSE [row EXCEPT ![c].error = TRUE]
           /\ failures' = [failures EXCEPT ![c] = count]
           /\ IF thread[t].kind = "full" /\ count > BACKOFF_AFTER
              THEN Become(t, "rest") ELSE Pass(t)
    /\ UNCHANGED <<house, wire, tables, watched, resting, disturbances>>

\* A burst forgives its failures, the hourly pass counts them.
NoteFailure(t) ==
    /\ thread[t].pc = "failed" /\ At(t) # None
    /\ LET c == At(t)
           count == IF thread[t].kind = "full" THEN failures[c] + 1 ELSE failures[c]
       IN  /\ row' = IF thread[t].kind = "burst" THEN row ELSE [row EXCEPT ![c].error = TRUE]
           /\ failures' = [failures EXCEPT ![c] = count]
           /\ IF thread[t].kind = "full" /\ count >= BACKOFF_AFTER
              THEN Become(t, "rest") ELSE Pass(t)
    /\ UNCHANGED <<house, wire, tables, watched, resting, disturbances>>

Rest(t) ==
    /\ thread[t].pc = "rest"
    /\ resting' = [resting EXCEPT ![At(t)] = BACKOFF_PASSES]
    /\ failures' = [failures EXCEPT ![At(t)] = 0]
    /\ Pass(t)
    /\ UNCHANGED <<house, wire, row, tables, watched, disturbances>>

-----------------------------------------------------------------------------
Home ==
    \/ \E c \in Coverings : Travel(c)
    \/ \E c \in Addressed : UpdateCovering(c) \/ \E p \in Positions : WallRemote(c, p)
    \/ \E p \in net : Lose(p)
    \/ UpdateHub
Bridge == \E p \in net : HubAnswers(p) \/ Drain(p) \/ \E t \in Threads : Receive(t, p)

Ask(t) ==
    \/ \E c \in Addressed, command \in Commands : CommandCovering(t, c, command)
    \/ \E group \in Groups, command \in Commands : CommandGroup(t, group, command)
    \/ \E c \in Addressed, p \in Commands \ {Stop} : MoveCovering(t, c, p)
    \/ \E c \in Addressed : PollCovering(t, c)
    \/ RefreshHub(t) \/ Discover(t)

Work(t) ==
    \/ Request(t) \/ Timeout(t) \/ Rehome(t) \/ PollHub(t) \/ Watch(t) \/ Finish(t)
    \/ Rested(t) \/ Skip(t) \/ NextCovering(t) \/ Remember(t) \/ NoteFailure(t) \/ Rest(t)

ShadesNext == Home \/ Bridge \/ RunBursts \/ PollAll \/ \E t \in Threads : Ask(t) \/ Work(t)

\* The coverings by themselves; "off" is a poller that was not started.
ShadesSpec == (\E pc \in {"off", "idle"} : ShadesInit(pc)) /\ [][ShadesNext]_shadeVars

\* The motors arrive and the bridge answers; the poller's thread runs and its
\* clock lets an hour pass again and again; a thread at work goes on.
ShadesFairness ==
    /\ \A c \in Coverings : WF_shadeVars(Travel(c))
    /\ WF_shadeVars(Bridge)
    /\ WF_shadeVars(RunBursts) /\ SF_shadeVars(PollAll)
    /\ \A t \in Threads : WF_shadeVars(Work(t))

-----------------------------------------------------------------------------
\* Every variable stays in its range.
ShadesTypeOK ==
    /\ {motor, goal} \subseteq [Coverings -> Positions]
    /\ past \in [Coverings -> SUBSET Positions]
    /\ lock \in Threads \cup {None}
    /\ row \in [Coverings -> [position : Positions, error : BOOLEAN]]
    /\ enabled \subseteq Coverings /\ watched \subseteq Coverings
    /\ failures \in [Coverings -> 0 .. BACKOFF_AFTER]
    /\ resting \in [Coverings -> 0 .. BACKOFF_PASSES]
    /\ \A t \in Threads : thread[t].pc = "wait" <=> lock = t

\* The position shown for a covering is one that its own motor had or was sent
\* to: no answer about another motor, however late it comes and whoever waits
\* on the socket by then, is taken for it.
OwnMotor == \A c \in Coverings : row[c].position \in past[c]

\* Once nobody moves a covering and the link holds, the error of each one in use
\* is gone and its stored position becomes the real one, for good, if its motor
\* tells it at all: whatever was moved by the remote, recorded as a target,
\* answered late or put to rest.
PositionSettles ==
    <>[](\A c \in Coverings :
            c \in enabled /\ hubOn =>
                ~row[c].error /\ (c \notin Silent => row[c].position = motor[c]))

=============================================================================
