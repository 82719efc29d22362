------------------------------- MODULE Events -------------------------------
(***************************************************************************)
(* The poller that turns the detections of the cameras' own AI into        *)
(* events, one at each rising edge.  Settings switch it on and off and     *)
(* choose what it detects while it runs; a camera may not answer.  The     *)
(* cameras are external.                                                   *)
(***************************************************************************)
EXTENDS Naturals, FiniteSets

CONSTANTS
    Smart,        \* the cameras that have such an AI, in use
    Detectable,   \* the kinds a camera may detect
    MaxEdges, MaxSettings  \* bounds: rising edges of each alarm, edits of the settings

ASSUME EventsAssumption == {MaxEdges, MaxSettings} \subseteq Nat

VARIABLES
    alarm, edges,   \* what the cameras detect now, and how often they began to
    detect,         \* the settings: nothing to detect is switched off
    stopFlag,       \* the poller's stop flag
    eye,            \* the poller's thread
    seen,           \* the last answer of each alarm
    raised,         \* the events handed to the alert dispatcher
    settings        \* how much of the bound is spent

eventVars == <<alarm, edges, detect, stopFlag, eye, seen, raised, settings>>

Alarms == Smart \X Detectable
Gone == [pc |-> "gone", cameras |-> {}, kinds |-> {}, camera |-> {}, answer |-> {}]

EventsInit(kinds) ==
    /\ alarm = [a \in Alarms |-> FALSE] /\ edges = [a \in Alarms |-> 0]
    /\ detect = kinds /\ stopFlag = FALSE
    /\ eye = IF kinds = {} THEN Gone ELSE [Gone EXCEPT !.pc = "loop"]
    /\ seen = alarm /\ raised = edges /\ settings = 0

Detection(a) ==
    /\ alarm' = [alarm EXCEPT ![a] = ~@]
    /\ edges' = IF alarm[a] THEN edges ELSE [edges EXCEPT ![a] = @ + 1]
    /\ alarm[a] \/ edges[a] < MaxEdges
    /\ UNCHANGED <<detect, stopFlag, eye, seen, raised, settings>>

\* A change of the settings, and apply: start a thread if none runs, or tell the
\* one that runs to stop.  A thread told to stop that has not seen it yet still
\* runs: switched on again now, the poller is started by nobody.
Apply(kinds) ==
    /\ kinds # detect /\ settings < MaxSettings
    /\ settings' = settings + 1 /\ detect' = kinds
    /\ IF eye.pc # "gone"
       THEN stopFlag' = (stopFlag \/ kinds = {}) /\ UNCHANGED eye
       ELSE IF kinds = {} THEN UNCHANGED <<stopFlag, eye>>
       ELSE stopFlag' = FALSE /\ eye' = [Gone EXCEPT !.pc = "loop"]
    /\ UNCHANGED <<alarm, edges, seen, raised>>

-----------------------------------------------------------------------------
Loop ==
    /\ eye.pc = "loop"
    /\ eye' = IF stopFlag THEN Gone
              ELSE [Gone EXCEPT !.pc = "poll", !.cameras = Smart, !.kinds = detect]
    /\ UNCHANGED <<alarm, edges, detect, stopFlag, seen, raised, settings>>

\* One camera answers with its alarms of now.
ReadStates(cam) ==
    /\ eye.pc = "poll" /\ cam \in eye.cameras
    /\ eye' = [eye EXCEPT !.pc = "answer", !.cameras = @ \ {cam}, !.camera = {cam},
                          !.answer = {a \in {cam} \X eye.kinds : alarm[a]}]
    /\ UNCHANGED <<alarm, edges, detect, stopFlag, seen, raised, settings>>

\* A bug for OneEventPerEdge: no answer is taken for nothing detected.
UnreachableQuiet(cam) ==
    /\ eye.pc = "poll" /\ cam \in eye.cameras
    /\ eye' = [eye EXCEPT !.cameras = @ \ {cam}]
    /\ seen' = [a \in Alarms |-> seen[a] /\ a[1] # cam]
    /\ UNCHANGED <<alarm, edges, detect, stopFlag, raised, settings>>

\* It answered neither the old session nor a new login: its edges stay.
Unreachable(cam) ==
    /\ eye.pc = "poll" /\ cam \in eye.cameras
    /\ eye' = [eye EXCEPT !.cameras = @ \ {cam}]
    /\ UNCHANGED <<alarm, edges, detect, stopFlag, seen, raised, settings>>

\* Raise what is active and was not.
PollCamera ==
    /\ eye.pc = "answer"
    /\ LET asked == eye.camera \X eye.kinds
       IN  /\ raised' = [a \in Alarms |->
                            IF a \in eye.answer /\ ~seen[a] THEN raised[a] + 1 ELSE raised[a]]
           /\ seen' = [a \in Alarms |-> IF a \in asked THEN a \in eye.answer ELSE seen[a]]
    /\ eye' = [eye EXCEPT !.pc = "poll", !.camera = {}, !.answer = {}]
    /\ UNCHANGED <<alarm, edges, detect, stopFlag, settings>>

PollEnds ==
    /\ eye.pc = "poll" /\ eye.cameras = {}
    /\ eye' = [Gone EXCEPT !.pc = "loop"]
    /\ UNCHANGED <<alarm, edges, detect, stopFlag, seen, raised, settings>>

EventsNext ==
    \/ \E a \in Alarms : Detection(a)
    \/ \E kinds \in SUBSET Detectable : Apply(kinds)
    \/ Loop \/ PollCamera \/ PollEnds
    \/ \E cam \in Smart : ReadStates(cam) \/ Unreachable(cam)

EventsSpec == (\E kinds \in SUBSET Detectable : EventsInit(kinds)) /\ [][EventsNext]_eventVars

-----------------------------------------------------------------------------
\* Every variable stays in its range.
EventsTypeOK ==
    /\ detect \subseteq Detectable /\ stopFlag \in BOOLEAN
    /\ eye.pc \in {"gone", "loop", "poll", "answer"} /\ eye.cameras \subseteq Smart
    /\ eye.answer \subseteq Alarms
    /\ \A a \in Alarms : edges[a] \in 0 .. MaxEdges
    /\ settings \in 0 .. MaxSettings

\* A detection makes one event at most, however long it lasts: through polls
\* that get no answer, through the poller being switched off and on, and through
\* its kind being taken out of the settings and put back.
OneEventPerEdge == \A a \in Alarms : raised[a] <= edges[a]

=============================================================================
