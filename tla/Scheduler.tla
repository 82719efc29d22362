----------------------------- MODULE Scheduler -----------------------------
(***************************************************************************)
(* nvr/scheduler.py: time-of-day rules that record, light and dim cameras, *)
(* switch relays and move shades, with the requests of nvr/main.py and the *)
(* people who do the same by hand.                                         *)
(*                                                                         *)
(* A pass reads the rules and the clock once and then calls one camera,    *)
(* relay or motor after the other.  A call takes as long as the network    *)
(* does: meanwhile the clock goes on, rules are edited and relays switched.*)
(***************************************************************************)
EXTENDS Integers, Sequences

CONSTANTS
    Week, Day,      \* days of a week, minutes of a day
    Rules,          \* schedule ids; AUTOINCREMENT gives each out once
    RuleOf,         \* what the row of each id says
    Cameras, Devices, Shades,
    None,
    StartTables,    \* the tables of rules the program may start with
    MaxEdits,       \* bound: rules edited, things done by hand, restarts
    MaxFaults       \* bound: calls that fail

Days    == 0 .. Week - 1
Minutes == 0 .. Day - 1
Actions == {"record", "light", "nightvision", "power", "cover"}
Targets(action) == CASE action = "power" -> Devices
                     [] action = "cover" -> SUBSET Shades
                     [] OTHER -> Cameras

\* _parse_window: at least one day, and an end that is not the start.
ASSUME SchedulerAssumption ==
    /\ {Week, Day} \subseteq Nat \ {0}
    /\ \A r \in Rules :
        /\ RuleOf[r].action \in Actions
        /\ RuleOf[r].target \in Targets(RuleOf[r].action)
        /\ RuleOf[r].days \in (SUBSET Days) \ {{}}
        /\ {RuleOf[r].start, RuleOf[r].end} \subseteq Minutes
        /\ RuleOf[r].start # RuleOf[r].end
    /\ None \notin Cameras \cup Devices \cup Rules /\ None \notin BOOLEAN
    /\ Cameras \cap Devices = {}    \* what each was told is kept in two dictionaries
    /\ StartTables \subseteq [Rules -> {"absent", "enabled", "disabled", "deleted"}]
    /\ {MaxEdits, MaxFaults} \subseteq Nat

VARIABLES
    now,            \* server local time: [day, minute]
    table,          \* rule -> "absent", "enabled", "disabled" or "deleted"
    cam,            \* camera -> [archived, record, light]
    dev,            \* device -> [enabled, on], on being the relay itself
    seen,           \* _light_state and _device_state: what was last asked for
    inside,         \* _nv_inside and _cover_inside
    pass,           \* the locals of the pass
    kept,           \* a pass has begun in this minute
    quiet, refused, byhand, unheard, served, toggled,   \* history, see below
    edits, faults

world   == <<now, table, cam, dev>>
memory  == <<seen, inside>>
history == <<quiet, refused, byhand, unheard, served, toggled>>
budget  == <<edits, faults>>
vars    == <<world, memory, pass, kept, history, budget>>

\* quiet: nothing but the pass has taken a step since it began.  refused: a call
\* of this pass failed.  byhand: relays and lights switched by hand since the
\* scheduler last switched them.  unheard: relays that obeyed a call of which no
\* answer came, and have not answered one since.  served: the rules carried out in
\* their present opening, with the shades each has moved.  toggled: rules that were
\* disabled.

-----------------------------------------------------------------------------
(* in_window *)

DayEnabled(r, day) == day \in r.days

\* Mutant: the tail of a window past midnight is looked up on its own day.
InWindowToday(r, at) ==
    \/ r.start < r.end /\ DayEnabled(r, at.day) /\ r.start <= at.minute /\ at.minute < r.end
    \/ r.end < r.start /\ at.minute >= r.start /\ DayEnabled(r, at.day)
    \/ r.end < r.start /\ at.minute < r.end /\ DayEnabled(r, at.day)

InWindow(r, at) ==
    \/ /\ r.start < r.end
       /\ DayEnabled(r, at.day) /\ r.start <= at.minute /\ at.minute < r.end
    \/ /\ r.end < r.start /\ at.minute >= r.start
       /\ DayEnabled(r, at.day)
    \/ /\ r.end < r.start /\ at.minute < r.end
       /\ DayEnabled(r, (at.day - 1) % Week)

Active(r, at) == InWindow(RuleOf[r], at)

-----------------------------------------------------------------------------
(* A pass *)

Idle == [stage |-> "idle", rows |-> {}, at |-> [day |-> 0, minute |-> 0],
         todo |-> {}, call |-> None, moves |-> {}]

Enabled == {r \in Rules : table[r] = "enabled"}

RulesFor(action, x, rows) == {r \in rows : RuleOf[r].action = action /\ RuleOf[r].target = x}

\* What the loop of a stage goes through: the aggregate kinds go by target.
Items(action, rows) ==
    LET mine == {r \in rows : RuleOf[r].action = action}
    IN  IF action \in {"nightvision", "cover"} THEN mine ELSE {RuleOf[r].target : r \in mine}

\* A target is wanted on if any of its rules is in its window.
Wants(action, x, rows, at) == \E r \in RulesFor(action, x, rows) : Active(r, at)

Order == <<"record", "light", "nightvision", "power", "cover">>

\* Lines 134-138: a stage that has nothing to go through is over at once.
Enter(p, from) ==
    LET left == {i \in from .. Len(Order) : Items(Order[i], p.rows) # {}}
    IN  IF left = {} THEN Idle
        ELSE LET stage == Order[CHOOSE i \in left : \A j \in left : i <= j]
             IN  [p EXCEPT !.stage = stage, !.todo = Items(stage, p.rows)]

\* Lines 122-133: the clock and the enabled rules are read once.
PassBegin ==
    /\ pass.stage = "idle"
    /\ pass' = Enter([Idle EXCEPT !.rows = Enabled, !.at = now], 1)
    /\ kept' = TRUE
    /\ quiet' = TRUE /\ refused' = FALSE
    /\ UNCHANGED <<world, memory, byhand, unheard, served, toggled, budget>>

\* The next kind of rule, or the end of the pass.
PassNext ==
    /\ pass.stage # "idle" /\ pass.todo = {} /\ pass.call = None
    /\ \E i \in DOMAIN Order :
        Order[i] = pass.stage /\ pass' = Enter(pass, i + 1)
    /\ UNCHANGED <<kept, world, memory, history, budget>>

At(stage) == pass.stage = stage /\ pass.call = None
Want(x)   == Wants(pass.stage, x, pass.rows, pass.at)

Done(x)  == pass' = [pass EXCEPT !.todo = @ \ {x}]
Call(x)  == pass' = [pass EXCEPT !.todo = @ \ {x}, !.call = x]
Returned == pass' = [pass EXCEPT !.call = None]

\* A camera control, relay or motor does not answer or says no.
Fails == faults < MaxFaults /\ faults' = faults + 1 /\ refused' = TRUE

\* Mutant: only a camera that is not recording is looked at.
RecordOnly ==
    /\ At("record")
    /\ \E c \in pass.todo :
        IF cam[c].archived \/ cam[c].record THEN Done(c) ELSE Call(c)
    /\ UNCHANGED <<kept, world, memory, history, budget>>

\* Lines 272-280: the camera is read.
RecordRead ==
    /\ At("record")
    /\ \E c \in pass.todo :
        IF cam[c].archived \/ cam[c].record = Want(c) THEN Done(c) ELSE Call(c)
    /\ UNCHANGED <<kept, world, memory, history, budget>>

\* Line 283: its flag is written, over whatever happened in between.
RecordWrite ==
    /\ pass.stage = "record" /\ pass.call # None
    /\ cam' = [cam EXCEPT ![pass.call].record = Want(pass.call)]
    /\ Returned
    /\ UNCHANGED <<kept, now, table, dev, memory, history, budget>>

\* Lines 307-310: the new state is remembered before the camera is asked.
LightFlip ==
    /\ At("light")
    /\ \E c \in pass.todo :
        IF seen[c] = Want(c) THEN Done(c) /\ UNCHANGED seen
        ELSE Call(c) /\ seen' = [seen EXCEPT ![c] = Want(c)]
    /\ UNCHANGED <<kept, world, inside, history, budget>>

\* Lines 311-313, _call_control: an archived camera is left alone, and a failure
\* is logged, whether or not the camera had obeyed.
LightCall ==
    /\ pass.stage = "light" /\ pass.call # None
    /\ Returned
    /\ \/ cam[pass.call].archived /\ UNCHANGED <<cam, refused, byhand, faults>>
       \/ /\ ~cam[pass.call].archived
          /\ cam' = [cam EXCEPT ![pass.call].light = Want(pass.call)]
          /\ byhand' = byhand \ {pass.call}
          /\ UNCHANGED <<refused, faults>>
       \/ /\ ~cam[pass.call].archived
          /\ Fails
          /\ cam' \in {cam, [cam EXCEPT ![pass.call].light = Want(pass.call)]}
          /\ UNCHANGED byhand
    /\ UNCHANGED <<kept, now, table, dev, memory, quiet, unheard, served, toggled, edits>>

\* Mutant: a rule that is not in memory is taken to have been inside.
RiseUnseen(stage) ==
    /\ At(stage)
    /\ \E r \in pass.todo :
        /\ inside' = [inside EXCEPT ![r] = Active(r, pass.at)]
        /\ Done(r)
    /\ UNCHANGED <<kept, world, seen, history, budget>>

\* Mutant: whether the rule was inside is not remembered.
RiseAgain(stage) ==
    /\ At(stage)
    /\ \E r \in pass.todo :
        IF Active(r, pass.at)
        THEN pass' = [pass EXCEPT !.todo = @ \ {r}, !.call = r,
                        !.moves = IF stage = "cover" THEN RuleOf[r].target ELSE {}]
        ELSE Done(r)
    /\ UNCHANGED <<kept, world, memory, history, budget>>

\* Lines 149-166 and 316-325: a rule acts when its window is found open and was
\* not on the previous pass.
Rise(stage) ==
    /\ At(stage)
    /\ \E r \in pass.todo :
        /\ inside' = [inside EXCEPT ![r] = Active(r, pass.at)]
        /\ IF Active(r, pass.at) /\ ~inside[r]
           THEN pass' = [pass EXCEPT !.todo = @ \ {r}, !.call = r,
                           !.moves = IF stage = "cover" THEN RuleOf[r].target ELSE {}]
           ELSE Done(r)
    /\ UNCHANGED <<kept, world, seen, history, budget>>

\* A call that comes after the window has closed serves no opening.
Serve(x) == served' = IF Active(pass.call, now) THEN served \cup {<<pass.call, x>>}
                      ELSE served

\* Lines 326-331: the mode is sent once, answered or not.
NightCall ==
    /\ pass.stage = "nightvision" /\ pass.call # None
    /\ Serve(RuleOf[pass.call].target)
    /\ Returned
    /\ \/ UNCHANGED <<refused, faults>>
       \/ ~cam[RuleOf[pass.call].target].archived /\ Fails
    /\ UNCHANGED <<kept, world, memory, quiet, byhand, unheard, toggled, edits>>

\* Lines 166-208: the shades of the group, one after the other.
CoverMove ==
    /\ pass.stage = "cover" /\ pass.call # None
    /\ \E v \in pass.moves :
        /\ pass' = [pass EXCEPT !.moves = @ \ {v}]
        /\ Serve(v)
    /\ \/ UNCHANGED <<refused, faults>>
       \/ Fails
    /\ UNCHANGED <<kept, world, memory, quiet, byhand, unheard, toggled, edits>>

CoverDone ==
    /\ pass.stage = "cover" /\ pass.call # None /\ pass.moves = {}
    /\ Returned
    /\ UNCHANGED <<kept, world, memory, history, budget>>

\* Lines 235-240: a relay that has been told is not told again.
PowerRead ==
    /\ At("power")
    /\ \E d \in pass.todo :
        IF seen[d] = Want(d) \/ ~dev[d].enabled THEN Done(d) ELSE Call(d)
    /\ UNCHANGED <<kept, world, memory, history, budget>>

\* The relay did what it was told and answered.
Accepted(d) ==
    /\ dev' = [dev EXCEPT ![d].on = Want(d)]
    /\ byhand' = byhand \ {d}
    /\ unheard' = unheard \ {d}
    /\ UNCHANGED <<refused, faults>>

\* It refused or could not be reached, or obeyed and its answer came too late.
Unanswered(d) ==
    /\ Fails
    /\ \/ UNCHANGED <<dev, unheard>>
       \/ /\ dev' = [dev EXCEPT ![d].on = Want(d)]
          /\ unheard' = unheard \cup {d}
    /\ UNCHANGED byhand

\* Mutant: as for the lights, a failed call counts as told.
PowerCallOnce ==
    /\ pass.stage = "power" /\ pass.call # None
    /\ Returned
    /\ Accepted(pass.call) \/ Unanswered(pass.call)
    /\ seen' = [seen EXCEPT ![pass.call] = Want(pass.call)]
    /\ UNCHANGED <<kept, now, table, cam, inside, quiet, served, toggled, edits>>

\* Lines 241-254: what it was told is remembered only once it has accepted.
PowerCall ==
    /\ pass.stage = "power" /\ pass.call # None
    /\ Returned
    /\ \/ Accepted(pass.call) /\ seen' = [seen EXCEPT ![pass.call] = Want(pass.call)]
       \/ Unanswered(pass.call) /\ UNCHANGED seen
    /\ UNCHANGED <<kept, now, table, cam, inside, quiet, served, toggled, edits>>

Pass == \/ PassNext \/ RecordRead \/ RecordWrite \/ LightFlip \/ LightCall
        \/ Rise("nightvision") \/ NightCall \/ PowerRead \/ PowerCall
        \/ Rise("cover") \/ CoverMove \/ CoverDone

-----------------------------------------------------------------------------
(* The clock, the requests, and people *)

After(at) == IF at.minute + 1 \in Minutes THEN [at EXCEPT !.minute = @ + 1]
             ELSE [day |-> (at.day + 1) % Week, minute |-> 0]

\* A rule whose window closes may be served again.  A pass comes every 30 s and
\* takes less than a minute, so each minute sees one begin.
Tick ==
    /\ kept /\ kept' = FALSE
    /\ now' = After(now)
    /\ served' = {s \in served : Active(s[1], now')}
    /\ quiet' = FALSE
    /\ UNCHANGED <<table, cam, dev, memory, pass, refused, byhand, unheard, toggled, budget>>

Edit == edits < MaxEdits /\ edits' = edits + 1 /\ quiet' = FALSE

AddSchedule(r) ==
    /\ Edit /\ table[r] = "absent"
    /\ table' = [table EXCEPT ![r] = "enabled"]
    /\ UNCHANGED <<now, cam, dev, memory, pass, kept, refused, byhand, unheard, served, toggled, faults>>

SetScheduleEnabled(r) ==
    /\ Edit /\ table[r] \in {"enabled", "disabled"}
    /\ table' = [table EXCEPT ![r] = IF @ = "enabled" THEN "disabled" ELSE "enabled"]
    /\ toggled' = toggled \cup {r}
    /\ UNCHANGED <<now, cam, dev, memory, pass, kept, refused, byhand, unheard, served, faults>>

DeleteSchedule(r) ==
    /\ Edit /\ table[r] \in {"enabled", "disabled"}
    /\ table' = [table EXCEPT ![r] = "deleted"]
    /\ UNCHANGED <<now, cam, dev, memory, pass, kept, refused, byhand, unheard, served, toggled, faults>>

\* Archived, restored, or set recording or not by hand.
SetCamera(c, field) ==
    /\ Edit
    /\ cam' = IF field = "archived" THEN [cam EXCEPT ![c].archived = ~@]
              ELSE [cam EXCEPT ![c].record = ~@]
    /\ UNCHANGED <<now, table, dev, memory, pass, kept, refused, byhand, unheard, served, toggled, faults>>

SetLight(c) ==
    /\ Edit
    /\ cam' = [cam EXCEPT ![c].light = ~@]
    /\ byhand' = byhand \cup {c}
    /\ UNCHANGED <<now, table, dev, memory, pass, kept, refused, unheard, served, toggled, faults>>

\* By a request, an automation, or the switch on the wall.
SetRelay(d) ==
    /\ Edit
    /\ dev' = [dev EXCEPT ![d].on = ~@]
    /\ byhand' = byhand \cup {d}
    /\ UNCHANGED <<now, table, cam, memory, pass, kept, refused, unheard, served, toggled, faults>>

SetDeviceEnabled(d) ==
    /\ Edit
    /\ dev' = [dev EXCEPT ![d].enabled = ~@]
    /\ UNCHANGED <<now, table, cam, memory, pass, kept, refused, byhand, unheard, served, toggled, faults>>

Forgotten == [x \in Cameras \cup Devices |-> None]
Outside   == [r \in Rules |-> FALSE]

\* The program stops at any point and is back at some time with an empty memory.
Restart ==
    /\ Edit
    /\ now' \in [day : Days, minute : Minutes]
    /\ seen' = Forgotten /\ inside' = Outside
    /\ pass' = Idle /\ kept' = FALSE
    /\ served' = {} /\ toggled' = {}
    /\ UNCHANGED <<table, cam, dev, refused, byhand, unheard, faults>>

World ==
    \/ Tick \/ Restart
    \/ \E r \in Rules : AddSchedule(r) \/ SetScheduleEnabled(r) \/ DeleteSchedule(r)
    \/ \E c \in Cameras : SetCamera(c, "archived") \/ SetCamera(c, "record") \/ SetLight(c)
    \/ \E d \in Devices : SetRelay(d) \/ SetDeviceEnabled(d)

Init ==
    /\ now \in [day : Days, minute : Minutes]
    /\ table \in StartTables
    /\ cam \in [Cameras -> [archived : {FALSE}, record : BOOLEAN, light : {FALSE}]]
    /\ dev = [d \in Devices |-> [enabled |-> TRUE, on |-> FALSE]]
    /\ seen = Forgotten /\ inside = Outside
    /\ pass = Idle /\ kept = FALSE
    /\ quiet = FALSE /\ refused = FALSE
    /\ byhand = {} /\ unheard = {} /\ served = {} /\ toggled = {}
    /\ edits = 0 /\ faults = 0

Next == PassBegin \/ Pass \/ World

Spec == Init /\ [][Next]_vars

\* The scheduler's loop comes round and each call returns; the clock may stand.
FairSpec == Spec /\ WF_vars(PassBegin \/ Pass)

-----------------------------------------------------------------------------
(* Properties *)

PassType ==
    [stage : Actions \cup {"idle"}, rows : SUBSET Rules, at : [day : Days, minute : Minutes],
     todo : SUBSET (Cameras \cup Devices \cup Rules),
     call : Cameras \cup Devices \cup Rules \cup {None}, moves : SUBSET Shades]

TypeOK ==
    /\ now \in [day : Days, minute : Minutes]
    /\ table \in [Rules -> {"absent", "enabled", "disabled", "deleted"}]
    /\ cam \in [Cameras -> [archived : BOOLEAN, record : BOOLEAN, light : BOOLEAN]]
    /\ dev \in [Devices -> [enabled : BOOLEAN, on : BOOLEAN]]
    /\ seen \in [Cameras \cup Devices -> BOOLEAN \cup {None}]
    /\ inside \in [Rules -> BOOLEAN]
    /\ pass \in PassType
    /\ {kept, quiet, refused} \subseteq BOOLEAN
    /\ byhand \subseteq Cameras \cup Devices /\ unheard \subseteq Devices /\ toggled \subseteq Rules
    /\ served \subseteq Rules \X (Cameras \cup Shades)
    /\ edits \in 0..MaxEdits /\ faults \in 0..MaxFaults

\* "a Monday 22:00-06:00 rule is in force from Monday 22:00 through Tuesday
\* 06:00" (scheduler.py:18): a window begins on each of the rule's days and lasts
\* from its start to the next time the clock shows its end.
Covers(r, at) ==
    \E day \in r.days, k \in 0 .. ((r.end - r.start) % Day) - 1 :
        (day * Day + r.start + k) % (Week * Day) = at.day * Day + at.minute

WindowsMatch == \A r \in Rules : Active(r, now) <=> Covers(RuleOf[r], now)

\* A pass that nothing disturbed and no call of which failed has just ended.
PassWentWell == pass.stage = "idle" /\ quiet /\ ~refused

WantsNow(action, x)  == Wants(action, x, Enabled, now)
Scheduled(action, x) == RulesFor(action, x, Enabled) # {}

\* "within an active window a camera records; when a camera has record-schedules
\* and none is active, it stops" (scheduler.py:8).
RecordsAsScheduled ==
    PassWentWell => \A c \in Cameras :
        Scheduled("record", c) /\ ~cam[c].archived => cam[c].record = WantsNow("record", c)

\* A relay that refused or could not be reached is asked again until it accepts,
\* "rather than being silently written off" (scheduler.py:216): whatever was edited,
\* cancelled or failed on the passes before, it is as its rules say.  Two are left
\* out: one switched by hand is left to the person until the next boundary, and one
\* that obeyed a call and was not heard is not known to differ from what was noted.
RelaysAsScheduled ==
    PassWentWell => \A d \in Devices \ (byhand \cup unheard) :
        Scheduled("power", d) /\ dev[d].enabled => dev[d].on = WantsNow("power", d)

\* "spotlight on inside the window, off outside" (scheduler.py:12).
LightsAsScheduled ==
    PassWentWell => \A c \in Cameras :
        Scheduled("light", c) /\ ~cam[c].archived /\ c \notin byhand =>
            cam[c].light = WantsNow("light", c)

\* "a shade you raised by hand at noon should stay up" (main.py:2834): between two
\* restarts a rule moves each of its shades, and sets its camera's mode, once
\* while its window is open.
OncePerOpening ==
    [][\A s \in served : ~(pass.call = s[1] /\ s[1] \in Rules
                           /\ \/ pass.stage = "nightvision" /\ pass'.call = None
                              \/ s[2] \in pass.moves \ pass'.moves)
                         \/ pass' = Idle]_vars

\* A rule in force that was never disabled is carried out before its window
\* closes, if the window stays open.
Due(r) == /\ table[r] = "enabled" /\ r \notin toggled /\ Active(r, now)
          /\ ~\E s \in served : s[1] = r

Served == \A r \in {q \in Rules : RuleOf[q].action \in {"nightvision", "cover"}} :
              Due(r) ~> ~Due(r)

=============================================================================
