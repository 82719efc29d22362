---------------------------- MODULE Automations ----------------------------
(***************************************************************************)
(* nvr/automations.py, nvr/alerts.py and nvr/devices.py: an event is       *)
(* recorded, starts the automations it matches and is posted to a webhook; *)
(* a worker runs what was queued and later turns back what was to be on    *)
(* for a time only; people run automations and switch devices themselves.  *)
(*                                                                         *)
(* Every thread is at a pc, and another may act between any two steps.     *)
(* Times are ages and countdowns, so that no clock bounds the behaviours.  *)
(***************************************************************************)
EXTENDS Integers, Sequences, FiniteSets

CONSTANTS
    Detectors, Requests, Worker,    \* threads: of detectors, of the server, the worker
    AutoOrder,      \* ids of automations, in the order of their names
    Drafts,         \* what the form of an automation may hold
    StartRows,      \* the table of automations at the start
    Events, Devices, Coverings, None,
    Asked,          \* what requests ask of a device: "on", "off", "toggle"
    AlertCooldown, MaxAge, QueueSize, MaxSeconds,
    MaxHeld,        \* bound: how long a detector may wait for the lock of the alerts
    MaxEvents,      \* bound: events raised
    MaxOthers       \* bound: requests, edits, buttons, failed calls and restarts, together

Threads == Detectors \cup Requests \cup {Worker}
Runners == Requests \cup {Worker}

Elements(s) == {s[i] : i \in DOMAIN s}
IsList(s)   == s \in Seq(Elements(s))

\* What s has at the places I, in the order of s.
Keep(s, I) == [k \in 1 .. Cardinality(I) |->
                  s[CHOOSE i \in I : Cardinality({j \in I : j < i}) = k - 1]]

Autos   == Elements(AutoOrder)
Keys    == {<<e.camera_id, e.event_type>> : e \in Events}

Minutes  == 0 .. 3      \* the minutes of a day and the days of a week, few
Weekdays == 0 .. 1

\* validate_actions.
ValidAction(a) ==
    CASE a.kind = "device" ->
            /\ a.device # None
            /\ a.state \in {"on", "off", "toggle"}
            /\ a.seconds \in 0 .. MaxSeconds
      [] a.kind = "covering" -> a.position \in 0 .. 100
      [] a.kind = "webhook"  -> TRUE
      [] OTHER -> FALSE

\* _automation_fields and validate_match: what a request may store.
ValidDraft(f) ==
    /\ f.kind \in {"event", "hook"}
    /\ IsList(f.actions) /\ f.actions # <<>>
    /\ \A i \in DOMAIN f.actions : ValidAction(f.actions[i])
    /\ DOMAIN f.match \subseteq {"event_type", "camera_id"}
    /\ f.cooldown >= 0
    /\ f.days \subseteq Weekdays
    /\ {f.start, f.end} \subseteq Minutes \cup {None}

ASSUME AutomationsAssumption ==
    /\ IsFiniteSet(Detectors) /\ Detectors \cap Runners = {}
    /\ {AlertCooldown, MaxAge, QueueSize, MaxSeconds, MaxHeld} \subseteq Nat
    /\ IsList(AutoOrder) /\ None \notin Autos
    /\ \A table \in StartRows :    \* what requests have stored before
          DOMAIN table = Autos /\ \A a \in Autos : table[a] = None \/ ValidDraft(table[a])

\* matches: absent keys match anything.
Matches(pattern, event) == \A k \in DOMAIN pattern : event[k] = pattern[k]

\* in_window.
InWindow(f, weekday, minute) ==
    LET opened(day) == day \in f.days IN
    CASE None \in {f.start, f.end} -> opened(weekday)
      [] f.start = f.end -> FALSE
      [] f.start < f.end -> opened(weekday) /\ minute \in f.start .. f.end - 1
      [] OTHER -> \/ minute >= f.start /\ opened(weekday)
                  \/ minute < f.end /\ opened((weekday - 1) % Cardinality(Weekdays))

VARIABLES
    rows,       \* automation -> its row, or None
    devices,    \* device -> [here, enabled, last_state]
    relay,      \* device -> whether it really is on
    position,   \* covering -> where it was last sent, or None
    queue, reverts,
    rested,     \* automation -> time since _last_run, at most MaxAge
    alerted,    \* (camera, type) -> time since AlertService._last, at most LongAgo
    th,         \* thread -> its locals
    owed, stray, missed,    \* history, see below
    left        \* what is left of the bounds

\* Past the cooldown by whatever reading of the clock a detector still has in hand.
LongAgo == AlertCooldown + MaxHeld

tables  == <<rows, devices, relay, position>>
memory  == <<queue, reverts, rested, alerted>>
history == <<owed, stray, missed>>
vars    == <<tables, memory, th, history, left>>

Idle == [pc |-> "idle", auto |-> None, event |-> None, todo |-> <<>>, age |-> 0,
         want |-> FALSE, retried |-> FALSE]

Go(t, pc)    == th' = [th EXCEPT ![t].pc = pc]
Rest(t)      == th' = [th EXCEPT ![t] = Idle]
Drop(t, pc)  == th' = [th EXCEPT ![t].todo = Tail(@), ![t].pc = pc, ![t].age = 0]
Spend        == left.others > 0 /\ left' = [left EXCEPT !.others = @ - 1]

---------------------------------------------------------------------------
(* A detector's thread: AlertService.emit. *)

\* emit records the event and calls handle_event, which reads the rows once:
\* what is edited meanwhile is not seen.
Emit(d) ==
    LET enabled(a) == rows[a] # None /\ rows[a].enabled
        ids == Keep(AutoOrder, {i \in DOMAIN AutoOrder : enabled(AutoOrder[i])})
    IN  /\ th[d] = Idle
        /\ left.events > 0
        /\ left' = [left EXCEPT !.events = @ - 1]
        /\ \E e \in Events : th' = [th EXCEPT ![d] = [Idle EXCEPT
              !.pc = "match", !.event = e,
              !.todo = [i \in DOMAIN ids |-> [id |-> ids[i], row |-> rows[ids[i]]]]]]
        /\ UNCHANGED <<tables, memory, history>>

CooldownOk(id, f) == f.cooldown <= 0 \/ rested[id] >= f.cooldown

Triggered(d, weekday, minute) ==
    LET f == Head(th[d].todo).row IN
    /\ f.kind = "event"
    /\ Matches(f.match, th[d].event)
    /\ InWindow(f, weekday, minute)
    /\ CooldownOk(Head(th[d].todo).id, f)

\* One row of handle_event's loop, up to the test of the cooldown.
TestRow(d) ==
    /\ th[d].pc = "match"
    /\ th[d].todo # <<>>
    /\ \E weekday \in Weekdays, minute \in Minutes :
          IF Triggered(d, weekday, minute)
          THEN /\ th' = [th EXCEPT ![d].pc = "grant", ![d].age = 0]
               /\ missed' = [missed EXCEPT ![Head(th[d].todo).id] = FALSE]
          ELSE Drop(d, "match") /\ UNCHANGED missed
    /\ UNCHANGED <<tables, memory, owed, stray, left>>

\* Room for one more than there is.
GrantOverfull(d) ==
    LET a    == Head(th[d].todo)
        full == Len(queue) > QueueSize
    IN  /\ th[d].pc = "grant"
        /\ rested' = [rested EXCEPT ![a.id] = IF a.row.cooldown > 0 THEN th[d].age ELSE @]
        /\ queue' = IF full THEN queue ELSE Append(queue, a.id)
        /\ missed' = [missed EXCEPT ![a.id] = full]
        /\ Drop(d, "match")
        /\ UNCHANGED <<tables, reverts, alerted, owed, stray, left>>

\* The rest of _cooldown_ok, which no lock guards, and enqueue: _last_run gets
\* the time of the test, and a full queue drops the run.
Grant(d) ==
    LET a    == Head(th[d].todo)
        full == Len(queue) >= QueueSize
    IN  /\ th[d].pc = "grant"
        /\ rested' = [rested EXCEPT ![a.id] = IF a.row.cooldown > 0 THEN th[d].age ELSE @]
        /\ queue' = IF full THEN queue ELSE Append(queue, a.id)
        /\ missed' = [missed EXCEPT ![a.id] = full]
        /\ Drop(d, "match")
        /\ UNCHANGED <<tables, reverts, alerted, owed, stray, left>>

Key(d) == <<th[d].event.camera_id, th[d].event.event_type>>

NotifyOver(d) == th[d].pc = "match" /\ th[d].todo = <<>>

\* _within_cooldown_ok reads the clock before it waits for the lock.
ReadClock(d) ==
    /\ NotifyOver(d)
    /\ th' = [th EXCEPT ![d].pc = "lock", ![d].age = 0]
    /\ UNCHANGED <<tables, memory, history, left>>

\* By the reading in hand: the last alert of the key may be of a later time.
Cooled(d) == alerted[Key(d)] - th[d].age >= AlertCooldown

\* The lock only around the assignment.
NotifyUnlocked(d) ==
    /\ \/ th[d].pc = "lock" /\ ~Cooled(d) /\ Rest(d) /\ UNCHANGED alerted
       \/ th[d].pc = "lock" /\ Cooled(d) /\ Go(d, "set") /\ UNCHANGED alerted
       \/ th[d].pc = "set" /\ Go(d, "post") /\ alerted' = [alerted EXCEPT ![Key(d)] = th[d].age]
    /\ UNCHANGED <<tables, queue, reverts, rested, history, left>>

\* notify: under _lock the reading is tested and stored in one step.
Notify(d) ==
    /\ th[d].pc = "lock"
    /\ IF Cooled(d)
       THEN /\ th' = [th EXCEPT ![d].pc = "post", ![d].age = 0]
            /\ alerted' = [alerted EXCEPT ![Key(d)] = th[d].age]
       ELSE Rest(d) /\ UNCHANGED alerted
    /\ UNCHANGED <<tables, queue, reverts, rested, history, left>>

\* _post: sent or failed, it is not tried again.
Post(d) ==
    /\ th[d].pc = "post"
    /\ Rest(d)
    /\ UNCHANGED <<tables, memory, history, left>>

---------------------------------------------------------------------------
(* The worker's thread, and those of the requests that run or switch.      *)

\* _loop takes one item of the queue at a time.
Take ==
    /\ th[Worker].pc = "idle"
    /\ queue # <<>>
    /\ queue' = Tail(queue)
    /\ th' = [th EXCEPT ![Worker].pc = "row", ![Worker].auto = Head(queue)]
    /\ UNCHANGED <<tables, reverts, rested, alerted, history, left>>

\* api_run_automation and api_hook_run: neither looks at the trigger, the
\* window or the cooldown.
RunRequest(r, a) ==
    /\ th[r] = Idle
    /\ Spend
    /\ rows[a] # None
    /\ th' = [th EXCEPT ![r].pc = "row", ![r].auto = a]
    /\ UNCHANGED <<tables, memory, history>>

\* api_set_device_state, and api_hook_device of an enabled device.
SwitchRequest(r, d, state) ==
    /\ th[r] = Idle
    /\ Spend
    /\ devices[d].here
    /\ th' = [th EXCEPT ![r].pc = "act", ![r].todo =
                 <<[kind |-> "device", device |-> d, state |-> state, seconds |-> 0]>>]
    /\ UNCHANGED <<tables, memory, history>>

AfterRun(t) == IF t = Worker THEN [Idle EXCEPT !.pc = "revert"] ELSE Idle

\* An error that nobody catches ends the thread.
ReadRowUncaught(t) ==
    /\ th[t].pc = "row"
    /\ th' = [th EXCEPT ![t] = IF rows[th[t].auto] = None THEN [Idle EXCEPT !.pc = "dead"]
                               ELSE [th[t] EXCEPT !.pc = "act", !.todo = rows[th[t].auto].actions]]
    /\ UNCHANGED <<tables, memory, history, left>>

\* run_now reads the row, which may be gone by now: _loop catches the error.
ReadRow(t) ==
    /\ th[t].pc = "row"
    /\ th' = [th EXCEPT ![t] = IF rows[th[t].auto] = None THEN AfterRun(t)
                               ELSE [th[t] EXCEPT !.pc = "act", !.todo = rows[th[t].auto].actions]]
    /\ UNCHANGED <<tables, memory, history, left>>

Acting(t, kind) == th[t].pc = "act" /\ th[t].todo # <<>> /\ Head(th[t].todo).kind = kind

Available(t, d) == devices[d].here /\ (devices[d].enabled \/ (t # Worker /\ th[t].auto = None))

\* toggle asks first; a device that does not tell its state is turned on.
Wanted(a) == CASE a.state = "toggle" -> {~relay[a.device], TRUE}
               [] OTHER -> {a.state = "on"}

\* _run_device and _apply_due_reverts, up to the call.
Aim(t) ==
    LET a == Head(th[t].todo) IN
    /\ Acting(t, "device")
    /\ IF Available(t, a.device)
       THEN /\ \E want \in Wanted(a) : th' = [th EXCEPT ![t].pc = "call", ![t].want = want]
            /\ UNCHANGED owed
       ELSE /\ Drop(t, "act")
            /\ owed' = [owed EXCEPT ![a.device] = FALSE]
    /\ UNCHANGED <<tables, memory, stray, missed, left>>

OthersNoting(t, d) == \E o \in Runners \ {t} :
    th[o].pc = "note" /\ Head(th[o].todo).device = d

\* set_state that the relay obeyed and answered.
Call(t) ==
    LET a == Head(th[t].todo)
        d == a.device
    IN  /\ th[t].pc = "call"
        /\ relay' = [relay EXCEPT ![d] = th[t].want]
        /\ Go(t, "note")
        /\ owed' = [owed EXCEPT ![d] = th[t].want /\ a.seconds > 0]
        /\ stray' = [stray EXCEPT ![d] = OthersNoting(t, d)]
        /\ UNCHANGED <<rows, devices, position, memory, missed, left>>

\* set_state that failed, perhaps after the relay had obeyed.  A request looks
\* for the device at another address (_rehome) and tries once more; then it
\* writes that the state is not known.
CallFails(t) ==
    LET d == Head(th[t].todo).device
        request == t # Worker /\ th[t].auto = None
    IN  /\ th[t].pc = "call"
        /\ Spend
        /\ \E obeyed \in BOOLEAN :
              relay' = [relay EXCEPT ![d] = IF obeyed THEN th[t].want ELSE @]
        /\ \/ request /\ ~th[t].retried
              /\ th' = [th EXCEPT ![t].pc = "act", ![t].retried = TRUE]
              /\ UNCHANGED devices
           \/ Drop(t, "act")
              /\ devices' = [devices EXCEPT ![d].last_state = IF request THEN None ELSE @]
        /\ owed'  = [owed EXCEPT ![d] = FALSE]
        /\ stray' = [stray EXCEPT ![d] = TRUE]
        /\ UNCHANGED <<rows, position, memory, missed>>

\* Booked is what was switched, not its opposite.
BookingAsIs(t) ==
    LET a == Head(th[t].todo) IN
    IF a.seconds = 0 THEN <<>>
    ELSE <<[in |-> a.seconds, device |-> a.device, state |-> th[t].want]>>

Booking(t) ==
    LET a == Head(th[t].todo) IN
    IF a.seconds = 0 THEN <<>>
    ELSE <<[in |-> a.seconds, device |-> a.device, state |-> ~th[t].want]>>

\* A revert does not write down what it did.
NoteRunsOnly(t) ==
    /\ th[t].pc = "note"
    /\ devices' = [devices EXCEPT ![Head(th[t].todo).device].last_state =
          IF t = Worker /\ th[t].auto = None THEN @ ELSE th[t].want]
    /\ reverts' = reverts \o Booking(t)
    /\ Drop(t, "act")
    /\ UNCHANGED <<rows, relay, position, queue, rested, alerted, history, left>>

\* The row of the device, and the revert of "on for five minutes".
Note(t) ==
    /\ th[t].pc = "note"
    /\ devices' = [devices EXCEPT ![Head(th[t].todo).device].last_state = th[t].want]
    /\ reverts' = reverts \o Booking(t)
    /\ Drop(t, "act")
    /\ UNCHANGED <<rows, relay, position, queue, rested, alerted, history, left>>

\* _run_covering: every covering of the group is tried, whichever fail.
MoveCoverings(t) ==
    LET a == Head(th[t].todo) IN
    /\ Acting(t, "covering")
    /\ \E failing \in SUBSET a.coverings :
        /\ failing # {} => left.others > 0
        /\ left' = [left EXCEPT !.others = @ - (IF failing = {} THEN 0 ELSE 1)]
        /\ position' = [c \in Coverings |->
                           IF c \in a.coverings \ failing THEN a.position ELSE position[c]]
    /\ Drop(t, "act")
    /\ UNCHANGED <<rows, devices, relay, memory, history>>

\* _run_webhook: sent or failed, the next action follows.
CallWebhook(t) ==
    /\ Acting(t, "webhook")
    /\ Drop(t, "act")
    /\ UNCHANGED <<tables, memory, history, left>>

\* The end of run_now.  The worker goes on to the reverts.
Finish(t) ==
    /\ th[t].pc = "act"
    /\ th[t].todo = <<>>
    /\ th' = [th EXCEPT ![t] = IF th[t].auto = None THEN Idle ELSE AfterRun(t)]
    /\ UNCHANGED <<tables, memory, history, left>>

\* After a run, or when the queue has been empty for a second.
AtReverts ==
    \/ th[Worker].pc = "revert"
    \/ th[Worker].pc = "idle" /\ queue = <<>> /\ \E i \in DOMAIN reverts : reverts[i].in = 0

\* What is due within the next second is dropped too.
TakeDueSoon ==
    LET now == Keep(reverts, {i \in DOMAIN reverts : reverts[i].in = 0})
    IN  /\ AtReverts
        /\ reverts' = Keep(reverts, {i \in DOMAIN reverts : reverts[i].in > 1})
        /\ th' = [th EXCEPT ![Worker] = [Idle EXCEPT !.pc = "act", !.todo =
              [i \in DOMAIN now |-> [kind |-> "device", device |-> now[i].device, seconds |-> 0,
                                     state |-> IF now[i].state THEN "on" ELSE "off"]]]]
        /\ UNCHANGED <<tables, queue, rested, alerted, history, left>>

\* _apply_due_reverts takes what is due out of the list before it acts on it.
TakeDue ==
    LET now == Keep(reverts, {i \in DOMAIN reverts : reverts[i].in = 0})
    IN  /\ AtReverts
        /\ reverts' = Keep(reverts, {i \in DOMAIN reverts : reverts[i].in > 0})
        /\ th' = [th EXCEPT ![Worker] = [Idle EXCEPT !.pc = "act", !.todo =
              [i \in DOMAIN now |-> [kind |-> "device", device |-> now[i].device, seconds |-> 0,
                                     state |-> IF now[i].state THEN "on" ELSE "off"]]]]
        /\ UNCHANGED <<tables, queue, rested, alerted, history, left>>

---------------------------------------------------------------------------
(* People, time and the machine. *)

\* api_add_automation, api_update_automation and api_delete_automation.
EditAutomation(a) ==
    /\ Spend
    /\ \/ \E f \in Drafts : ValidDraft(f) /\ rows' = [rows EXCEPT ![a] = f]
       \/ rows[a] # None /\ rows' = [rows EXCEPT ![a] = None]
    /\ UNCHANGED <<devices, relay, position, memory, th, history>>

\* api_update_device and api_delete_device.
EditDevice(d) ==
    /\ Spend
    /\ devices[d].here
    /\ \/ devices' = [devices EXCEPT ![d].enabled = ~@]
       \/ devices' = [devices EXCEPT ![d].here = FALSE]
    /\ UNCHANGED <<rows, relay, position, memory, th, history>>

\* The button on the device itself.
PressButton(d) ==
    /\ Spend
    /\ relay' = [relay EXCEPT ![d] = ~@]
    /\ owed'  = [owed EXCEPT ![d] = FALSE]
    /\ stray' = [stray EXCEPT ![d] = TRUE]
    /\ UNCHANGED <<rows, devices, position, memory, th, missed>>

Older(age) == IF age < MaxAge THEN age + 1 ELSE MaxAge

Waiting(t) == th[t].pc = "lock"

Tick ==
    /\ \A d \in Detectors : Waiting(d) => th[d].age < MaxHeld
    /\ rested'  = [a \in Autos |-> Older(rested[a])]
    /\ alerted' = [k \in Keys |-> IF alerted[k] < LongAgo THEN alerted[k] + 1 ELSE LongAgo]
    /\ reverts' = [i \in DOMAIN reverts |->
                      [reverts[i] EXCEPT !.in = IF @ = 0 THEN 0 ELSE @ - 1]]
    /\ th' = [t \in Threads |->
                 CASE th[t].pc = "grant" -> [th[t] EXCEPT !.age = Older(@)]
                   [] Waiting(t) -> [th[t] EXCEPT !.age = @ + 1]
                   [] OTHER -> th[t]]
    /\ UNCHANGED <<tables, queue, history, left>>

\* A crash or a restart: what was queued or booked is gone.
Restart ==
    /\ Spend
    /\ queue' = <<>> /\ reverts' = <<>>
    /\ rested' = [a \in Autos |-> MaxAge]
    /\ alerted' = [k \in Keys |-> LongAgo]
    /\ th' = [t \in Threads |-> Idle]
    /\ owed'   = [d \in Devices |-> FALSE]
    /\ stray'  = [d \in Devices |-> stray[d] \/ \E t \in Runners :
                     th[t].pc = "note" /\ Head(th[t].todo).device = d]
    /\ missed' = [a \in Autos |-> TRUE]
    /\ UNCHANGED tables

Init ==
    /\ rows \in StartRows
    /\ devices = [d \in Devices |-> [here |-> TRUE, enabled |-> TRUE, last_state |-> FALSE]]
    /\ relay = [d \in Devices |-> FALSE]
    /\ position = [c \in Coverings |-> None]
    /\ queue = <<>> /\ reverts = <<>>
    /\ rested = [a \in Autos |-> MaxAge]
    /\ alerted = [k \in Keys |-> LongAgo]
    /\ th = [t \in Threads |-> Idle]
    /\ owed = [d \in Devices |-> FALSE]
    /\ stray = [d \in Devices |-> FALSE]
    /\ missed = [a \in Autos |-> FALSE]
    /\ left = [events |-> MaxEvents, others |-> MaxOthers]

DetectorStep(d) == TestRow(d) \/ Grant(d) \/ ReadClock(d) \/ Notify(d) \/ Post(d)
RunnerStep(t) ==
    \/ ReadRow(t) \/ Aim(t) \/ Call(t) \/ CallFails(t) \/ Note(t)
    \/ MoveCoverings(t) \/ CallWebhook(t) \/ Finish(t)
Running ==
    \/ \E d \in Detectors : DetectorStep(d)
    \/ \E t \in Runners : RunnerStep(t)
    \/ Take \/ TakeDue

Next ==
    \/ Running
    \/ \E d \in Detectors : Emit(d)
    \/ \E r \in Requests :
          \/ \E a \in Autos : RunRequest(r, a)
          \/ \E d \in Devices, state \in Asked : SwitchRequest(r, d, state)
    \/ \E a \in Autos : EditAutomation(a)
    \/ \E d \in Devices : EditDevice(d) \/ PressButton(d)
    \/ Tick \/ Restart

Spec == Init /\ [][Next]_vars

\* Calls return or time out, so some thread that can run does, and time passes.
FairSpec == Spec /\ WF_vars(Running) /\ WF_vars(Tick)

---------------------------------------------------------------------------
(* Correctness *)

TypeOK ==
    /\ DOMAIN rows = Autos
    /\ \A a \in Autos : rows[a] = None \/ ValidDraft(rows[a])
    /\ devices \in [Devices -> [here : BOOLEAN, enabled : BOOLEAN,
                                last_state : BOOLEAN \cup {None}]]
    /\ relay \in [Devices -> BOOLEAN]
    /\ \A i \in DOMAIN reverts : reverts[i].in \in 0 .. MaxSeconds
    /\ Len(queue) <= QueueSize
    /\ rested \in [Autos -> 0 .. MaxAge]
    /\ alerted \in [Keys -> 0 .. LongAgo]
    /\ \A t \in Threads : th[t].pc \in {"idle", "match", "grant", "lock", "post", "row",
                                       "act", "call", "note", "revert"}

\* Whatever threads raise events, of a camera and type one alert at most is let
\* through per cooldown, by the clock as each thread read it: the lock of
\* AlertService makes one step of the test of that reading and its storing.  By the
\* clock on the wall two may be closer, by as long as the second waited for the
\* lock after the first had read: it was let through at a time already past.
Posting(k) == {d \in Detectors : th[d].pc = "post" /\ Key(d) = k}
Limit == INSTANCE RateLimit WITH
            Cooldown <- AlertCooldown, Late <- MaxHeld, age <- alerted,
            passing <- [k \in Keys |-> Cardinality(Posting(k))]
AlertsLimited == Limit!Spec

\* A device that an automation switches on for a time does not stay on: the
\* worker turns it off again, or something else took it over: a later switch
\* or a press of its button, a call that failed, the device gone or disabled
\* when its time came, or a restart, which forgets the reverts.
PutBack == \A d \in Devices : owed[d] ~> ~owed[d]

\* Until then somebody is to turn it off: a booked revert says so, or a thread has
\* just switched it on and has not booked the revert yet, or the worker has taken
\* the revert out of the list (_apply_due_reverts) and still has it to do.
Booked(d)  == \E i \in DOMAIN reverts : reverts[i].device = d /\ ~reverts[i].state
Booker(d)  == \E t \in Runners :
    /\ th[t].pc = "note" /\ th[t].want
    /\ Head(th[t].todo).device = d /\ Head(th[t].todo).seconds > 0
TurnOff(a, d) == a.kind = "device" /\ a.device = d /\ a.state = "off"
Undoing(d) ==
    /\ th[Worker].auto = None /\ th[Worker].pc \in {"act", "call", "note"}
    /\ \E i \in DOMAIN th[Worker].todo :
          TurnOff(th[Worker].todo[i], d) /\ (th[Worker].pc = "note" => i > 1)
RevertPending == \A d \in Devices : owed[d] => Booked(d) \/ Booker(d) \/ Undoing(d)

\* What an event started is run, although the run waits in a queue behind
\* others that fail: the cooldown it used up was not for nothing, unless the
\* queue was full or a restart came first.
Granted(a) == \E d \in Detectors : th[d].pc = "grant" /\ Head(th[d].todo).id = a
Answered == \A a \in Autos : Granted(a) ~> th[Worker].auto = a \/ missed[a]

\* When nothing is under way, the state the program shows of a device is its
\* state, unless its button was pressed, a call failed, or two threads switched
\* it at once and wrote down the outcome in the other order.
AtRest == \A t \in Runners : th[t] = Idle
RowTellsRelay ==
    AtRest => \A d \in Devices : stray[d] \/ devices[d].last_state = relay[d]

=============================================================================
